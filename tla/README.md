# A TLA+ model of suggestions-v4

The repository is a Discord bot that collects suggestions, with a web dashboard and
a background worker. This directory holds TLA+ modules translated from its Python
source, TLC configurations that check them on small instances, and theorems that
TLAPS proves for every value of the constants.

`PROJECT.json` is the index: the components, the runs, the lines of source each
definition stands for, the hazards the properties are aimed at, the mutations of the
code each property notices, and the theorems.

## The system

Several processes share one Postgres database (through the Piccolo ORM) and one
Redis. The **bot** (`src/bot.py`, hikari and lightbulb, one process per cluster of
shards) answers Discord interactions. The **web application** (`src/app.py`,
litestar) serves the dashboard, the API and Stripe's webhooks. The **worker**
(`src/shared/saq/worker.py`, SAQ, ten jobs at a time, no retries, a timeout of one
hour) runs queued and periodic jobs. Every handler is an asyncio task: at each
`await` other tasks run, and those of other processes run all the time. Four facts
shape most of the behaviour:

- `save()` writes **all columns** of the copy a handler fetched, and updates nothing
  when the row is gone. Overlapping handlers overwrite each other.
- `db.transaction()` is Postgres at READ COMMITTED: it rolls back the database and
  nothing else. A `lock_rows` outside of a transaction locks nothing
  (`suggestions_queue.py:173`, `:197`).
- Discord is a third store of state that no transaction covers; a call to it may be
  refused (permissions, a deleted channel or message).
- A process may die between any two steps, and what had been done by then stays.

### Components

| Component | State | Operations | Talks to | Correct when |
|---|---|---|---|---|
| Suggestion lifecycle (`suggestion_menu.py`, `resolve.py`, `clear.py`, `notes.py`, `suggestions.py`, `suggestion_votes.py`) | row, votes, message(s) in Discord | create, vote, note, resolve (with or without `keep_logs`), clear | debounced edit, autocomplete, thread channel | one vote per user; the messages in Discord are the ones the row names and show what it holds; a resolution stands |
| Debounced edit (`shared/saq/suggestions.py`) | Redis key (9 s), scheduled job (10 s) | ask for an edit, run the edit | lifecycle, Discord | a burst of changes costs one edit, and the last of them is shown |
| Queue: filing and moderation (`suggestion_menu.py`, `suggestions_queue.py`, `queued_suggestion.py`) | row in `queued_suggestions`, message in the queue channel | file, approve, reject, clear | lifecycle (an approval creates a suggestion), notifications | resolved once; link and suggestion go together; a resolved suggestion leaves the queue; the author is told what happened |
| Paginators (`queue_paginator.py`, `suggestions_queue_viewer.py`, `voter_paginator.py`) | a list of pages and an index, 15 minutes in memory | next, previous, stop, approve or reject the page shown | moderation | the index is in the list; the page removed is the one decided |
| Interaction dispatch (`bot.py`, `suggestion_menu.py`, `suggestions_queue.py`) | the custom ids of messages and modals | press, open a modal, submit it | every handler of the bot | a press does what was on the screen, under the settings of the moment |
| Guild and user configuration (`guild_configuration_menu.py`, `user_configuration_menu.py`, `blocklist.py`) | a row per guild, a row per user | menus, buttons, channel choices and the block list save the row whole | everything | no setting is lost; the queue has a place to be |
| Autocomplete (`autocomplete.py`, `saq/suggestions.py`) | three lists of ids in Redis | add, remove, rebuild every two hours | lifecycle, queue | it offers what can be acted on |
| Magic links (`auth_controller.py`, `magic_links.py`, `authentication_attempt.py`) | links, attempts, users, sessions | ask for a link, click on it, sign in with a password | e-mail | a link lets one click in; one account per address; the limit holds |
| OAuth (`oauth_controller.py`) | entries, the accounts they are linked to | sign in with Discord, link and unlink | Discord's OAuth | who comes back comes to the same account |
| Other sign-in: passwords, MFA, sessions | users, sessions | sign in and out, verify | | |
| Premium: tokens (`payments.py`, `stripe_controller.py`, `guild_tokens.py`) | guild tokens | webhooks, the purchase page, assign a token to a guild | Stripe | tokens match what was paid for; one premium token per guild |
| Premium: gifts (`gifts_controller.py`) | gift codes in Redis | make a code, redeem it | tokens | a gift is given once |
| Premium: settings and cooldown (`guild_premium.py`, `guild_config.py`) | a row per guild, counts of all users in one Redis key | menu and modals; count and refuse | lifecycle | as many suggestions as configured, no more and no fewer |
| API tokens (`api_tokens.py`) | tokens | create, use, refresh, invalidate | | a client keeps one valid token |
| Weekly aggregation (`aggregate_command_invokes.py`) | uses of commands, a row per week, a Redis key | count the weeks that are over | | every week once, and whole |
| Migrations from v3 (`src/migrations/`) | documents, files, rows | eight steps in a row: scripts, an export, an import, a constraint | | every document and every vote once, whatever died half-way or was run again |
| Error propagation, notifications, statistics | Redis flags | tell once, count | Discord | |
| Dashboard CRUD, guards, start-up, generated migrations, localisation, e-mail, uploads | | | | glue and I/O |

### What is hard

Overlapping handlers that write back older copies; a debounce whose key and job have
different lifetimes; jobs that read the row before or after the commit they report
on; transactions that are open across calls to Discord; a list and an index that
several presses walk at once; modals that outlive the settings they were built
under; read, change and write back in Redis without anything around it; refusals and
crashes half-way; two people doing the same thing at once. `PROJECT.json`
("hazards") lists each with its line and the properties that would notice.

## Modules

| Module | Models | Run(s) |
|---|---|---|
| `EditDebounce` | the Redis key and the delayed job, as the abstract specification of how a burst of changes ends in one edit | `Bot` |
| `SuggestionLifecycle` | one suggestion: the row, votes, messages and every handler and job that touches them; refines `EditDebounce` | `Lifecycle`, `Suggestions`, `LifecycleThread`, `LifecycleButtons`, `LifecycleRevert` |
| `QueueModeration` | one queued suggestion: filing it, moderators approving, rejecting and clearing it, the author's notification | `Bot`, `QueueTwice`, `QueueNotice` |
| `QueuePages` | one paginator: the queue viewer, or the voters of a suggestion | `Bot` |
| `UserConfig` | the settings of one user, and the menu operators | `Bot` |
| `GuildConfig` | the settings of one guild, extends `UserConfig` | `Bot` |
| `Interactions` | presses, their ids, modals, and the settings both run under | `Bot`, `Blocked` |
| `SidCache` | the ids offered by autocomplete | `Suggestions` |
| `V3Migration` | the scripts that move the previous version's data | `Suggestions` |
| `OneTimeSignIn` | the abstract specification of signing in by e-mail: a link lets one visitor in and is used up by it, the first visitor makes the account | `MagicLink` |
| `MagicLink` | one e-mail address: attempts, links, clicks, accounts; refines `OneTimeSignIn` | `MagicLink` |
| `GuildTokens` | the premium tokens of one Stripe subscription: webhooks, the purchase page, assignment to guilds | `Web`, `TokensTwice` |
| `Gifts` | gift codes and the tokens they become | `Web` |
| `PremiumConfig` | premium settings of one guild, and its cooldown | `Web` |
| `ApiTokens` | the API's tokens | `Web` |
| `OAuthLink` | people of Discord and their accounts | `Web` |
| `WeeklyAggregate` | the weekly job | `Web` |
| `MCBot`, `MCSuggestions`, `MCWeb` | modules that share no state, side by side | the runs of those names |
| `*Proofs` | theorems; "Proofs" below says which about which module | |

The three `MC` modules that hold several parts choose one `part` in the initial
state; it runs alone, with its own next-state relation and fairness, and the
variables of the others stay as they began. The states of the run are the sum of the
parts', never their product. Components that do interact are in one module (a call
and its debounced edit; an approval and the suggestion it creates; the tokens'
webhooks and the dashboard; a modal and the settings; a gift and its tokens).

### How state and actions correspond to the code

**EditDebounce.** `key` is the Redis key `SuggestionEditQueue...` that
`queue_suggestion_edit` sets with NX and EX = 9; it holds the call that set it.
`edit_pc` says how far a call is: `ready`, `saved` (its change is committed),
`keyed` (it set the key, lines 28-37), `scheduled` (its job is enqueued, 42-51),
`done`, `crashed`. The job is due ten seconds after it is enqueued and the key
lapses nine seconds after it is set, before that. So `Fetch`, the job's read of the
row, is disabled while the job's own key is there; that ordering of the two
durations is all that is kept of time. `dirty` and `orphaned` are history.

**SuggestionLifecycle.** `row`, `votes` and `shown` are Postgres and Discord. `made`
is the creating handler (`SuggestionMenu.handle_suggestion`), which other handlers
can overlap as soon as its row is saved. When a moderator approves a queued
suggestion the same handler runs inside the approving transaction: `PostDraft` shows
the message, with its buttons, while nobody else can see the row, `CommitDraft` is
the end of that transaction, which makes the row appear complete, and
`WithdrawDraft` is the refusal after the message is out. A press in between finds no
suggestion. A rollback leaves the message and no row (`CreateAborts`). A *call* is
any other interaction: `Fetch` picks the operation and copies the row to `snap`,
later steps work on `snap`, and `SaveRow` writes all of it back. A call that asks
for an edit goes on with the actions of the debounce, and the job it enqueued is
part of it (`JobFetch`, `JobCountUp`, `JobCountDown`, `JobEdit`): the job reads the
row, then the up votes, then the down votes, then edits the message, with the flags
of the call that enqueued it. `Abort` and `Crash` are exceptions and deaths between
steps. Nothing keeps handlers or jobs apart, and nothing in the model does: all of
them overlap anywhere. Three history variables tell what came of it. `outdated` are
the handlers whose copy of the row was saved over, by somebody else, while they were
still to save it (`WriteRow`); the creating handler goes by the name of its message
there. `outrun` are the jobs at work while a later one has read the row, and
`lagging` the messages whose last edit came from such a job. A message is modelled by what
it shows: state, note, votes, and whether the vote buttons are gone. `TRUE \in
KeepLogs` and the like are settings of the guild that may change between reads. Left
out: wording, images, anonymity, the name kept for display (a backfill that
`handle_vote` writes for old votes, 183-190), several notes (one is shown), and the
autocomplete cache, which is `SidCache`.

**QueueModeration.** `filed` is `handle_queued_suggestion`. A call is one modal
submission or `/clear`; a modal's transaction is `Read`, the writes it makes to the
queued row (`draft`, visible to others at `Commit`; `lock` is the row lock that the
first of them takes), the suggestion it creates (`created` in the transaction,
`public` in the channel at once, `stored` at the commit). `Abort` rolls back.
`notice` is the job `queued_suggestion_resolved_notifications`. The suggestion's own
later life is the lifecycle module's business.

**MagicLink.** `req` is a POST to the sign-in form: `Record` stores an attempt,
`Count` counts those of the last ten minutes, `Mail` makes the link. `pc` is a POST
to the page behind the link: `Lock` is the `SELECT ... FOR NO KEY UPDATE NOWAIT` in
the transaction, `holder` the lock, `saver` the call that has an uncommitted write
to the account's row; `Commit` marks the link used. `Forget` and `ExpireLink` are
time. Under the refinement mapping to `OneTimeSignIn` the links that were mailed are
`sent`, the used ones `spent`, the clicks whose transaction committed `entered`, and
`accounts` is `members`: `Mail` is `Send`, `Commit` is `Enter`, everything else is a
stutter. `Registration` holds the values the setting may have. A password sign-in is
modelled up to the check of the limit.

**GuildTokens.** `tokens` is the table `guild_tokens` for one subscription: a row
that has not been made yet is `Unborn`, a deleted one `Gone`. A call is the handling
of one webhook, the purchase page or a post to the dashboard; a webhook carries any
quantity and any billing period, which is what duplicated, late and reordered
deliveries amount to. `created` is `Exists` and `CreateTokens` (one transaction, so
its inserts are one step), `updated` is `Count`, `Load`, `SaveExpiry` for each
token, `Saved` and then `Add` one by one or `Choose` and `Drop` one by one; `paid`
is `Load` and `SaveExpiry`; `Revoke` is the DELETE of the other two events. `work`
holds the copies of rows that are yet to be saved, with all their columns. `Assign`
saves the copy `FetchToken` made, after `CheckGuild`. `Abort` ends any of them
between two steps. `disturbed` is history: the calls during which another one wrote.
Time (`now`) is counted in billing periods; an expiry that is over is 0. Left out:
the account that is made for an unknown customer, and other items of the
subscription.

**QueuePages.** `pages` and `index` are `_paged_data` and `_current_page_index`,
`entry` the expiring entry in `PAGINATOR_OBJECTS`, `message` what the ephemeral
message shows. A press moves along `at`; between two of its steps others turn pages
and remove them. `LoadPending`, `LoadGone` and `LoadGoneLast` are `format_page`,
which looks a page up, drops it when it was resolved elsewhere, and shows the next
one by calling itself; `depth` counts these calls, because the outer ones edit the
message again after the inner one, with nothing to show: after two resolved pages in
a row the message is blank (`Blank`). `PressResolve` drops the page when the modal
*opens*: a modal that is cancelled leaves the suggestion in the queue and out of the
list, and who then presses the old message is told that it was resolved.

**UserConfig, GuildConfig.** `Menus(row)` is what the messages show, `Answered(row,
answer)` what a handler saves for an answer. A handler fetches the row (`config`),
making it when there is none, and saves all of it some awaits later. `intended` is
history: what the answers make of a new row one after the other; `overtaken` says
that a copy was saved that another save had outdated.

**Interactions.** `PressComponent` is `on_component_interaction`: it takes the id
apart, in the form that v3's messages still carry as well as in today's, and hands
it to the handler in `routed`. Some open a `modal`, built under the settings of that
moment; `SubmitModal` is `modal_event`. `made` is what came of it and the settings
read at that time. `Switch` and `ChangeBlocklist` are other people. The old queue
buttons always lose the last character of their name, so they work only with the odd
character v3 put there; a modal with room for files is refused after images have
been turned off, with a file or without. `resolve_suggestion` asks again whether a
moderator may be anonymous, the queue's modal does not.

**SidCache.** `cache` is the three Redis lists. A creation adds its id to two of
them after its row has its message; `/clear` saves the row as cleared and then takes
the id out of the three lists; `population` is the job of the worker: it deletes the
lists and then reads the tables page by page, adding id by id. Two jobs may run at
once, and each may stop anywhere. A row that an approval creates is a `draft`: the
handler puts its id into the lists, but a job cannot see it before `CommitSid`, and
after `RollBackSid` there never was such a row. A refused thread takes the row back
and leaves the id in the lists (`WithdrawSid`); the thread's id is saved with all
columns, which opens a row again that was cleared meanwhile (`SaveThread`), and so
does whoever gives a cleared row another state, as `/resolve` does without asking
(`ReopenSid`); neither puts the id back. `DeleteCache` is one step where the code scans
the keys and unlinks them in batches; an id that is cached between two batches and
unlinked with the second is one that the single step deletes as well. `hidden`
is history: the rows that the last deletion of the lists overlooks for one of these
reasons, which the next job brings back.

**V3Migration.** The scripts in the order of their instructions
(`src/migrations/README.md`), the steps done by hand among them; each reads rows or
files and inserts in batches with `ON CONFLICT DO NOTHING`. `StopScript` breaks one
off. `StartScript` starts the next one, or any earlier one again, which then runs from
its beginning, and those after it follow: that is the one thing assumed of the operator.
The import may be repeated, too. `migrate_votes` begins with a new file, but `Import`
is psql's `\copy`, which appends: `csv` and `vote_rows` hold lines, each a vote and the
runs that wrote and copied it, so that a vote that is there twice is two elements. The
unique constraint is added last, by hand (`AddConstraint`), and is refused when it does
not hold; with the constraint in place a repeated import is refused as a whole (`Fails`).
`migrate_queued_suggestions` makes its last INSERT even if no row is left for it, which
the database may refuse; the script dies there (`InsertNothing`), and would every time
with that number of documents. `fix_guild_configs` is not modelled: it sets block lists
from a file on every run.

**Gifts.** A request reads the code's Redis key, deletes it and saves the tokens one
by one (`code_data`, `next_i`). `gift_raced` are codes that two requests were at
together, `gift_lost` those that expired or whose request failed.

**PremiumConfig.** Two sides of one guild: moderators at the premium menu, whose
handlers fetch the row, wait for a modal, and save it whole; and suggestions that
are checked: the cooldown's counts of all users are read from one key (`Suggest`),
counted up in the copy (`CountUp`), and written back (`StoreCounts`). `used` is what
was allowed; `raced` says that a stale copy was saved. A behaviour stays within one
period.

**ApiTokens.** Hours pass (`NextHour`); a request asks whether its token is valid,
reads it, and makes it last longer, or deletes it and inserts another. `root` traces
a token to its login. The choice the code makes is modelled as it is: a token that
is refreshed early, while its longest life is nearly reached, is replaced by one
that ends sooner.

**OAuthLink.** A sign-in asks Discord for the person's id and address, looks for an
entry and an account, and saves a whole entry later. The branch for an existing
account and no entry reads the missing entry's `user`, which raises: who has an
account already is answered by an error, and the model says so (the branch below it
is never reached). An entry without an account stays behind when registration is
closed or the request dies.

**WeeklyAggregate.** A run reads the weeks of the first and last use, takes the
Redis key, computes the weeks one after the other and then saves them in that order.
It saves the first week even if that is not over, although the comment says "wait
until we have an actual weeks worth" (`aggregate_command_invokes.py:180`);
`WeeksAreWhole` makes that exception.

## Runs

Passing runs:

- `Bot` (309,674 states): six parts.
  *Edits*: three calls, enough for a burst (one job, two drops, or a drop and a
  second key before the first job ran), with a crash anywhere: a dropped request has
  a job ahead of it that will see its change, and under fairness every change is
  fetched unless a crash between the key and the job cost it.
  *Queue*: two moderators, physical or virtual queue. Two is where overlap is
  possible; the theorems cover any number. Every link leads to a stored suggestion,
  what is resolved leaves the queue and stays resolved, and the author is told.
  *Pages*: two presses on a paginator of three suggestions, or of three voters on
  pages of two. Two presses are the fewest that move the index under each other, and
  three pages the fewest with a middle. The index stays in the list, and a single
  press at a time drops no suggestion but the one it is about.
  *Guild*, *user*: two handlers at a time, none of which begins after two saves of
  the guild's row, and two devices of the user: no interleaving of answers leaves a
  queue without its channel, no answer is lost unless handlers overlap, and the menus
  show what is set.
  *Presses*: one press, its modal, and three changes of settings while it is open,
  as many as the submission of a suggestion depends on: what is made keeps to the
  settings of the submission, and a press does what was on the screen.
- `Lifecycle` (448,598 states, one and a half minutes): two calls of any kind and
  their jobs, two voters, one note, one resolution, with or without `keep_logs`, and
  the creating handler, all of which overlap at every step. Two calls and a creating
  handler are three writers of one row, and two are the fewest whose jobs overlap or
  whose requests for an edit are dropped. One vote per user; once nothing is under way
  and nothing failed, the messages in Discord are those the row names and show its
  state, note and votes, but for the two exemptions below; a resolution is undone by
  an outdated `/note` or creating handler only; and, with liveness, the handlers
  implement `EditDebounce!EditFairSpec`.
- `Suggestions` (2.8 million states, two minutes): three parts.
  *Lifecycle*: two calls, one voter; its properties are those of the run `Lifecycle`,
  here only the types.
  *Autocomplete*: two rows, the first of them a suggestion (the second is either
  kind), a page size of one, one job that may stop and start again: after it has run
  to its end every open suggestion whose creation ended is offered, but for those it
  could not see yet and those that came to be open again without their id; what else
  is offered is about to be committed, or went away while a job or its creation was
  under way.
  *Migration*: three documents and two queued ones, batches of two (a full and a
  partial batch, and one that ends exactly at the last document), two interruptions
  or repetitions, as many as it takes to repeat the import, or to break off a script
  and then repeat another: rows, links and lines of the file are neither lost nor
  doubled; the table has every vote after the import, and each once when the
  constraint is there.
- `MagicLink` (444,590 states): two links for one address, three clicks (two on one
  link while another link is clicked), one password, a limit of three: signing in
  implements `OneTimeSignIn`, so a link lets one click in and nothing else uses it up;
  one account comes of it, the limit holds, and no lock stays.
- `Web` (1.6 million states): six parts.
  *Tokens*: two handlers at a time, and any number of them one after the other until
  two rows have been made, quantities one and two: enough for two creations that
  overlap and an update that then drops a token, or for one creation and an update
  that adds one. Whatever was left behind by handlers that failed half-way or
  overlapped, an update that nothing overlaps ends at the quantity paid for and a
  renewal reaches every token; no late save brings back what was revoked; a guild
  gets no second premium unless handlers overlap.
  *Gifts*: three redemptions of two gifts worth two tokens: a gift that no two
  requests redeemed at once gives its worth, to one user, once.
  *Premium*: two moderators and two attempts to suggest: unless a stale copy was
  saved, the counts are what was allowed and a removed cooldown stays removed.
  *API*: two requests, two tokens, a window of one hour and three hours: a login has
  one usable token, which lasts as long as its client was told.
  *OAuth*: two visits of one person, two addresses, an address that changes once:
  who comes back comes to the same account.
  *Weeks*: two runs of the job, weeks 0 to 2, uses that go on: each week that is
  counted is counted once, in order and whole.

Runs that TLC is expected to refute, each a disagreement between the code and a text
of the repository (details under "findings" in `PROJECT.json`):

- `LifecycleThread`: when the thread may not be created, the row is deleted, while
  the user is told that the suggestion was created all the same.
- `LifecycleButtons`: a resolution whose edit is dropped in favour of a vote's
  pending one keeps its vote buttons.
- `LifecycleRevert`: a note, or the creating handler, writes an older copy over a
  resolution. `OnlyStaleCopiesReopen` says that nothing else undoes one.
- `QueueTwice`: two open modals approve one queued suggestion twice.
- `QueueNotice`: the notification may read the row before the commit, and tells the
  author of an approved suggestion that it was rejected.
- `TokensTwice`: the webhook and the purchase page both find no token, and both
  create as many as were paid for.
- `Blocked`: a user on the block list makes a suggestion through the button that a
  moderator posted: the list is looked at by `/suggest` only.

No run assumes that handlers take turns, or that a job is fast. `trouble` exempts
from the properties about what Discord shows the behaviours in which a step of the
bot failed; it never exempts the database.

Deadlock is not checked: all handlers may have ended, and nobody has to press a
button.

**Exemptions.** Several properties hold only while two handlers do not overlap,
because the code puts nothing around read, change and write. Each says so with a
history variable (`overtaken`, `raced`, `crowded`, `gift_raced`, `crossed`, `met`,
`job_raced`, `sid_raced`, `hidden`, `disturbed`), which is set by the very step that
interferes and by nothing else, or by two handlers of the same object at once;
of the lifecycle, `outdated` exempts what Discord shows after a handler saved over a
row that another was still to save (one of the two may then have deleted or posted a
message that the other's copy does not name), and `lagging` a single message whose
last edit came from a job that a later one had outrun, until it is edited again;
crashes and refusals have variables of their own (`trouble`, `failed`, `gift_lost`,
`broken`). What remains are the histories with crashes at every step, repeats and
every sequential order.

**Fairness.** Weak, on the steps of handlers that have begun, on jobs and on the
expiry of a Redis key: asyncio resumes tasks, the worker polls for due jobs, Redis
expires keys. Waiting for a row lock is waiting for the end of another handler,
which is fair itself. Starting an interaction, failing and crashing are not fair. In
`Bot`, each part's fairness is that of its own actions. The parts without liveness
properties state no fairness.

## Proofs

The proofs are in eight modules, each of which extends the modules it is about.

| Proof module | About | Theorems |
|---|---|---|
| `EditDebounceProofs` | `EditDebounce`, for any set of calls | `EditTypeCorrect`, `EditsAreNotLost`, `KeysAreCovered`, `DropsAreCovered` |
| `SuggestionLifecycleProofs` | `SuggestionLifecycle`, for any users, calls, notes and settings | `TypeCorrect`, `VotesStayKeyed`, `ImplementsDebounce`, `ChangesAreNotLost`, `ReopenedByStaleCopies`, `MessagesAreTheRows`, `DisplaysAreTheRows` |
| `QueueModerationProofs` | `QueueModeration`, for any number of moderators | `TypeCorrect`, `LinksStayStored`, `WhatIsPublicIsStored`, `ResolvedHaveLeft`, `ResolvedStaysResolved` |
| `MagicLinkProofs` | `MagicLink`, for any links, clicks, passwords and any limit | `TypeCorrect`, `LinksAreSingleUse`, `LinksAreUsedByOpening`, `OneAccountOnly`, `AttemptsAreLimited`, `ImplementsOneTimeSignIn` |
| `PremiumProofs` | `Gifts`, for any requests, codes, users and amounts | `GiftTypeCorrect`, `GiftsAreGivenOnce` |
| | `PremiumConfig`, for any amount, admins and users | `PremiumTypeCorrect`, `CooldownsAreExact` |
| | `GuildTokens`, for any overlapping handlers, tokens, guilds and quantities | `TypeCorrect`, `QuantityKept`, `RenewalReached`, `RevokedForEver`, `OnePremium`, `TokensPerEntry` |
| `BotProofs` | `QueuePages`, for any number of presses, pages and voters | `PagesTypeCorrect`, `PageIndexStaysValid`, `RightPagesAreDropped` |
| | `GuildConfig` and `UserConfig`, for any handlers, channels, languages and authors | `ConfigTypeCorrect`, `UserTypeCorrect`, `QueueStaysReachable`, `AnswersStandThroughout`, `MenusShowWhatIsSet` |
| | `Interactions`, for any entries and suggestions | `InteractionsTypeCorrect`, `PressesDoWhatWasMeant` |
| | `MCBot`, the six parts of the bot together | `BotIsItsParts`, `BotTypeCorrect`, `BotKeepsItsPromises` |
| `SuggestionsProofs` | `SidCache`, for any suggestions, page sizes and jobs | `SidTypeCorrect`, `OffersAreTheOpen` |
| | `V3Migration`, for any documents, batch size, interruptions and repetitions | `MigrationTypeCorrect`, `MigrationIsWhole` |
| | `MCSuggestions`, its three parts together | `SuggestionsAreTheirParts`, `SuggestionsTypeCorrect`, `SuggestionsKeepTheirPromises` |
| `WebProofs` | `ApiTokens`, for any logins, requests, tokens and hours | `ApiTypeCorrect`, `LoginsAreSound` |
| | `OAuthLink`, for any people, addresses and visits | `OAuthTypeCorrect`, `ReturnsAreKnown` |
| | `WeeklyAggregate`, for any jobs, weeks and uses | `AggregateTypeCorrect`, `WeeksAreAggregatedWhole` |
| | `MCWeb`, its six parts together | `WebIsItsParts`, `WebTypeCorrect`, `WebKeepsItsPromises` |

The only assumptions are the named ones on the constants (null values are not
values, settings are Booleans, the sets of requests, tokens and uses are finite,
quantities are positive); `TokensPerEntry` is about a subscription that has at least one
quantity. No theorem assumes that handlers do not overlap.

*EditDebounce.* `NoLostEdit` (a change that no job has fetched has a call on its way
to a job) is not inductive: a drop would break it. It needs `KeyIsCovered`: while
the key is there, its owner is still on its way to a job, because the job waits for
the key to lapse.

*SuggestionLifecycle.* No vote outlives the row because no handler has got hold of the
suggestion while its creator may still delete the row unseen, or has not committed it
(`UnseenInv`); the same says that whoever fetches during an approval finds nothing,
which the other invariants use. The refinement maps `pc` to the stages of the debounce
and leaves `key`, `dirty` and `orphaned` alone; each action is shown to map to one
action of `EditDebounce` or to none. `ReopenedByStaleCopies` rests on `CopyInv`: a
handler that is still to save the row, and is not in `outdated`, holds the row as it is,
but for what it changes itself. A handler that writes PENDING over a resolution
therefore held an outdated copy; and it is a note or the creating handler because the
others save a state of their own. `MessagesAreTheRows` follows the messages through the
handlers that replace or delete one: `CreationInv` says what the creating handler has
made at each of its stages, `ClearingInv` and `PostedInv` which messages are there while
one is being deleted or replaced, and who is at it (`ExactInv` is the three together).
`DisplaysAreTheRows` adds the jobs, which overlap. Of the jobs at work one is not
outrun, the one that read the row last (`JobsInv`); `LogInv` and `BirthInv` say what a
message shows that was just posted. When no change waits (`~dirty`) and no handler is
about to move the message, either it shows the row, or it is lagging, or a job is at
work that will make it so (`ShownInv`). That a change which does wait has a job ahead of
it is not proved again: it is `NoLostEdit`, obtained through the refinement. So when all
is quiet no change waits, and the message shows the row.

*QueueModeration.* What is committed is what was written to the draft earlier:
`DraftsOK` says for each stage what the draft and the copy hold (a decision, and a
link to a stored suggestion or to the one this transaction has created). `PublicOK`
says that messages without a stored row belong to open transactions; `QueueOK` that
while the message is in the queue channel, every copy knows of it and no call is
past removing it.

*QueuePages.* For the index `ListInv` is enough: the list is a list and the index a
number; what the pages are does not matter, nor where the other presses stand. Each
action leaves the list alone, or moves the index within it, or removes one page and
pulls the index back. For `RightPagesAreDropped` the index has to be followed
through the handler: the page a moderator pressed on is the current one at every
stage of a press that no other overlaps (`OneAtATime`, in `DropsInv`). The type
invariant bounds the index by what could ever be listed, and so needs to know what the
pages are (`PagesInv`).

*GuildConfig.* `HasQueueChannel` must hold of every copy as well as of the row, and
`AnsweredCases` shows that each answer keeps it: the handlers check it on their own
copy, which is the one they save. `AnswersStandThroughout` needs to know which
copies are current: `CopiesAreCurrent` compares the number of saves each handler has
seen with the number made, and `Prepared` says what a handler that is about to save
holds. `MenusShowWhatIsSet` is false of an arbitrary row: a menu could not show a
virtual queue that also has a channel. `VirtualInv` says that no answer leaves one.

*Interactions.* A press is handled long after its component was made, and a modal is
submitted after the settings it was opened under. `ClickInv` says that the modal that is
open is about what the component was routed to, which is what its id says; what was
made is then right because of the id, and not because the settings are what they were.
`EachAsMeant` is the lemma under it: each id of each of the three generations is looked
up as the entry it was composed from.

*Gifts.* `Carries`: a request carries what its code was worth when it read it.
`Alone`, of a code that only one request is at: before the deletion nothing has been
saved for it, afterwards exactly what that request has counted. A frame lemma says
that steps of other requests do not touch that.

*PremiumConfig.* The counts are counted up in memory and written back whole. While no
copy written back was stale the property is its own step of induction, once it is
known that a check which did not refuse has counted to the amount at most (`TrialsOK`)
and that what a menu is about to save are settings (`WishesOK`).

*GuildTokens.* The properties speak of the end of a handler. `AloneOK` says how far
an undisturbed one has come: what an update found missing is still missing (`need`
is the quantity less the number of tokens, after each insert), what is not marked
for deletion is what was paid for, what a renewal has passed is renewed, and the
guild that was found free is free. `Frame` says that a step of another call either
leaves all that alone or disturbs the call.

*GuildTokens* again: `TokensPerEntry` says what remains of "one token per entry",
which `TokensTwice` refutes, of every behaviour: the step that makes one too many is
an insert by a handler during which another one has written (it is `disturbed`). A
handler that nothing disturbs counts right (`AloneOK`), and so makes no more than its
quantity; every other step leaves at most the tokens there were.

*MagicLink.* A click past the lock holds its link; links that are used have been
opened by the click that committed; the account row's uncommitted writer is unique;
each attempt is recorded before it is counted, so the last of the counted ones has
seen the others. `ImplementsOneTimeSignIn` needs two facts more (`OpeningOK`): the link
that a transaction holds was mailed, and the account it is about to update is there.
Then the commit is one step of the abstract specification, entry, link and account
together, and every other action leaves what is mapped alone.

*ApiTokens, OAuthLink.* Neither takes a lock. The invariants have two parts: what holds
whoever overlaps (`ApiBase`; `VisitOK` and `EntryOK`), and, of a login or a person
whose requests did not overlap, that one request at most is under way and that what it
has read is still so (`LoneLoginOK`, `KnownOK`). A step of a request on something else
leaves the second part alone.

*WeeklyAggregate.* A row is right when it is saved because it was computed after its
week was over, from uses that come no more; it comes next because the job that computed
it has had the table to itself since it looked where the table ends. `Turn` says so of
the job that has the key, and holds until the key expires under a job, which is what
the property excuses.

*SidCache.* While a job rebuilds the lists they are incomplete, and the property is
silent. `Backlog` says what is missing then: an open suggestion that is not in a list
it should be in, and is not `hidden`, lies ahead of the job that deleted the lists
last. `RowOK` relates each row to the handlers that create, commit or clear it; a
draft that was cached after the lists were deleted is still in them when it commits,
which is why only the drafts of before are `hidden`.

*V3Migration.* A script can be interrupted between any two steps and started again,
and so can one that was through. `MigrationInv` says that of the documents behind the
reader everything has been written or is in the batch, and of a script that is
finished, everything of all documents; it has a part for each table (`QueuedInv`,
`SuggestionsInv`, `LinksInv`, `VotesInv`, `VoteRowsInv`) and one for the order in which
the scripts run (`OrderInv`). That no row is doubled is in the form of a row: each has
the id of its document, or a new one of its own. That no line of the file is doubled
needs that all of its lines are of one run (`OfRun`), which begins with a new file. The
table may hold a vote twice until the constraint is there; the constraint could be
added only if it does not, and from then on no import can change that.

*The composed modules.* `BotIsItsParts`, `SuggestionsAreTheirParts` and
`WebIsItsParts`: a behaviour of a composed specification is one of each of its parts,
since a step of one part leaves the variables of the others unchanged. So the
theorems of the parts hold of the modules that the runs check:
the type invariants `BotTypeOK`, `SuggestionsTypeOK` and `WebTypeOK`, and the safety
properties, in one theorem per module.

Only model-checked: `ChangeIsFetched`, `AuthorIsTold` and `LockIsReleased`, and the
fairness in `DebounceSpec` (its safety is `ImplementsDebounce`). The prover does not
reason about `ENABLED`, and so not about liveness under fairness.

## Plan

All modules planned exist, each with its runs, and every safety property that a
passing run checks has a theorem. Left:

1. Subscriptions with several items, and the account a webhook makes for an unknown
   customer (`payments.py:76`).
2. What the code should promise of a message whose last edit came from the older of two
   overlapping jobs (`saq/suggestions.py:90`), and of a row that two handlers saved
   over each other: the model says when it happens (`lagging`, `outdated`), the
   properties leave open what should be shown then.

## Not modelled

- Passwords, MFA and sessions beyond the limit on attempts: single checks around a
  library, with no state that another handler changes under them.
- Dashboard CRUD, guards and middleware: request validation and single statements.
  (The documentation of its joins allows a nesting of five, `crud/controller.py:98`;
  the validation starts to count at two.)
- Permission error propagation: two Redis flags, a check before the set; a race
  costs a second message and nothing else reads them. Two of the three notifications
  send a message and change nothing.
- Start-up and sharding, and the web application's life cycle: glue around
  libraries. Dispatch is `Interactions`.
- Generated schema migrations: no control flow. `fix_guild_configs`: one assignment
  per guild.
- Localisation, e-mail, uploads, alerts, statistics: formatting and I/O.
