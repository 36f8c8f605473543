# emlcal: a verification development

emlcal keeps a local archive of several mail and calendar accounts: messages as
raw RFC 822 bytes in a blob store, an SQLite index beside it, a command line and
a terminal interface on top, and a daemon that keeps everything in step with
the providers (JMAP, Gmail, IMAP, CalDAV, Google Calendar). Several of its
processes share one database and one queue of writes, any of them may die at any
time, and the network is away half of the time. That is where its hard
behaviour lies, and what these modules are about.

All paths below are relative to `src/internal/` of the repository.

Contents: 1 inventory, 2 modules and their correspondence to the code, 3 runs,
4 fairness and deadlock, 5 theorems and proofs, 6 what the models found in the
code, 7 what is not modelled, 8 plan.


## 1. Inventory

What the system consists of, the state each part keeps, what it does, whom it
talks to, what is hard about it, and what makes it correct.

| Part | State | Operations | Hard behaviour | Correct when |
|---|---|---|---|---|
| **Outbox** `sync/outbox.go`, `store/state.go` | `outbox` table (attempts, `leased_until`, `done_at`, `failed_at`); in memory the deferred queue and the backoff timers of each process | `Apply`, `ApplyLater`, `RetryOutbox`, lease / release / done / failed / permanently failed, drop | three kinds of process push the same rows; a push may have happened although its answer was lost; crashes, sleeping machines, dead contexts | nobody pushes a row somebody else is pushing; a mail goes out once; a refused write is not tried again; every write is settled |
| **Local writes** `sync/outbox.go`, `store/messages.go` | the index rows a write patches, the fence of pending and recently settled writes | optimistic patch, rollback, fence, catch-up (`recheckFences`) | remote state read before the patch and written after it; two writes on one message; rollback after others touched the row | the index shows local writes until the provider does, and the provider's state afterwards |
| **Mail sync** `sync/mail.go` | `messages`, `sync_state`, `backfill_progress` | `backfill`, `delta`, `reconcile`, `fetchAndStore`, `refreshEnvelopes` | interrupted passes, expired tokens, lists that shift while they are paged | no change is ever skipped; archived bytes are kept; the index catches up |
| **Mail providers** `provider/jmap`, `provider/gmail`, `provider/imap` | none on our side (IMAP: the state string per folder) | `State`, `Enumerate`, `Changes`, `Envelopes`, `FetchRaw`, writes, push | anchors that vanish, tokens from a second call, UID validity, moves that rename | an enumeration misses nothing that stays; a token never covers more than was told |
| **Daemon and locks** `sync/watch.go`, `sync/engine.go`, `sync/pidfile.go`, `sync/offline.go`, `cli/sync.go` | account lock files, pid file, `full:<resource>` rows, per-account hint set and signal channel | `Watch`, `watchAccount`, `SyncAll`, `RequestFull`, `NudgeDaemon`, riding out outages | two daemons, one-shot syncs beside them, kills, hints during a pass | one pass per account; hints and requests are not lost; retries resume |
| **Calendar sync** `sync/calendar.go`, `store/calendar.go` | events, occurrences, per-calendar state | delta, full list, expansion of recurrences, re-expansion | expansion follows the commit of the events; overrides and their masters arrive apart | occurrences always follow from the events stored |
| **Event writes, invitations** `sync/outbox.go`, `sync/rsvp.go`, `itip` | event rows with their raw object, placeholder rows, the recorded answer | create, update, delete, answer; answer by mail and file | no fence: patch, pass, answer and rollback write one row in any order; one of two steps fails; placeholder and real row meet | the agenda ends as the calendar; an answer goes out once; what is accepted is filed |
| **Event mapping** `provider/gcal/map.go`, `provider/caldav/map.go`, `provider/jmap/jscalendar.go`, `cli/cal_write.go` | none | read an object, keep it, change it, write it back | zones, all-day days, floating times, durations, "not set" | an update changes what its flags say and nothing else |
| **Calendar listings and discovery** `provider/caldav`, `provider/jmap/calendar.go` | sync token, home set, account id | discovery, list, delta | a listing is several requests while others write; hosts named by hrefs; a first request that fails | a listing is made good by the next delta; calendars are found where they live |
| **Calendar algorithms** `calendar` | none | expansion, recurrence rules, free time, dates | DST, counts, exceptions | equal to their definition |
| **Blob archive** `blob`, `sync/maint.go` | compressed files named by content, blob references in the index | put, read, verify, reindex, garbage collection, `EnsureRaw` | collection and reindexing beside passes that write | no referenced blob is deleted; a reindex loses nothing |
| **Threads, contacts, search** `store` | thread ids, contact statistics, FTS rows | threading by references, merges, recount | order of arrival | the same threads whatever the order |
| **Store** `store` | the SQLite database | transactions, migrations | several processes | a transaction is atomic |
| **Sending** `cli/mail_write.go`, `tui/compose.go`, each provider's `Submit` | composers, drafts | compose, submit, save, replay | an answer that never comes; a caller that stops waiting; drafts replaced | a message goes out once; what is told is so; a draft is not lost |
| **Accounts, configuration, secrets, tokens** `cli/account.go`, `cli/factory.go`, `config`, `provider/oauth` | `config.toml`, the secrets directory, a token file per Google login | add, change, remove, load, save, refresh | whole-file rewrites without a lock; a command that dies half-way; rotated tokens | every command can read the file; removal leaves nothing; a login survives its use |
| **Terminal interface** `tui` | screens, loads under way, undo stack, settled channel | lists, conversation, reader, compose, undo | results that arrive after the screen has moved on | a row filed away stays away; undo undoes what it says |
| **Command line** `cli` | none | one command per process | shares everything above | exit code and text tell the truth about the write |
| **MIME, compose** `mime`, `compose`, `tui/compose_ai.go` | none | parse, build, quote, cut quotes | any nesting of parts; other clients' quotes | what is built is read back; nobody's words are lost |
| **AI assistance** `tui/compose_ai.go`, `tui/summary.go`, `ai` | screens with a generation in flight, its channel, answers remembered | ask, stop, stream, look up, answer | stopped generations, events given to every screen, failures half-way, endless lookups | a body is what its user left or a whole answer, above the same quote |
| **Output, browser view** | none | conversions and rendering | formats | |

How they interact: a user's command or key press becomes a row of the outbox and
a patch of the index in one transaction, and a call to the provider after it. The
daemon's loop, one per account, holds the account's lock file for as long as it
lives and runs a pass at start, on each tick, on each hint of a push stream and
on each nudge; a one-shot `emlcal sync` takes the same lock for one pass, and
when it cannot have it leaves a request in the database and signals the daemon
by the pid file. A pass of the daemon is followed by passes over the outbox,
which also run on a ticker of their own. Commands that show a message fetch its
bytes themselves when the archive has none, without any lock.


## 2. Modules

| Module | Models | Kind |
|---|---|---|
| `Outbox` | the write queue: rows, leases, pushes, passes, deferred pushes | component |
| `OutboxProofs` | its theorems | proof |
| `MailSync` | a mail pass between a provider and the index, with `EnsureRaw` beside it | component, with its provider |
| `MailSyncProofs` | its theorems | proof |
| `Replica` | what a copy of somebody else's data promises | abstract specification |
| `Daemon` | daemons, one-shot syncs, locks, pid file, hints, requests | component |
| `DaemonProofs` | its theorems | proof |
| `LocalWrite` | the optimistic patch of a message, its fence and rollback, beside a delta | component, with its provider |
| `LocalWriteProofs` | its theorems | proof |
| `CalendarSync` | the pass over a calendar, its expansion, and the daily re-expansion | component, with its provider |
| `CalendarSyncProofs` | its theorems | proof |
| `EventWrite` | writes to a calendar and answers to invitations, beside a pass | component, with its servers |
| `EventWriteProofs` | its theorems | proof |
| `Imap` | mail over IMAP and what a pass makes of it | component, with its server, checked beside `Accounts` |
| `Archive` | blobs, rows, threads and contacts under four kinds of process | component |
| `ArchiveProofs` | its theorems | proof |
| `Ui` | the mail screens of the terminal interface and what they write | component |
| `Send` | composers, commands and providers sending a message | component, with its providers |
| `SendProofs` | its theorems | proof |
| `Accounts` | the commands that add, change and remove accounts, and logins in use | component |
| `Config` | `config.toml` as a value: reading, defaults, checks, writing | operators, used by `Accounts` and, for a theorem, `DaemonProofs` |
| `EventMap` | an event read from a server, changed and written back | operators |
| `FreeTime` | free slots, and the dates a flag may name | operators, uses `EventMap` |
| `Feeds` | CalDAV and JMAP listings and deltas, request by request | operators |
| `Dav` | finding the calendars of an account | operators |
| `Mime` | reading a message's parts and building them | operators |
| `Compose` | quotes, attributions, recipients | operators |
| `Assist` | drafts and summaries by a model: screens, generations, events, answers remembered | component, checked beside `Send` |
| `MC...` | the instances: `MCOutbox`, `MCMailSync`, `MCDaemon`, `MCLocalWrite`, `MCCalendarSync`, `MCEventWrite`, `MCEventMap`, `MCArchive`, `MCUi`, `MCSend`, `MCAccounts` | model checking |

The modules meet at named seams. `Daemon` guarantees one pass per account
(`OnePass`); `MailSync`, `LocalWrite`, `CalendarSync`, `EventWrite` and `Imap` have a single `pc`
because of that. `Outbox` treats a write as an opaque value that is leased, tried and
retired, and `MailSync` has no local writes; `LocalWrite` is where the two meet, on one
message, and `EventWrite` where they meet on a calendar; both know of leases only that
a write is pushed by one goroutine at a time (`SingleHolder`), as `Send` does. `Archive` takes what
a pass has learned as given (`MailSync`, `Imap`) and follows it into files and derived tables.

The operator modules have no state. Each is instantiated by the instance of the
component that uses it, and its laws are checked there for every input of bounded size, in the
initial states: `Mime` by `MCArchive` (`ReadBack`), `Compose` and `Rendered` of `Assist` by `MCSend` (`WordsKept`),
`EventMap` and `FreeTime` by `MCEventWrite` (`ValuesKept`), `Feeds` and `Dav` by `MCCalendarSync`
(`ListingsSound`), for `kind = "inline"`, the calendars their providers keep; `Config` is extended
by `Accounts`, whose `ConfigWhole` checks it on every file a process writes.

### Outbox

`rows` is the outbox table, an array of `Row`: `status` folds `done_at` and
`failed_at` (absent, pending, done, failed), `lease` is the time until
`leased_until`. Each operator `EnqueueOutbox`, `LeaseOutbox`, `ReleaseOutbox`,
`MarkOutboxDone`, `MarkOutboxFailed`, `MarkOutboxPermanentlyFailed` is the
statement of that name in `store/state.go`. A dropped row frees its rowid for
the next one if it was the newest, as SQLite does without AUTOINCREMENT
(`NextId`).

A goroutine (`Workers`) is a caller of `Apply` or `ApplyLater`, the drain
goroutine of a process's deferred queue, or a `RetryOutbox` pass. `pc` is
`calling` while it waits for the provider and `answered` between the answer and
the transaction that records it: a crash or a dead context between the two is
the interesting case. `Answer` chooses how the call ends: `ok`, `rejected`,
`prerequest` and `offline` (what `retryable` tells apart), or `deadline` (the
push's own context). An ambiguous end may or may not have been carried out, and
`applied` counts what the provider really did. `Settle` is `push` after the call,
`SettleUnderDeadContext` the same when the context its statement runs under is dead: a caller's own may be at any time, the drain
goroutine's is the one its call ran out of (`outbox.go:188`: `deferTimeout` ends before `leaseCtx` does), so a deferred push that ends by its deadline records nothing;
`SettlePass` the bookkeeping of `RetryOutbox`, one disjunct per branch of each
switch. `told` is what the user last heard of the write, `lost` how often a push
ended without its bookkeeping (history variables, like `applied`).

Time is counted down: `lease`, `left` (what remains of a push's context) and
`retryAt` (the backoff timers) are minutes they still have to run, and `Tick` is a
minute. Nothing else needs a clock, and states do not drift apart in absolute
time. `Suspend` is the machine sleeping: leases are wall-clock time and expire,
context deadlines and timers are monotonic and stand still.

### MailSync and Replica

The provider keeps a journal (`log`); a state token is a position in it, and
`kept` is the oldest position `Changes` can still answer from. A message is its
place in the provider's list, its flags and mailboxes are a version number. The
database is `rows` (`st`: none, live, deleted; `raw`: archived bytes or a stub;
`ver`), `state` (`sync_state`) and `bf` (`backfill_progress`).

A pass is in one phase `pc` at a time: `SyncMail` decides between backfill, delta
and reconcile exactly as `syncMail` does; `EnumerateBackfill` and
`EnumerateReconcile` take a page and sort it as `backfill` and `reconcile` do;
`ReadChanges`, `ReadProfile` and `ReadEnvelopes` are the separate calls of a
delta, with the provider moving in between; `FetchOne`, `WriteBatch`, `WriteStubs`,
`Resurrect`, `ApplyUpdates`, `Drop` are transactions, each of them one step.
`After` is the order of the phases, and `Todo` says when one is through. What a list names twice is done twice: a stub and an envelope have their place in the list (`at`), and
`again` counts the rest. A chunk of envelopes is read and applied (`RefreshEnvelopes`, `Reapply`) before the next is read.
`Abort` is an error, a cancellation or a crash anywhere: what is committed stays.

The backends differ where the code differs: `NextCursor` and `Rest` are the cursors
of `jmap/mail.go` (anchor and count, and what it does when the anchor is gone) and
of Gmail (page tokens); Gmail's listings carry ids only (`Thin`), and a Gmail delta
that is empty reads its token from the profile.

`EnsureRawFetch` and `EnsureRawWrite` are a command that opens a message without
bytes: it holds no lock, and its answer may be older than the row. `sound` and
`clean` note that this has happened, because `NoGap` cannot hold afterwards until
a reconcile has looked at everything.

`Replica` is what all of this is for: the copy of an item moves forward along the
item's history only, never past where the item is. `Follows` is
`MailSync`'s refinement of it, with `Truth` and `Copy` as the mapping (a destroyed
message is at the end of its history).

### Daemon

A worker is a process and an account: the loop of a daemon, or one account of
`emlcal sync`. `lock` is the lock file's holder, and the kernel gives it back when
the process dies; `pidfile` names whose record the file holds (a record whose
process is gone is `Stale`, because the record carries boot id and start time).
`CheckPid`, `WritePid` and `StartWatch` are three steps, as in `cli/sync.go`, and
`Leave` the deferred removal. A hint is merged (`Hint`, `Nudge`) and signalled
(`Signal`) in two steps, since `accountWatch.fire` does the first under the mutex
and the second outside; `Wake` and `Debounced` are the loop's side.

A pass is `Begin` (the request rows are read), `Attempt` (what `syncMail` makes of a
full pass and an open backfill), `Done` or `Fail`, `Retire` (`fullDone`), once per
resource, mail first. `Fail` distinguishes the daemon (rides out an outage, then
runs the whole pass again) from a one-shot sync (retries the resource). `mail` is
the little of `MailSync` that matters here: is there a state, is a backfill open,
and did the pass that is still at it begin it. `owed` is a history variable: the
requests that no full pass can have covered yet.

### LocalWrite

One message: `remote` is what the provider has, `rev` the length of its journal; `index`
is the message's row and `fence` the minutes `local_patch_at` still protects it
(`NoFence` is NULL, 0 expired). A state is a function from `Fields` to `Values`, a
write two partial ones: what `patchLocal` guesses (`Shows`) and what the provider
makes of it (`Does`); they differ where the code's guess does (a trash that also marks
as read).

`Ask` is `enqueue`'s transaction: row, patch and fence, with the state before it
remembered (`undo`) by the process that asked; then a direct push, a place in the
deferred queue, or, when that is full, nothing. `Dequeue` is the one goroutine that drains
the queue, `Claim` an outbox pass of any process, `Answer` the provider. `Done`,
`Requeue`, `Rollback` with `FailPermanently`, and `LeaveUnrecorded` (both transactions under a
dead context) are the branches of `push` and of `RetryOutbox`, which cannot roll back.
`Crash` takes a whole process, queue and memory.

The pass is `Changes`, `ReadEnvelopes`, `ApplyDelta`, then the recheck of expired fences,
`ListStale`, `SkipQueued`, `Reread`, `Reapply`, `ClearStaleLocalPatches`, each a step, so that a patch
can be made between any two. `Accepts` is `agreesWith` behind a live fence. History:
`order` (the writes as asked for), `loose` (those that others than the queue have
pushed), `foreign` (fields other clients touched), and `sound`, which turns "no" when a
rollback puts back what is no longer true and nothing will look again (section 6).


### CalendarSync

One calendar with a recurring event, whose meetings are the dates `Slots`, and a single
event on one of these dates. `srv` is the calendar at the provider: the series with its
exclusions (`excl`), its moved or cancelled instances (`inst`), and the single event's date;
`stamp` says when each object changed last and a token is a position of that clock.
`RowsOf` is what becomes of an object. Google has objects for instances and the engine
derives a row from each exclusion (`Exdate`, `excludedInstances`); CalDAV and JMAP (`inline`)
keep everything in the series' object and name the rows after it (`exceptionRemoteID`).

The database is `rows` (events by remote id: revision, date, status, live or deleted), `occ`
(`event_occurrences` of each row) and `token` (`cal:<id>` in `sync_state`). The pass is
`syncCalendar` and `syncOneCalendar`, in their order: `ReplaceCalendars`, `EventChanges`,
`FetchObjects` (the content is read after the token, as both kinds do), `UpsertEvent` for
each row, `PruneEventRows`, `MarkEventDeleted`, `ExpandSingle`, the expansion of the series,
`SetState`; each is one call or one transaction, and the provider, the day and the
re-expansion may move between any two. `run` is a `calRun`: the two reads of `load`
(`ListRecurringEvents`, `ListEventExceptions`) and a `ReplaceOccurrences` per row, for the pass
and for `ReexpandAll`. `Shows` is `ApplyExceptions`: which dates a row shows, given the
exceptions read. The remaining variables are history: `whole` is "no" from the moment the
calendar has left the list until it is listed in full, `calm` is "no" once a pass was
interrupted or met a re-expansion, `relisted` notes a full listing that cannot name what is
gone.

Simplified: rows are handled in a fixed order (`Rank`), since nothing looks at them until
the last is stored; of the window only its far end matters; a re-expansion on rows of a
calendar that is dropped under it ends; Google cancels the instances along with their series, as
`provider/gcal/gcal_exdate_test.go` has it.

### EventWrite

One calendar. `objects` is the server, each object with a version; `index` the event rows,
under the server's ids or under placeholders (`pending:<n>`), with the raw object they were
read from (`raw`, the version) and the value JMAP computes its patch against (`base`). `shown` are the keys with
occurrences. `row`, `op` are the outbox, `at`, `by`, `out`, `got`, `seen` the push of each write:
its step, who pushes, how the call ended, the id it gave, the version it read.

`CreateEvent`, `UpdateEvent`, `DeleteEvent`, `RespondEvent` and their kin are `enqueue` with
`patchEvent`; the call is `executeEvent`, read and write apart where the provider has two requests
(a CalDAV update reads the object and puts it with `If-Match`). What the server does differs:
CalDAV compares versions, Google patches what it is sent, JMAP is sent the difference
to `base`. An answer settles the row, and `afterExecute` follows in a transaction of its
own. `RespondByMail` sends the reply, records it and then files the event (`filing`). `Fetch` and
`StoreEvents` are a pass; other clients edit, answer, delete and file. History: `spoiled` marks
a step that has left the index with what nothing will put right, `told`, `given`, `lost`, `made` count
answers and creations.

### EventMap and FreeTime

`EventMap` counts hours; a zone is an offset and one change of the clocks. An object's time is
a date, pinned to an instant, set by the clock of a zone, or floating; `ReadGoogle`, `ReadCalDAV`,
`ReadJMAP` and `WriteGoogle`, `WriteCalDAV`, `WriteJMAP` are the two halves of each provider's map, `Indexed` what the index keeps
(instants in UTC), `Updated` what the flags of `cal update` make of it. `Kept` says that the
object afterwards means what it meant but for the flags, except where an operator
names why not: `Shifted`, `Emptied`, `Flattened` (section 6).

`FreeTime` is `FreeSlots` (merging, windows of working hours day by day) and `ParseWhen`.
`FreeExact` compares the slots with the longest stretches in which nothing is, instant by instant;
`WhenMeant` with the days a phrase means. `Plain` excepts days whose midnight the clocks skip.

### Feeds and Dav

`Feeds` takes a history, a sequence of states of a server, and the moments at which the
requests of a listing fall into it. `DAVHeals` and `JMAPHeals` say that a full listing and
one delta later the rows are the server's; `DAVFollows` and `JMAPFollows` the same of deltas.
The states and tokens are those of the repository's scripted servers, which is also what
the providers' tests run against. `Skipped` and `Strayed` name what JMAP's listing can miss.

`Dav` is the discovery of `caldav.go` as a function of a server (which host answers for which
property, redirects, refused passwords, the vendor's usual path) and of a network that is up or
down for each request; and the choice of a JMAP account. `Reaches`: with the network up
the client ends at the host the calendars live on, or with an error; `NeverGuessed`: without
a vendor's path it never claims a home it was not told.

### Imap

`boxes` are the server's folders, each with its UIDVALIDITY, next uid, modification counter, and
messages by uid. `token` is the sync state, per folder the counts and sets `state.go` keeps;
`walk` the enumeration's cursor. A pass is `pc`: `walk` (a page of a backfill), then for each folder
`FolderQuiet`, `FolderNew` and `FolderEnvelopes`, or `FolderFetch` and `FolderSearch`, then `ApplyRenames` and `FetchIndex`, then `SetState`; every IMAP command is a step, and other clients
deliver, expunge, flag, rename, make and delete folders between any two. A user's move is
`MoveTo`, by MOVE or by COPY and `UIDExpunge`; whoever dies leaves the halves. `unreported`, `unheard`,
`strays` and `misfired` record the four ways in which a comparison without a log misses something (section 6).

### Archive

`files` are the blob store's, `young` those under `orphanGrace`, `temp` the temporary ones;
`db` is one record: rows, references, thread summaries, addresses and contacts, since a transaction
changes several at once. A writer (a pass, a reader) is at `idle`, `link` (the temporary file is
written), `row`; the collector reads what is referenced, what is orphaned and then deletes, one
file at a time; the reindexer reads a page, then writes it. A purge (which asks first whether there is
anything to purge, then which bytes, and then deletes) and a rethread are the collector's and the reindexer's longer forms. `RefreshThreads` and `resolveThreadID` are operators on `db`.
History: `exposed`, `stale`, `unlisted`, `owed` name what the races of section 6 may have left.

### Mime and Compose

`Mime` walks entities as `parse.go` does, to the depth and number of parts it allows, chooses the
body, and builds drafts as `build.go` does. `Complete`: every leaf is body, alternative, attachment
or beyond a limit; what is listed can be fetched. `Faithful`: what is built is read back.
`Folded`, `Packed` and `PageFits` bound header lines, encoded words and inlined pictures.

`Compose` treats a text as a sequence of lines, each of a kind that the regular expressions tell
apart. `Shown`, `QuoteTold`, `ForwardTold` say that what is typed is told from what is
quoted, `Reached` whom an answer to all goes to.

### Assist

A screen (`screens`) counts the questions it has asked and holds the generation in flight (`run`), what it shows (`body`)
and what it puts back (`before`); a generation (`gens`) is the goroutine of `runModel` at one of its `stage`s, with its channel
(`queue`), the conversation it has read (`snap`), and the turns and lookups of `Run`. `Piece`, `AsksFor`, `Answers` and `Breaks` are what the
stream of either server can bring: text, lookups, its proper end, or anything else. `Deliver` is a reader's command and the
broadcast of its event, in one step since a channel has one reader; what makes it two is `crossed` (section 6), and such screens are left
out. Two composers, or a composer and a summary below it, may ask at once, since a composer opens when its message has been read. `Rendered` is what of a conversation
goes into the prompt, by the sizes of its messages.

### Ui

One event loop. `ui` are the screens, each with its rows and the number of the load it waits for;
`loads` the queries under way, each with the answer it will bring once it has been queried
(`Deliver` is the answer, in any order). `Triage` takes a row off and starts a
command (`todo`); `Run` is the command's transaction, `Applied` its message, `Accept` and `Refuse`
the provider, `Settled` the channel of refusals. `ApplyUndo` is the undo key, `Tick` the look
at what was committed. `away` and `claim` are history, and `crossed` marks an answer that belonged
to another screen (section 6).

### Send

A row of the outbox has the text it sends, whether with an envelope, and the composer or
command it came from; a call (`calls`) is at a `stage` of the backend's own sequence: JMAP's upload,
import and submission, Gmail's one request, SMTP's connection, data and filing. Every call
can fail before, after or without being carried out, and what the code makes of that
is `Lost`, `Broken`, `Unreachable`. `Applied`, `Follow` and `Report` are what happens after: the row is settled, the
original marked answered and the draft put in the trash, the user told. `Replay` is the outbox pass.

### Accounts and Config

`Config` gives a file as optional keys, its `Load` with all defaults, its `Save` without those that equal their default,
and `Validate`. `Accounts` has processes that read the file once (`view`) and write it whole; `account add`
is: check, secret, login, save; `account remove`: secrets and login one by one, rows, save; each a step, and a crash or
another process between any two. A secret that cannot be deleted, a secret store or an index that cannot be opened is passed over, as the code does
(`DeleteSecret`, `DeleteAccount`; `kept` names what stays); an error that ends the command is its `Crash` there. A login is a refresh token; `Refresh` may be given a new one, and
`SaveToken` writes it. `raced`, `shared` and `lost` name the accounts on which two processes
worked at once, or whose token was never saved.


## 3. Runs

Bounds are constants of the modules or budgets in the guards of the faults; each
is named in the module's CONSTANTS. A property named in a cfg is often a conjunction of
parts that belong together; the parts have names and comments of their own in the module.

### Runs that pass

**`outbox`** (`Outbox.cfg`, under `FairSpec`): two writes, a send (single shot) and a deferred flag change; a
terminal interface whose commands have deadlines, with its drain goroutine, which has one too, and the daemon's ticker; one crash, one
suspended machine and one drop, two attempts (the code allows ten). The table has room for one row at a time, which the
second write takes over once the first is dropped. Shows: pushes of one write never overlap (`SingleHolder`); a send is
carried out at most once more than the pushes of it that ended without bookkeeping, and a row says done
only of its own write (`Accounted` is `OncePerLoss` and `DoneMeansApplied`); a row
that has left the queue is never pushed again, whatever an older listing says, and a write the
user was told has failed is not carried out later unless bookkeeping was lost (`StaysEnded` is
`RetiredIsFinal` and `FailedUnlessLost`; neither speaks of deferred writes, whose lease begins when they are queued: behind three that use
up their time it is over before the push begins, and a pass may be at the same row); and each write leaves the queue, whichever of its pushes die
(`EventuallySettled`). Only the order of lease, push and backoff matters for what can
overlap, and it is an assumption of the module (`TimesAssumption`). What two rows could do to
each other is a pass that holds an old listing; a dropped and reused row is the sharper form of it.

**`mail`** (`MailSync.cfg`): two scenes. In the first, three messages, one of them above the size limit, two old ones (1 and 3) so that
an arrival falls between them, two changes at the provider, both backends, from a new archive and from one damaged in
any one way (`MaxSpoiled` = 1, which counts as one change and one fault); and two (Gmail) or three (JMAP) of: an abort, a forgotten journal, a `--full`,
a backfill started over, one message lost behind the cursor, one change inside a quiet poll, one reader (`FewFaults` = 3),
changes and faults together at most four (`FewEvents`).
In the second, the walk of a JMAP list by a reconcile and what comes of it, with a fourth message, three changes and four faults: a list that is resumed after one or
two of the messages behind its cursor were destroyed, that jumps over one or hands one out twice, with a reader beside.
Shows that no change is skipped in the middle of every pass and after
every abort (`NoGap`); that what a stored cursor has passed is done,
that an open backfill and a state exclude each other, and that no
pass downloads a message above the limit (`BackfillSound`); that the index is a `Replica`
and that bytes once archived stay (`Replicates` is `Follows` and `ArchivedStays`; without its `twice` the latter fails in the second scene); and that both
agree in the end once the provider is quiet (`Converges`): the journal's bound is what silences it.
Page and transaction size are 1, so that every page and every transaction has
a boundary in the middle of the list, and a chunk of envelopes is 2; the third message is what lets a position shift under
the cursor without the list ending, the fourth what can be jumped over.

**`daemon`** (`Daemon.cfg`): the supervised service and a daemon started by hand, a
shell, one account, one one-shot sync, and any two of: a failure, a stop or kill, a hint (`MaxFaults` = 2). Shows one pass
per account (`OnePass`), that a merged hint always has a wake-up on its way
(`HintWakes`), that a request stands until a full pass begun after it has ended well
(`NoRequestLost`), that the pid file names the daemon (`PidNamesDaemon`), and that a
one-shot sync resumes what it began and every request is honoured
(`FullPasses` is `ShellResumes` and `RequestHonoured`). Accounts share nothing but the
daemon's start and stop; the theorems of section 5 cover any number of them.

**`write`** (`LocalWrite.cfg`): one message with a flag and a mailbox, two writes that
touch the same flag at the provider, queue of two, window of one, and any two of the six
kinds of fault, once each, under fairness. Shows that a pass cannot undo a patch under its
fence (`FenceHolds`); that wherever index and provider differ, the journal or a fence
will bring a pass to look (`Noticed`); and that of the writes that went through the queue
the last one wins and that index and provider agree in the end (`Settles` is `LastWins` and
`Converges`, with `sound` as its reservation). One message is enough, since rows do not
depend on each other; two writes let one be queued, refused or replayed while the other
is anywhere. The window's length matters only for whether a fence expires before or
after each step, which `Tick` decides freely.

**`calendar`** (`CalendarSync.cfg`): a weekly meeting on two dates, the second in the
window only from the second day, the first excluded at the start, and a single event; one
of the dates is edited. Any two of: two edits, an abort (of a pass or a re-expansion), a departure from the list and
the next day; full listings whenever the user likes, and a re-expansion at any time.
Shows that what a token covers is stored as the provider has it, exclusions and deletions
included (`NoGap`); that after undisturbed passes the agenda is the provider's
(`AgendaMatches`); and that whatever was interrupted or raced, the occurrences of a series
end as the stored rows imply, for the window of the day (`SeriesHeals`). Two dates are
enough for an exception to hide one meeting and not the other, and for the window to open;
two events of the world let a second change fall into the pass that brings the first.
Beside it `ListingsSound`: `Feeds` for every history of two changes to three objects and every
placing of the requests, and `Dav` for every server, network and guess. Three objects are what
pages of two need for a removal to shift an object over the boundary.

**`events`** (`EventWrite.cfg`): a calendar of each kind of server, with an event of its own or an
invitation in the mail, two writes, and two of: an edit by another client, a lost call, a crash. Shows that once all has settled
the agenda is the calendar and no placeholder is left (`Agreed`); that a create makes one event and one answer goes out,
plus one for each lost answer, and that an invitation never becomes two events (`OnceEach`); and that
what was accepted by mail is filed (`AcceptedIsFiled`). Two writes are a create with
whatever the user does to it before the server has named it. Beside it `ValuesKept`: `EventMap` for every update of every object
of the bounded kinds, in zones west, east and at UTC with a change of clocks, and `FreeTime` for
busy sets of up to four meetings over three days of four hours.

**`archive`** (`Archive.cfg`): three messages, a reply that arrives before what it answers and two of the same
bytes, one above the size limit; an old orphan, the bytes the two do not share; any three of: a collection, a purge, a reindex, a rethread, a read, a crash, a
message filed elsewhere, one destroyed. Shows that no collection takes the bytes of a row (`Intact`), that a
reindex leaves what passes wrote (`FactsStand`), and that threads are the connected components of the
references whatever the order of arrival, with summaries and contacts to match (`DerivedTrue`), with the
reservations of section 6. Two messages of the same bytes are what a deduplicated file needs to be found by a
second writer while its first row goes. Beside it `ReadBack`: `Mime` for messages of up to three levels and
drafts with up to two files.

**`ui`** (`Ui.cfg`): a conversation of two messages, one of them archived, and one of a single message; two views; one of
five budgets (two keys on the list; the list, its mailbox and other clients; a conversation; two keys in it; reading), each with an undo
and, but for one, a refusal. Shows that a row filed away does not come back (`NoFlicker`), that what a failed or undone write hid is shown
again no later than one look later (`ScreensHeal`), and that the undo key puts messages back where they were (`UndoExact`).

**`send`** (`Send.cfg`): JMAP, Gmail and IMAP accounts with blind recipients or none, with one stored draft; nine budgets of what a user
does (answer, continue, save, send, delete, by screen and by command) with two faults, a crash or a deadline. Shows that a message goes out once unless a push was cut short
(`SentOnce`), that what the user is told is so, to the recipients it reached (`ToldTrue`), and that a draft is
in the trash only for what replaced it (`DraftKept`). Beside it `WordsKept`: `Compose` for every text of up to three lines of the fifteen
kinds, and for every sender and list of up to two recipients. And `Assist`, from initial states with nothing to send: a summary with a composer over it,
a composer whose draft is stopped or fails or looks things up, a conversation that goes on between two summaries, a model that keeps looking things up;
one to three questions and pieces of text, two lookups allowed (four asked for), a cache of one answer. `WordsKept` there is `DraftsWhole`: a screen at rest holds
what its user left or a whole answer to its own question (`WholeOrBefore`), the quote stays (`QuoteStays`), what is shown and under way is what
the model has written (`StreamTrue`), and the limit on lookups makes the model write before the limit on turns gives up (`LimitWrites`). The two never
act in one behaviour, as nothing of a draft depends on the outbox before it is sent.

**`accounts`** (`Accounts.cfg`): two names, two processes (symmetric), five files as users have them, the vendors' presets and plain
IMAP; up to three commands from no account, or two commands, three syncs, three refresh tokens and a fault, in four budgets. Shows that the only mistake a command
writes into the file is an encryption given to `account add imap`, which is not checked (`"ssl"` in `Securities`), and that what a process writes is what it reads back (`ConfigWhole`, but for a vendor; both in section 6); that nothing is stored for an account that `account remove` would not
delete, but what a removal has failed to delete already (`Traceable`); and that a login is not lost by using it (`LoginKept`).
Beside it, from initial states of its own, `Imap`: two folders and a free name, three uids each, an account that was synced before, on a server with CONDSTORE and UIDPLUS, and a new one, on a server
with MOVE only, which the first of its passes makes a synced one; two events of other clients or the user, one of which may be a
move of the user's own, one refusing folder or crash, three passes, a flag sweep each second. Shows that a pass that nothing came between ends
with the index the server has (`Caught`), and that a row is the message the server has under
its name and leaves only when that is gone (`RowsHold` is `RowsTrue` and `RemovedIsGone`), each
with the reservations its comment names. Three passes let what a first comparison recorded wrongly
be the base of a second and be seen by a third. The two models share no variable and no behaviour: the
index of an account is nothing to the file that names it.

### The runs that find what the code does otherwise

**`event_days`** (`EventDays.cfg`, `MCEventMap`): one update of one event by a user east of UTC whose Google calendar is there
too. `DaysKept` is the sentence of `cal update --help`: "Only the flags you pass are changed; everything else keeps the value the
index holds." TLC finds an all-day event that moves to the day before although only its title was changed. Section 6 tells why.

**`send_stacked`** (`SendStacked.cfg`, `MCSend`): two composers, one opened by a reply that was being read while the other's message was sent.
`LockedInFlight` is what `compose.go:402` and `root.go:844` say: a composer whose message is under way is there and takes no key. TLC finds an
answer that closes, or unlocks, the other one. The run `send` excepts such composers (`crossed`) from `SentOnce`.


## 4. Fairness and deadlock

- `Outbox`: weak fairness of each goroutine's steps and of time. The engine's
  goroutines run until they return; the provider call of a push ends because its
  context does (`leaseCtx`, `deferTimeout`), so its answer needs nothing but
  time. Passes are fair because the daemon's ticker starts one every interval. Nothing is assumed of users,
  crashes, sleep or drops. There is no fairness of *success*: rows are settled
  because attempts are counted.
- `MailSync`: weak fairness of `Pass`, that is of the daemon's polling and of a pass
  that runs. No fairness of the provider; the run's bounds on faults make outages end.
- `Daemon`: weak fairness of restarting the supervised service (a unit with
  `Restart=`), of leaving and starting once begun, and of the steps of loops and
  commands. Strong fairness of `Poll`: the poll ticker's channel keeps one tick
  and Go's `select` picks at random among ready cases, so hints cannot starve it for
  ever. Not fair: hints, signals and nudges (a push stream may be silent and a
  SIGUSR1 may find no listener), failures, users.
- `LocalWrite`: weak fairness of the pass (polling), of the drain goroutine, of each push
  (the outbox ticker and the provider's context) and of time. Users, other clients
  and faults are not fair.
- `CalendarSync`: weak fairness of the pass (polling), of the re-expansion (`reexpandEvery`) and
  of the steps of an expansion that runs.
- The other modules state safety only: that a pass, a collection or a user's step comes at all is the business of
  `Daemon` or of nobody.
- Deadlock is checked in the runs of `MailSync` and `Daemon`. It is off in that of
  `CalendarSync`, where a re-expansion can always begin, so that it says nothing, and in
  the others, where the bounds let everything come to rest: each write is asked for once, each user has a budget.


## 5. Theorems and proofs

TLAPS checks them for every value of the constants that meets the modules'
assumptions: any number of processes, goroutines, writes, messages, rows, accounts, any lease,
page, budget and queue length. Each safety theorem has an inductive invariant, which TLC found to hold on an instance
before it was proved; a proof has one lemma per part of it, and in that one step per action.

**`OutboxProofs!TypeCorrect`**: `Spec => []TypeOK`. By steps; the lemmas
`StatementsKeepRows`, `BackoffBounded`, `LessBounded` state what the statements
of the store and the countdowns return.

**`OutboxProofs!LeaseKeepsApart`**: `Spec => []SingleHolder`. `SingleHolder` speaks of writes, as long as no row has been
dropped and no machine has slept (`Quiet`: both are real holes, see section 6), and is not inductive; the invariant is
`IInv == TypeOK /\ Homed /\ (Quiet => InsideLease /\ Apart)`:

- `Homed`: each write that was asked for has one rowid of its own, in which it stays until it is dropped, and which
  every goroutine, listing and deferred queue that holds the write names. It holds through drops as well, since what
  was dropped is asked for only once; that a rowid is reused then is what `NobodyMovedOut` says by its `drops = 0`;
- `InsideLease`: a push of a row that is not deferrable ends strictly before the
  row's lease does (this is `PushMax < Lease`, i.e. `leaseMargin`, and what a sleep breaks);
- `Apart`: two such pushes are of different rows.

Only `Apply` and `Claim` begin such a push, the first of a row nobody knows, the second of a row without a lease, which
by `InsideLease` nobody is pushing.

**`OutboxProofs!EffectsAccounted`** (`Accounted`) and **`EndsAreKept`** (`StaysEnded`, two action properties). That a send is
carried out once says nothing of the moments before; what is inductive is who may still send it. `EInv` adds to `IInv` that a send has been
carried out only by pushes that were cut off as long as its row waits in nobody's hands, or its push has not reached
the server (`OnceSoFar`), that a write the user was told has failed is in nobody's hands and waits in no row
(`FailureStands`), that nothing happens to a write nobody asked for, and that an answer of success is one. `WaysToStart` lists how a goroutine comes
by an item; for the ends, each way is closed to a row that has left the queue.

**`MailSyncProofs`**: `NothingIsLost` (`NoGap`), `BackfillSkipsNothing` (`BackfillSound`), and the refinement of `Replica`:
`CopyFollows` (`Follows`) and `CopyKeepsBytes` (`Replicates`). The idea of `IInv` is that what a pass has not done yet it has planned, and
that what it planned it read after the token it will store:

- `Ledger`, `Positions`, `Known`: the journal has a creation first and a destruction last; no position is in the
  future; nothing is known of a message before its time;
- `Phased`, `Stated`: what each step of the three kinds of pass may still hold, and how state, backfill and token go together;
- `Enumerating`: a JMAP cursor counts what lies above its anchor, but for what was destroyed there;
- `ReadSince`, `Filing`, `Mending`: of every message that is here the index has a row, or the pass is going to
  write one, or the cursor has still to come to it, or the journal after the base speaks of it; and the same of every
  version;
- `Dropping`, `Undeleted`: only what is gone is dropped, and nothing that is there is marked deleted;
- `Stored`: the two promises, made at the stored state and at the start of an open backfill.

The theorems assume nothing of how many messages are destroyed behind an open listing. A listing that has jumped over one (`Missed`) makes the index
count as spoiled, and its reconcile as disturbed, from that step on; `OneStepBackIsEnough` is the lemma between: as long as no second message
was destroyed behind the cursor (`StepsBack`) nothing is jumped over. So `NothingIsLost` speaks of every behaviour up to such a jump, and again
after the next undisturbed reconcile, and `BackfillSkipsNothing` excuses the stored cursor of that listing alone (section 6, *a destroyed anchor*).

`CopyFollows` maps every step to one of `Replica` or a stutter, from `Forward` (an index that was never spoiled holds no envelope older than its rows)
and `Asked` (only what a reconcile was told of twice is downloaded twice). `CopyKeepsBytes` follows from `Bare`: a stub is planned for a row that is not there,
and for no message a second time. Both leave out the messages in `twice`, which a reconcile was told of
twice before it had them, and those only; of these both statements are false (section 6, *a message listed twice*).

**`CalendarSyncProofs`**: `TokenEarned` (`NoGap`) from
`IInv == Typed /\ Stamped /\ Phased /\ Filed /\ ListedTrue /\ Owed /\ Earned`: what was listed is true as long as it has not changed since the
position the pass took (`ListedTrue`), and what the next token will stand for is applied, or the pass is about to (`Owed`).
`AgendaTrue` (`AgendaMatches`) adds `Fitting`: while nothing races (`calm`), a row whose occurrences are not those it implies
is one the pass has still to expand, and what an expansion has read is what is stored. Every edit of the provider is one change of
its objects (`Edits`), so that the steps of a pass are proved against one action of the world. `StartsAssumption` says that the calendars an instance starts
from are calendars.

**`SendProofs`**: `SendsOnce` (`SentOnce`), `TellsTheTruth` (`ToldTrue`), `DraftsAreKept` (`DraftKept`), from one invariant of thirteen parts:

- `Typed`, `Named`: what a record names exists;
- `Held`, `OnPath`, `Errors`: a push owns its row, alone; it goes the way its backend has; an error is an answer;
- `Sends`: a row that waits has gone out no more often than its pushes were cut short (`Unsent`), any row at most once more (`Paid`);
- `Carried`, `Bare`, `Progress`: a delivery is of its row, and what is told done was achieved;
- `Thrown`: a draft goes for what stands elsewhere;
- `Ordered`, `Guarded`, `Asked`: a composer that was never given another's answer has one message under way, and unlocks only when
  none is and none went.

The model has some thirty actions, most of which do the same to what the invariant speaks of. `Shapes` puts each into one of eight:
a step towards the server (`Push`), a row queued, a call put to rest, an answer noted or reported, a replay begun, a page of the screen, a
crash. Each shape keeps the invariant, by a lemma of its own. Most parts are kept because what they say of the past stays so
(`Past`: mail, deliveries and rows are only added to, a text is never rewritten), call by call (`Sound`) and row by row (`RowSound`).

**`ArchiveProofs`**: `BytesStay` (`Intact`), `FactsKept` (`FactsStand`), `DerivedKept` (`DerivedTrue`), for any number of messages, any headers,
addressees and contents, from `IInv == Typed /\ Sound(db) /\ PageSound /\ Bytes /\ FactsStand /\ Derived`:

- `Sound`, `PageSound`: a row has the bytes of its message or none, and so has a row in the reindexer's hands; its thread is a name
  of its conversation (`Named`: the root of some message connected to it), or its own, or none after `ClearThreading`;
- `Bytes`: what a row has, or a writer is about to give one, is on file and safe from a collection under way; a writer's is so because a row has it
  already or because it is young and on no purge's list. From reading the rows to deleting, this is what the collector's list is compared with;
- `Derived`: `ThreadsKnown`, that `RebuildThreads` has every thread on its list or it is in `fresh`; messages that share a reference have one
  thread (`Together`); summaries, people and contacts.

That one thread is one conversation takes what conversations are: `Connected` is what no closed set separates, an equivalence (`Connections`) that
contains shared references, and two messages with the root of one name share it. So `resolveThreadID` joins only what is connected
(`Resolves`), and a merge moves whole threads. What `UpsertMessage` does to rows, threads, addresses and contacts is stated once (`Written`),
and each part of `Derived` follows from it; `Settles` is what a transaction owes, so that a step of a pass and a page of the reindexer go
through one lemma (`StoreKeeps`). `WritePage` is a recursion over the page; `PageRewritten` shows what it leaves by the least row that would not
(`Redone`), since a theorem of induction cannot be cited here.

Four definitions were put otherwise to be reasoned about: a page is a function on messages and not a list, `Rewritten` a recursive function, `Refs` a set
with its root apart, `Connected` by closed sets and not by paths; they are checked by the run as they stand.

**`EventWriteProofs`**: `AgendaAgrees` (`Agreed`), `DoneOnce` (`OnceEach`), `AcceptedFiled` (`AcceptedIsFiled`), for every kind of server and any number
of writes, events, titles, edits, lost answers and crashes. Each of the three speaks of the end; `IInv` says what holds on the way:

- `Typed`, `Timed`, `OpSound`: the server's clock bounds what it has, and what a pass has read is so as far as nothing has changed since; a
  write, its row and its push go together;
- `Touched`, `Known`: a write and a row speak of an event the server has or has had, and JMAP refuses only what is gone;
- `Placed`, `Drawn`: a placeholder is of a write that waits; occurrences are of what is live, and of every live row of the server's;
- `Explained`: where the token stands for what the server has of an event, the index has the same, or a write that waits `Tells` the server
  something else. Such a write changes the event when it is let, so that its version goes beyond the token; hence a write that JMAP computes against `base` must
  not come out empty. When nothing waits, `Agreed` is left;
- `Paid`, `Heard`: what was made, and what was told together with what still waits to be told, against the answers given and lost;
- `OneInvited`, `FilingSound`: the invitation is there once; accepted, it is filed, or a write or the filing step is going to.

A call to a server has five outcomes: it makes an event, finds it there, alters it, leaves it, or refuses (`Makes`, `Finds`, `Alters`, `Leaves`, `Refuses`). `Outcomes`
puts the requests of all three backends into these, and what an outcome does to one event and the others is stated once (`CalendarChanges`);
steps that leave server and rows alone go through `QuietKeeps`, what `patchEvent` and `rollback` write through `PatchKeeps`. The counts are of finite sets that gain or lose one write
(`CountUnion`, `CountLess`). `Imported` was put otherwise: the alternatives of a `CASE` overlapped where a server does not import at all.

**`DaemonProofs`**: `TypeCorrect`; `LockKeepsApart` (`OnePass`) from `HoldsLock`, that whoever
is past its lock holds it; `RequestsStand` (`NoRequestLost`) together with `Retiring`, that a
pass about to clear a request has found it before and owes nothing any more;
`HintsAreNotForgotten` (`HintWakes`) together with `NoneEarly`, that a daemon that does not
listen yet has no hints; `PidFileTrue` (`PidNamesDaemon`) from `PidInv`, which adds that a
daemon between check and write is alone as long as `raced` is "no".
`ConfigIsKept`, at the end of the module, is of the configuration the daemon and every command start from: of any file, with any accounts,
models, backends and defaults, that is accepted (`Validate`), what a command writes is accepted again and read back as it was, but for the
vendor of a calendar with an address of its own. It is an equation about the operators of `Config` with a lemma per table of the
file; that commands change a configuration only to one that is accepted stays with `ConfigWhole` and TLC.

**`LocalWriteProofs`**: `TypeCorrect`; `NothingIsForgotten` (`Noticed`), for any message, writes,
window and number of faults, from the invariant
`IInv == TypeOK /\ Ordered /\ Current /\ Noticed`: the token is never ahead of what was read
(`Ordered`), and what a pass holds in its hand is the provider's state or the journal has
moved on beyond what the pass will call applied (`Current`). `FenceStands` (`FenceHolds`) is
an action property: of all steps only `Ask` and `Rollback` can change the row under a live
fence, because `Accepts` lets a pass write only what is there already.
`QueueKeepsOrder` is the safety half of `Settles`, `[]LastWins`, from an invariant of its own, `OrderInv`: what is asked for has one place in
`order` and somebody is at it, or anybody may be (`Asked`); the queue keeps that order (`InOrder`); of two writes that have only
been in the queue the second begins when the first is over (`InTurn`); and a field that nobody else touches has what the last of them that reached the provider
makes of it (`Latest`). The proof corrected the model: a crash made `loose` what the restarted interface had still to be asked for.

Only model-checked: what needs fairness (`EventuallySettled`, `Converges` of `Settles` and of `MailSync`, `SeriesHeals`, `FullPasses`), since liveness is out of the
prover's reach; `Imap` (`RowsHold`), `Ui` and the commands of `Accounts`, whose proofs have not been written; and
the laws of the operator modules (`ReadBack`, `ListingsSound`, `ValuesKept`, `WordsKept`). Those with recursive operators
(`Mime`, `FreeTime`) cannot be used from a proof, and what a recursive definition computes for every input cannot be proved with the
installed provers; their laws are checked over bounded inputs.


## 6. What the models found in the code

Listed as findings, each with a run:

- *A Google all-day event moves to the day before* (`event_days`; `provider/gcal/map.go:221`). Its date becomes midnight of the calendar's
  zone in the index, which gives times back in UTC (`store/util.go:22-27`); an update that passes no time flag sends the date of
  that UTC time, the day before for every zone east of UTC.
- *The answer to a message goes to the composer on top* (`send_stacked`; `tui/root.go:847`). A reply or a draft is read in the
  background (`tui/data.go:396-425`, up to ninety seconds) and opens its composer when it has been read, over one that is sending if there is one. `onSubmitted` pops, or
  unlocks, whichever is on top: what was typed in the reply is gone and the sender stays locked; or, both being sent, one is unlocked whose own
  message is under way, and ctrl+s sends it again.

What follows is visible in the models, where it is a reservation of an invariant, a history variable or a bound, named in
brackets. The modules' comments say the same at the place.

**The queue and local writes**

- *A failed send may go out later* (`tui/actions.go:390`, `sync/outbox.go:335`, `343`). The terminal interface gives a submission 60 s. If they end during the
  call the user sees a failure, but the statement that would retire the row runs
  under the same dead context and is only logged. The row stays pending and the next
  pass sends the mail (`FailedUnlessLost`, and `cut` in `Send`). A deferred write that runs out of `deferTimeout` is left the same way
  (`outbox.go:188-190`; `SurelyDead`): reported as failed, neither retired nor rolled back, and pushed again by a later pass.
- *A rollback may restore what is no longer true* (`sync/outbox.go:559-580`; `DESIGN.md:693`). It puts back the state from before the patch and drops the
  fence. If another client has changed the message since, a delta has applied that
  change, or the fence refused it, and moved the token past it; the index is then
  wrong and nothing looks again until the next change or reconcile. The same happens
  when a push that ended by its deadline was carried out after all (`sound` of `LocalWrite`).
- *Deferred writes outlive their lease* (`sync/outbox.go:249`, `sync/engine.go:507`). The lease
  starts when a write is queued, the push when the queue reaches it, up to 256 pushes
  later; another process may then push it too, although `DESIGN.md:673` says every round
  trip is bounded by the lease. `SingleHolder` leaves deferred writes out.
- A write that waits longer than the two minutes of its fence (offline) is overwritten in
  the index by any delta that mentions the message, since only the recheck looks for
  queued writes; when it is pushed, the next delta brings it back.
- Two writes whose patches cancel out make the index agree with a provider that has seen
  neither; the fence is dropped early and what the first one does may show for a moment.
- After an outage two writes on one message are replayed by whichever pass comes first, with
  backoffs of their own, so the older may win (`loose`; `DESIGN.md` 7.4.2 wants the order
  kept and the deferred queue keeps it). An outbox pass that meets a refusal does not
  roll back; the recheck of the fence repairs the index.
- A crash between a provider's answer and its bookkeeping makes a second push
  (`OncePerLoss` counts it; `sync/engine.go:20-24` describes it as accepted).
- A machine that sleeps expires leases by the wall clock while the pushes'
  contexts stand still (`MaxSuspends`, excluded by `LeaseKeepsApart`).
- `emlcal outbox drop` of the newest row frees its rowid; a goroutine still holding
  the old one may settle the new write in its place (`MaxDrops`; migration 0001, lines
  141-151; `cli/maint.go:207-225`; `store/state.go:384`).
- A push that runs into its own deadline is not treated as offline, so a slow
  provider costs a write its retries (`provider/gmail/errors.go:220`).

**Mail passes**

- *A destroyed anchor can skip a message* (`provider/jmap/mail.go:506`). Stepping back by one
  position covers one destroyed message, not two: with four messages, pages of one and two
  messages destroyed behind the cursor, a message is neither listed nor in the journal, and `NoGap` holds
  only because such a jump counts as spoiling (`Missed`, `sound`; the run has it, by `Skips` = 1). A reconcile marks what it jumped over as deleted.
- *A message listed twice* (`sync/mail.go:985-1003`, `1036`). When an anchor is destroyed the listing steps back, and if a message arrived above
  meanwhile it hands out one it has handed out before. A reconcile keeps the lists in slices and does twice what it was told twice.
  A message above the size limit is filed as a stub in two transactions: who reads it in between downloads its bytes, and the second stub forgets them
  (`jmap/mail.go:503-506` calls handing out twice the harmless direction, since "upserts are idempotent").
  One below the limit is downloaded by two workers; if it changed between, the older envelope may be written last, and stays until the
  next delta, for the change is in the journal after its token (`twice`, which `ArchivedStays` and `Copy` leave out; the run has the first, not the second).
- *Gmail's empty delta* (`provider/gmail/changes.go:170`). The new token comes from a second
  call; what arrives in between is never applied (`Quiets`, `sound`).
- `--full` over an open backfill throws its replay window away (`sync/mail.go:106`), and messages
  archived before are not looked at again, so a change made to one of them meanwhile
  is missed (`Restarts`, `sound`). The daemon does the same when it retries: its retry is a new
  pass that finds the request for a full pass still standing (`sync/watch.go:201`), while
  a one-shot sync resumes what it began, as `sync/engine.go:259` wants it (`ShellResumes`).
- Gmail's listing and `Changes` carry no sizes, so `raw_max_size` is not applied there
  (`LimitRespected` says `~Thin`; `DESIGN.md:137-140`).
- `EnsureRaw` writes without the account lock and may put an older state over a newer
  one (`sync/maint.go:318`; `sound`).
- A request for a full pass that is made while a full pass runs is cleared with it
  (`owed` leaves it out). Two daemons started together may both write the pid file,
  and the loser's deferred removal takes the winner's (`raced`). A one-shot sync
  that holds one account's lock makes a daemon that is starting leave all accounts. A
  failure of mail ends the pass, so calendars of that account wait.

**IMAP** (reservations of `Caught` and `RowsTrue`)

- A folder that refuses `SELECT`, or was renamed, when the backfill reaches it is skipped for good (`provider/imap/enumerate.go:168-170` says it
  is only passed over for now). A backfill whose cursor names a folder that is then renamed or made anew cannot go on.
- An arrival between a comparison's FETCH and SEARCH is recorded as known and never reported (`changes.go:287`; `unreported`; against
  `changes.go:30-35`). A flag toggled away and back is not reconciled (`changes.go:269`), and flag changes that come with a rename are swallowed
  (`unheard`). Rows whose message goes during a backfill, or whose pass dies, may stay (`strays`).
- Write commands name uids only: after a folder is made anew they hit other messages (`write.go:163`; `misfired`).
- A rename is recognized by count as well, so a folder that changed meanwhile is taken for a new one. Without MOVE, a lost answer leaves a second copy.
- `push.go` and the pool reserve a connection for push that nothing opens; the count of live connections is not lowered for expired ones.

**Calendars**

- *A calendar that comes back stays empty* (`sync/calendar.go:40`; `DESIGN.md:606`, `643`). A
  calendar that is unshared or deselected loses its events and occurrences, but its token
  stays in `sync_state`; once it is back the delta starts from there, and nothing of
  before the token returns until `--full` (`whole`).
- *Single events do not slide with the window* (`sync/calendar.go:112-114`).
  The daily re-expansion handles series; a single event beyond the far end of the window,
  or one whose pass died between storing and expanding it, has no occurrence, and deltas
  skip it because it is stored already. `SeriesHeals` speaks of series only.
- An override or an event that is deleted while a CalDAV or JMAP token is expired is never named again: a full listing of
  these providers removes nothing (`relisted`). JMAP's overrides that vanish from a living master
  are never removed either (`Lingering`); `provider/jmap/calendar.go:316-320` knows of the gap and
  expects the next full listing to close it.
- A re-expansion that has read a series before a pass changed it may write after it; the
  occurrences are stale until the next day (`calm`).
- *A JMAP listing skips* (`provider/jmap/calendar.go:227-266`). It pages by position; an event removed between two pages shifts the
  next one onto the page already read, and no delta names it (`Skipped`; against the comment at 310-311, that a long backfill "replays
  rather than skips concurrent edits"). An event that is made during the listing and leaves for another calendar before it is fetched is
  stored, and the delta then calls it created, not updated, so it is never removed (`Strayed`; 393-398).
- *A CalDAV client remembers its first failure* (`provider/caldav/caldav.go:200`). Discovery runs once per client and the engine keeps its clients as long as the
  process lives; a daemon that starts offline fails every later pass of a vendor without a conventional path, or stays with the guess, until it is
  restarted. The field's comment says "cached after the first successful discovery".
- *Event writes have no fence* (`sync/outbox.go`; `spoiled`). A retried create never removes its placeholder (`rsvp.go:186-190`, `outbox.go:746` say otherwise); a retry never rolls a refused
  write back; a rollback can restore over what a pass has stored; a crash between the settled row and `afterExecute` leaves the placeholder;
  one between a reply and its filing loses the filing. An import onto an event already filed keeps the server's
  answer on CalDAV. A second CalDAV update before the next pass is refused (412), as the first leaves the old raw object; a JMAP update that
  restores the value the index last saw is an empty patch; a CalDAV update whose answer was lost is told as failed although it landed; Google's updates and answers
  overwrite other guests' answers.
- *Values that do not survive an update* (`Shifted`, `Emptied`, `Flattened`): Google's and JMAP's all-day days east of UTC; CalDAV's floating times, which are pinned; day durations across a
  change of clocks; an all-day event moved over one; titles, places and guests that are emptied, which Google and CalDAV ignore; JMAP guests without an organizer; JMAP properties of guests and places
  that emlcal does not know, which are dropped (`jmap/jscalendar.go` rebuilds them; against `jmap/calendar.go:516-527`).
- *Free time*: in a zone whose clocks skip midnight, `cal free` looks at one day twice and misses the last, and "tomorrow" at a
  skipped clock is today (`calendar/free.go`, `when.go`; `Plain`). Working hours from 00:00 to 24:00 split a slot at midnight.

**The archive** (reservations of `Intact`, `FactsStand`, `DerivedTrue`)

- A `Put` that finds its file there does not refresh it; a collection that read the references before deletes the bytes of the row just committed
  (`sync/maint.go:185`; `exposed`). A purge may take, with their last row, bytes that a writer has just found on file, or bytes written anew that it
  still has on its list.
- A reindex writes back flags, mailboxes, deletion and thread of when it read its page, and may put a purged row back (`sync/maint.go:43`; `stale`; against
  the comment at 29-31). After an interrupted `--rethread` an ordinary reindex may split a conversation that it has just put together: a row of the page
  brings threads together, and a later row of the same page is written back with the thread it was read with. Such a row is in `stale` as well.
- `RebuildThreads` lists its ids outside its transaction (`store/threads.go:293`; `unlisted`); a crash between a purge and `RebuildContacts` leaves
  contacts wrong (`owed`); `ApplyRemoteState` does not refresh whether a message counts as sent; `--rethread` leaves rows it skips without a thread; `CleanTemp`
  removes other processes' temporary files.

**MIME and quotes**

- An html part without text before one with text gives an empty body; text after an inline picture is not indexed; a text file
  disposed inline is neither listed nor body; an attached `.ics` makes a message read as an invitation; an attached message is named differently when listed and when fetched; of two parts with one
  Content-ID the last wins.
- The last line somebody typed, when it begins "On" and has a date, is joined with the attribution and cut; so is a line ending "wrote:" near a quote. What is written below a quote
  counts as quote; a nested attribution cuts early; "--" without its blank is kept under a quote. An answer to all may name a person in To and Cc; the envelope does not.

**Sending**

- A JMAP send composed offline is retired as failed, not queued (`provider/jmap/client.go`; `DESIGN.md:675`). A 5xx is told as an error though the mail may have gone. A JMAP crash
  after submission sends again on replay; a failed submission leaves a stray draft.
- `send --draft` over IMAP sends the Bcc header of a stored draft and does not reach its blind recipients (`seen`, `env`). Drafts saved from the composer or the command line lose Bcc, a queued send never trashes its draft or marks its original
  answered, and a draft whose files cannot be fetched loses them when saved.

**Accounts**

- `account add imap --security ssl` saves without `Validate` (`cli/account_imap.go:219-232`) a file that no later command accepts, `account remove` among them: an editor has to mend it.
  `ConfigWhole` checks the file with the default in place of such an encryption (`Respelled`).
- `account remove`, "Remove an account, its secrets and its indexed messages" (`cli/account.go:592`), ignores what `app.Secrets` and `Delete` return (`:636-640`) and skips the rows when the index cannot be
  opened (`:641`), then saves the configuration without the account: what stayed has no account to be removed by, until one of that name and kind is added and removed again (`kept` in `Traceable`).
- Two `account add` at once lose one; adding writes the configuration before the password
  is read with `--enable-mail`.
- The first command that writes the configuration drops the vendor of a JMAP or Google calendar that has a `base_url` too: `render` leaves out a default vendor
  (`config/save.go:154`), `materialize` implies it only where there is no `base_url` (`config/load.go:261`). Nothing connects by it, but an account of such a calendar alone
  is then listed without a vendor, and `account imap-password --enable-mail` finds no preset for it (`Unpinned` in `ConfigWhole`).
- Removing an account under a running daemon lets the daemon bring its rows and token back; removing and adding it under the same name lets it overwrite the new login (`raced`). Two processes that
  share a login may end with a dead token on disk (`shared`). The advice to "run `account add gmail` again" is refused as "already exists".
- Overrides from the environment are written to the file by the next save; a vendor beside a `base_url` is lost by a save; quotes do not escape newlines.

**The terminal interface** (`crossed`, `claim`)

- Loads are told apart by their number alone, and each screen counts from the start; a late answer may appear in the next screen opened (`tui/data.go:29-33`, `root.go:239-245`).
- A refusal that is heard before its `applied` offers to undo a write that was rolled back; a later refusal clears a later undo. An undo uses the mailboxes as they were shown: archiving and undoing moves
  messages into the inbox that were never there, and what others moved meanwhile goes back.
- An undo that fails in part, or together with its key, leaves rows hidden until the next look.

**A model's drafts and summaries** (`crossed` in `Assist`)

- `compose_ai.go:28-32` says a stopped generation's stragglers are ignored by their number. Every screen counts from one and every event goes to all of them, so a straggler of a
  summary that was stopped and left, its "cancelled" above all, is taken by the first draft of the composer opened next, and stops it. The wait for the model's window
  does not end with the stop (`compose_ai.go:365`, up to ten seconds in `openai.go:117`), which is time enough. A composer that opens over a running summary may
  be given the summary's text.
- `ai/reply.go:153-156` says the message that is answered is never dropped from a prompt; the loop keeps the last message of the conversation, and an older one that is answered goes with the rest.
- An empty answer is remembered like any other (`compose_ai.go:381`): the same question returns nothing until a new message arrives. An answer is remembered by
  the newest message only, so an older one that arrives late does not renew it.
- `Timeout` "bounds one whole generation" (`openai.go:42`, `ollama.go:32`), and is applied to each of its turns.


## 7. What is not modelled

- *Recurrence rules*: an occurrence is a date of `Slots`; the arithmetic of RRULE is a library's, and the repository's own
  use of it is in `CalendarSync`.
- *Search, SQL, migrations*: a transaction is one step; FTS matching is SQLite's.
- *Calendar and search screens of the terminal interface*, flags, renames, paging and drafts lists in `Ui`: they load and answer as the
  mail list does.
- *Forwards' files, choice of account, the attempts cap* in `Send`; `ForwardAttachments` and `ReplySubject` in `Compose`.
- *Other keys of the configuration*, environment overrides, the system's key ring, the browser's part of a login.
- *Tombstones of IMAP servers that keep them, thresholds and sizes* in `Imap`. It assumes that a UIDVALIDITY is not reused in a folder, and a
  folder is renamed only to a name none had at the start. Its forced full pass is `MailSync`'s.
- Mailbox lists in `MailSync`; the reconnects of push streams in `Daemon`; several calendars in one pass.
- The wording of prompts, the discovery of a model's window and the tools it may call, in `Assist`; the sixty-four places of a channel, which its reader keeps free; two readers on one channel.
- Argument parsing, rendering, the browser view, generated completions and assets. The repository's scripted servers are modelled
  as far as they are the servers of `Feeds`, `Dav` and `Send`.
- External assumptions: Google's PATCH replaces `start` and `end` whole; a CalDAV server compares `If-Match` atomically.

No component is called modelled throughout: each leaves out some operation named here or in its note.


## 8. Plan

1. Proofs: `RowsTrue` of `Imap`, `LoginKept` of `Accounts`, `UndoExact` of `Ui`; a
   bound on the deferred queue under which no two pushes of deferred writes overlap either (`(QueueCap + 1) * DeferMax < Lease`).
2. Recurrence expansion as a function, against a definition over bounded inputs.
3. The calendar screens of the terminal interface; `Ui` and `LocalWrite` composed, so that a patch's fence and a screen's load meet.

Runs are few and each asks one question. When a later module needs one, a run that
finds a deviation already understood gives way, and its account stays in section 6.
