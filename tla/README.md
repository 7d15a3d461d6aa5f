# A verification project for ManyMail

ManyMail receives mail over SMTP, keeps it in SQLite, runs routing rules over
it, shows it in a web UI, and reads external mailboxes through a small IMAP
bridge.  This directory holds TLA+ models of its stateful parts, the
configurations TLC checks them with, and proofs that TLAPS checks.  Paths below
are relative to the repository.

## Inventory

| Part | State it keeps | Operations | Talks to |
|:--|:--|:--|:--|
| routing worker (`router.go`) | wake channel, the claimed message in memory | claim, match, run actions, save, retry, clean up, stop | database; Resend, ntfy, Telegram, webhooks over HTTP |
| routing storage (`routestore.go`) | rules, events, the routing columns of a message | ClaimNext, SaveRouting, PutRule, DeleteRule, InsertEvent | SQLite |
| rule selection (`rules.go`) | none | validate, sort, match, select | - |
| rules API (`router.go`, from `saveRule` on) | none of its own | save, delete, switch, dry-run, status, events | rule table; wakes the worker |
| SMTP server (`smtpd.go`) | rate and greylist windows, one session per connection | MAIL, RCPT, DATA | store, wakes the worker |
| message store (`store.go`) | domains, accounts, messages, recipients, attachments, sent mail, sender keys | insert, list, update, purge, expire | SQLite |
| HTTP API (`api.go`) | account creation limits, DNS cache | accounts, domains, messages, sent mail | store |
| web UI server (`viewer.go`) | rate windows; sessions are signed cookies | login, inbox, batch, send, domains, sender keys | API, bridge, Resend |
| process (`main.go`) | listeners | start, shutdown | all of the above |
| IMAP bridge: watcher (`client.js`, `notifier.js`) | status connection, last uid, report flags | IDLE, report new mail, reconnect | IMAP servers, `/events/imap` |
| IMAP bridge: accounts (`server.js`, `client.js`, `accountStore.js`) | account list and its encrypted file, a main connection per account | add, import, remove, restore, the mail routes | IMAP servers, watcher |
| IMAP bridge: page (`public/app.js`) | list cache, selection, the list and mail shown | load, page, search, act, batch, poll, restore view | accounts' routes |
| web UI state (`frontend/src/state.ts`) | inbox, folders, search, tickets, selection | load, refresh, page, act, undo, restore view | web UI server |
| web UI compose (`components/ComposeModal.tsx`) | the form, its timers, the draft in localStorage | open, write, attach, send, close, restore draft | web UI server |

Pure code without state (`parse.go`, `sanitize.go`, `dnscheck.go`, `fernet.go`,
`discover.js`, `sanitize.js`, the components that render) and the one-shot
import (`migrate.go`) are not modelled.

What is hard here: the worker's memory runs ahead of the database and dies with
the process; outside services take a request and lose the answer; users edit
the rules and remove the mail the worker holds; handlers read a row in one
call and write it in another; the bridge reports mail over a network that
fails, and its requests share one connection per account; three pages send
requests that overlap, whose replies find something else on the screen.
`PROJECT.json` lists each hazard at its line, with the properties that cover it
or, where the code does nothing against it, the configuration that shows it.

What makes each part correct:

- routing: an action is repeated only if its outcome was lost; a message is
  settled once, in the end, and truthfully; no wake-up and no row is lost;
  edits never add a rule to a message already matched;
- rules API: rules from `.env` say what `.env` says; a deleted rule stays
  deleted; starting spares what users wrote;
- intake: what a sending server was told is true over sessions, stops and
  crashes; limits and greylist refuse exactly those they are meant for;
- bridge: mail that arrives while the INBOX is watched is reported, once, with
  the key it is known by, and old mail never; a command runs in its own folder;
  every request ends; accounts that were confirmed survive;
- pages: whatever order the answers come in, what is shown belongs to where it
  is shown, no spinner is left behind, no mail is skipped, a refresh undoes
  nothing, and what acts on a mail acts on the one the user sees;
- sending: a mail told as sent was sent; it goes out twice only if somebody was
  not told; what was written is in the draft.

## Modules

| Module | What it is |
|:--|:--|
| `RoutePromise` | abstract: per message an outcome, the actions on record, the requests made |
| `RouteEngine` | the worker, its database rows, users, clock and crashes, in full; the properties; the refinement mapping to `RoutePromise` |
| `RouteInvariant` | the strengthened invariant of `RouteEngine` |
| `RouteClaims` | three statements of the documents the code does not keep |
| `MCRouteEngine` | instances: rule documents and message tables for TLC |
| `RouteEngineProofs` | proofs about `RouteEngine`: its types, its safety and its refinement of `RoutePromise` |
| `RulesApi` | the rule table, overlapping requests, `.env` seeding at a start |
| `MCRulesApi`, `RulesApiProofs` | its instances and proofs |
| `InboxWatch` | the bridge's watcher of one account, with the INBOX it watches and the intake of the router it reports to |
| `InboxInvariant` | the strengthened invariant of `InboxWatch` |
| `MCInboxWatch`, `InboxWatchProofs` | its instance and proofs |
| `Intake` | sending servers, SMTP sessions, limits and greylist, the table of domains, start, shutdown and crash |
| `MCIntake`, `IntakeProofs` | its instance and proofs |
| `WebMail` | the mail page of the web UI and the mailboxes behind it |
| `MailInvariant` | the strengthened invariants of `WebMail` |
| `MCWebMail`, `WebMailProofs` | its instance; proofs about what is shown and about the silent refresh |
| `Compose` | the compose window, its draft, the send handler and the record of sent mail |
| `MCCompose`, `ComposeProofs` | its instance and proofs |
| `Bridge` | the bridge's accounts, their file, main connections and mailbox locks, its requests from one await to the next |
| `BridgeInvariant` | the strengthened invariant of `Bridge` |
| `MCBridge`, `BridgeProofs` | its instance and proofs |
| `BridgePage` | the bridge's page and what the mail routes answer it |
| `BridgePageInvariant` | the strengthened invariant of `BridgePage` |
| `MCBridgePage`, `BridgePageProofs` | its instance and proofs |

How they meet: `Intake` ends where a mail is stored, and `RouteEngine` begins
there (its `Store` is the insert, its `NotifyWorker` the call after it).
`InboxWatch` reports to the intake of events that `RouteEngine` routes.
`RulesApi` says how the writes come about that are `PutRule` and `DeleteRule` in
`RouteEngine`.  `BridgePage` takes the routes of the bridge as single answers,
and `Bridge` says what happens inside them.  `WebMail` and `Compose` are two
windows of one page that share no state but the toasts.

### RouteEngine and the code

`stored`, `flags` and `route` are the row of a message (`messages`) or of an
IMAP event (`routing_events`); `route` is the JSON of type `Routing` with
`route_status` and `route_next`.  A due time is abstracted to `none` (NULL),
`later` and `due`, and `Elapse` makes a saved time pass: it stands for the
backoff as well as for the ten minutes of `staleClaim`, and since `Elapse` is
free to come at any moment, no property depends on their lengths.  `wake` is
the one-place channel; `owed` holds the mail whose handler has committed the
row and not yet called `Notify` - it may never do so, as `recordIMAPEvent`
does not when a later row of the batch fails.

`worker` is the goroutine of `Start`: `idle` in its select, `claim` in
`runOnce`, `plan` after `ClaimNext`, then between actions (`act`) or between an
action and its `SaveRouting` (`save`).  `copy` is the `RouteMsg` in memory:
everything it holds that the row does not is lost with the process (`Crash`) or
with a save that fails (`SaveFails`).  `Claim` is one step although `ClaimNext`
selects and then updates: only the worker writes the routing columns, and a row
that is purged in between gives an update of nothing, as it does when it is
purged right after.  `PushAccepted`, `PushRefused` and `PushAnswerLost` are the
three ends a request of `forward`, `ntfy`, `telegram` or `webhook` can have.
`LoadRulesFails` is the error `usableRules` logs and then ignores.

`PutRule` and `DeleteRule` here are the writes to the table; how the API comes
to make them is `RulesApi`.  There a request is a read half and a write half,
`calls[c]` is what the handler holds between them, and `Restart` seeds the
`.env` rules before any listener is open.  (`RouteEngine!Start` leaves the rules
alone: a seeding is an edit like another and `PutRule` may follow at once.)

`sent`, `doubt` and `deleted` are history variables: requests the services
took, those whose outcome was lost, and deletions answered.

### InboxWatch and the code

The watcher is one `MailClient` of `client.js`: `me` holds its fields, `conn`
the status connection together with the promise that makes it, `rewatch` the
timer of `scheduleRewatch`, `report` the one `reportNewMail` that may run.
JavaScript runs to the next await, so an action is what happens between two
awaits, timers or events.  `wire` is what the server has told the connection and
the watcher has not handled; the IMAP library counts along in `conn.exists` and
the handlers see the counts after that.

`conn.state` tells apart what `statusClient` can be: `live`, `deaf` (the server
refused to select INBOX, the connection is kept to count folders) and `dead`
(the connection ended during `mailboxOpen`, before the `close` listener was
attached; the run `deaf` is about it).  It relies on the library giving out
`close` before the rejected await goes on.  `Opened` makes the selection and
what follows it one step, and a server may leave UIDNEXT out, which is why
`lastUid` can be -1 and a report may have to look for a baseline first.

A report is `StartReport`, up to its first await, with a fetch that sees the
INBOX as it is then; `Fetched`, which moves `lastUid` and starts the POST; and
`Posted` or `PostFails`.  The intake takes the messages of a report one by one,
so a failing row leaves those before it stored.  Every end runs the `finally`
(`Ended`).  `past` is history: what was old at the first look, told, lost in a
failed report, or cut off by `MAX_PER_REPORT`, and whether the last fetch
failed.  `ROUTER_URL` and its key are taken to be set; without them nothing is
tracked.

### Intake and the code

Around the server are the sending servers: `post` says what their mails are, and
`todo` the recipients they have still to deliver.  A 4xx or a connection that
breaks means "again later", a 5xx "never", a 250 "done": the retries are theirs,
which is why a lost 250 is a second copy.  A session is one transaction on one
connection (`server.sess`); the tables of the two rate limits and of the
greylist are times, with the clean-up a large rate table gets (the size is a
constant) and the greylist gets at every attempt.  An entry of the greylist is a
triple of address, envelope sender and recipient, so mails of one sender share it.
Mail without a sender (`MAIL FROM:<>`, a bounce) gets past the greylist and leaves
no entry, but meets the limits like any other (`Exempt`).  `GreyEnabled` switches
the greylist, and a limit of 0 is none (negative settings are the same).  `Tick`
is the clock, and each window is a number of its units.
`GateKeepsItsWord` compares each decision with one worked out from history:
`past.wrong` collects the decisions that differ.  What it says of the greylist is
about mail with a sender; of a bounce it says that the greylist never refuses it.
A domain is added by `SELECT` and then `INSERT` or `UPDATE` (`Writes`), and
`past.closed` holds a domain from its deactivation until a request that found it
deactivated writes.  Such a request may have looked before a second deactivation:
then the two overlap, and the later write is taken as the last word.  `Start`
seeds the domains of `.env`; deactivating is one `UPDATE`.  `Signal`, `Deadline`
and `Leave` are the shutdown: listeners closed, ten seconds for sessions in DATA,
then the rest is cut off.

Left out: the syntax and length of addresses, TLS, the size limit, the score
that files a mail as spam, the 554 for no recipients (go-smtp answers before),
and the administrator's login.  go-smtp itself is external, modelled as the order
of commands it lets through.  `DataFails` (a statement that fails) is tried with
plain mails only.

### WebMail and the code

`page` is the store of `state.ts` with the requests under way (`page.calls`).  An
action is a click, the auto-refresh, or what one reply sets off, up to its next
await.  Handlers are functions of the page, because they call each other as the
code does (`RefreshCurrentTab`, `viewMailDetail` from `restoreViewState`).  A
ticket counts up in the code and is compared for equality; here each call knows
whether it still has the newest one of its kind (`current`), and `whole` and
`wanted` are history of a call.  `Answer...` reads or changes `place` and `seen` on
the server, `Fail` gives no such answer, and a reply may be lost after the server
acted.  The components give the conditions under which an action is offered: what
is not on the screen cannot be clicked.  A larger mail is a newer one, so equal
timestamps are left out, as are the stored view beyond what is restored from it,
plain text and layout, domains not loaded yet, and a failing "mark as read".

### Compose and the code

The window is one form; `page.seq` is `openSeq`, by which what comes late tells
whether it is still about the mail in the window: files being read, the reply of
a send, the timer of the draft and the timer that closes the window.  A text stands
for subject and body, each typed or quoted text being another number, so that a
text names a mail in `rows` (`sent_messages`) and in history.  `draft` is
localStorage and outlives `Reload`, which also cancels the request at the server
(its context ends).  A send can be refused, taken, taken with the answer lost,
and recorded or not; `past.doubt` counts what the user was not told.

### Bridge and the code

A request is `[kind, stage, ...]`, and a stage lasts from one await to the next.
`bridge.conns` are main connections, which a handler names anew at every await
(`client.client` in the code), so that a request may find another connection than
the one it waited for.  A connection has a queue for its mailbox lock and a
selected folder.  What is assumed of imapflow: a command or lock on a connection
that is not usable fails; when it ends, all that runs on it and waits for its
lock fails; the lock is granted in order, and selects the folder.  `file` is the
accounts file, written in place: a crash between opening and writing leaves
`Torn`, which loads as an empty list.  The server listens once every account was
tried (`RestoreSettles`).  The status connection is in `InboxWatch`.

### BridgePage and the code

As `WebMail`, with two differences of the code: a request names the account and
folder of the moment, and there are hardly any tickets - only `loadSeq` and
`mailCacheKey`, which is `page.key`.  Lists are cached per account and folder
(`page.lists`), `page.cache` is `mailCache`, `page.drawn` whether it is drawn.  A mail is
a list and a UID; its sequence number is its rank.  The bridge counts
`inboxVersion` up when mail arrives in an INBOX or is expunged; the poll compares
it.  `past` records what was selected, changes that were not listed because their
fetch failed or was too old (`missed`), and five slips of the code
(`past.slips`, see Findings); a "load more" keeps the mails it was asked to continue.  Left out: flags, badges, folder lists, summaries and
the stale mailbox count, the 300 ms before the cache is stored and its size, the
batch import and discovery, and the mobile layout.

## Runs

| Run | Instance | What it shows |
|:--|:--|:--|
| `faults` | one letter, one event, one rule (ntfy, forward); a crash, a lost answer, one of them trashed, purged or cleaned up, 2 attempts | types, `OnlyDoubtRepeats`, `NoRowForgotten`, `AttemptsAccounted`, `DoneIsComplete`, `NoLostWakeUp`, refinement of `RoutePromise` |
| `edits` | a spam message, two rules with push and local actions, an edit that may make a rule invalid, two moves, a crash, a failing call; fair | `DoneTookEffect`, `MatchedOnlyShrinks`, `EveryMessageSettles` |
| `unread` | one letter, one failing read of the rules | a message settled without meeting a rule (violation) |
| `overlap` | two requests at a time, two rules, three rule bodies, two restarts, one failing seed | types, `EnvRulesFollowSettings`, `StartSparesUserRules` |
| `deleted` | the same, without restarts | a rule deleted comes back (violation) |
| `watch` | three mails of which one may be old, one of each: deletion, new UIDVALIDITY, lost connection, failure, restart; two mails are one too many for a report | types, `NoMailOverlooked`, `NothingPassedOver`, `OnlyNewsIsReported`, `ToldMailHasItsEvent`, `NewMailIsReported` |
| `intake` | two mails, to one or two recipients, from outside or inside, plain, a bounce, two of one sender, blocked, empty or in a loop; limits of 2 recipients and 1 mail in 2 units, a delay of 2, 4 units of time; two of a fault, a stop, a change of domains; and, with one mail from inside, three changes of domains, two at a time, and a stop | types, `StoredAsTold`, `GateKeepsItsWord` |
| `page` | two mailboxes, one with every folder filled, pages of one mail; three clicks, an auto-refresh, a failure; two requests at a time | types, `ShownBelongsToMailbox`, `DetailIsTheOneOpened`, `SpinnersAreOwned`, `RefreshUndoesNothing` |
| `compose` | two mails, two lists of files (one fits, one does not), two texts, two sends, a failure, a reload | types, `WindowShowsItsMail`, `SentAsTold`, `DraftKeepsUp` |
| `bridge` | two mailboxes, two folders; three requests, two at a time, two faults, a crash; fair | types, `CommandsKeepTheirFolder`, `ConfirmedSurvives`, `EveryRequestAnswered` |
| `pages` | two accounts, three lists; two each of clicks, polls or reloads, and changes at the server, one fault, four of all; two requests at a time | types, `MailsStayInTheirList`, `NoMailIsSkipped`, `ChangesAreListed`, `SearchStands` |
| `batch` | the same, three clicks | a batch acts on mails nobody selected (violation) |

Bounds: every counter that could grow is bounded in a guard (the constants
`Max...` and, where several are spent together, `MaxAll`; `Most` in `Intake`), never by a state
constraint, so that liveness is checked on the same graph.  Two actions
per rule and two attempts are the least with which one action can succeed and
another fail, be retried and be given up; two messages from the two tables are
the least with which one waits behind the other; one fault of each kind meets
every step of the worker (failing database calls in `edits`, lost answers in `faults`).  For the watcher, three mails are the least with which one
is old, one is reported and one arrives during the report; deleting one of them
and starting the uids over then makes each comparison with `lastUid`, the count
and UIDVALIDITY matter.  In `intake`, four units of time are the least with which
an address comes too early, comes again in time, and leaves the window; how much
else may happen depends on the mails (`Most`), so that three requests about a
domain can overlap where no mail has to wait.  A greylist or limit that is off is
left to the proofs, which hold for it too.  In the
pages, two requests at a time are enough for every pair of handlers to overlap,
and pages of one mail make every list have a next page; in `bridge`, two are enough
for one to hold a lock the other waits for while a third account is untouched.
Selecting and deselecting rows is not bounded at all.  The proofs hold for any
values of the bounds.

Fairness: in `edits`, weak fairness of the worker's own steps, of the poll
timer in its select, of the passing of a saved time and of starting the process
again after it ended (the compose file restarts it).  Nobody has to send,
notify, restore or edit, and the wake-up is not needed: `Poll` alone suffices.
In `watch`, weak fairness of handling notices and of the steps of a report: the
event loop goes on, the timer fires and every await ends (the library and
`fetch` have timeouts).  Nothing else is fair; `NewMailIsReported` assumes
instead that the INBOX is watched for good from some time on.  In `bridge`, weak
fairness of each request's next step (imapflow answers, fails or times out), of
starting the bridge again and of the logins at a start; nobody has to ask.
The other specifications have none: they are checked for safety only.
Deadlock is checked where the system always has a step (`faults`, `overlap` and
the two violations of these modules), and not where users, senders and servers may
all be done.

## Findings

Three runs end in a counterexample; `PROJECT.json` quotes, under "findings", the
sentence each of them contradicts.  Seven more configurations are kept in this
directory for the same purpose and run with `tlc -config <file> <module>`; each
ends in a counterexample:

| Configuration | Property | What the code does |
|:--|:--|:--|
| `MCRouteEngine_restart` | `RestartNeverRepeats` | a crash between a request (router.go:235) and its save (249) repeats it, although docs/mail-router.md:132 says it never does |
| `MCRouteEngine_reorder` | `OnlyUnfinishedRunAgain` | results are kept under the place of an action (router.go:225): after a change of order the one that succeeded runs again (docs/mail-router.md:134) |
| `MCRulesApi_readonly` | `EnvRulesReadOnly` | the enabled switch (router.go:837) changes a rule of `.env`, which docs/mail-router.md:13 calls read-only |
| `MCInboxWatch_deaf` | `KeepsWatching` | a status connection that ends during `mailboxOpen` (client.js:116) is kept, and nobody reconnects (client.js:208) |
| `MCBridge_reconnect` | `EnsuredIsUsable` | two requests that reconnect replace each other's connection (client.js:54), and the first goes on with one that is not up |
| `MCBridge_twice` | `OneAccountPerMailbox` | the check for a connected mailbox (server.js:121) is made before the login, so two requests both pass it |
| `MCWebMail_query` | `NewestQueryStands` | `trashAction` sets the inbox idle during a query (state.ts:629); a tab switch then drops the query |

Properties that hold name their exceptions, which are behaviours of the code one
may argue about:

- `CommandsKeepTheirFolder` leaves out "mark as read" after the connection of its
  request was replaced (server.js:262 names `client.client` anew): the flag is set
  on the new connection, whatever folder is selected there.
- `ConfirmedSurvives` leaves out a crash in the middle of a write: a torn file
  loads as an empty list (accountStore.js:73-78), and the next account added makes
  that permanent.
- `MailsStayInTheirList` leaves out a "load more" answered when its list has gone
  (`stray`: app.js:789-795 compares nothing): its mails join the list shown.
- `NoMailIsSkipped` leaves out the same, rows removed by their place after an
  await (`row`: app.js:1052, 1068), and more new mails between two refreshes than a
  page holds (`burst`: app.js:1408-1412 joins what is not adjacent).  It also
  leaves out a "load more" that gets newer mail than it continues (`shift`:
  app.js:789 asks for what is below a sequence number; when enough mails before it
  were expunged, mails newer than the rows have those numbers, and what is in
  between is skipped), and a UID deleted or moved in a list that has not given it
  yet (`foreign`: the selection was made in another list, app.js:1112-1120; if a mail
  gets that UID before the answer is handled, its row goes although it is still at
  the server).
- `ChangesAreListed` leaves out a fetch that fails or was answered before the
  change was noticed (app.js:1380): the version is recorded all the same.
- `SentAsTold` counts what the user was not told: a send during which the page was
  reloaded, or whose answer was lost, may be repeated (viewer.go:1350); a draft
  saved just before a success and found by a reload within two seconds offers the
  sent mail again (ComposeModal.tsx:310); a failing record leaves a sent mail out
  of the sent folder (viewer.go:1372).
- `RefreshUndoesNothing` speaks of the silent refresh; a first load or a "load
  more" that was read before a deletion does bring the mail back until the next
  refresh, and a deletion elsewhere lets "load more" skip a mail (state.ts:366-387).

Seen while reading and not modelled: in the compose window, files that finish
reading while a send is under way are shown and not sent, edits made then are lost
when the window closes, and the draft has neither files nor the domain; in
`rules.js`, saving is not disabled while it runs, and its reply may land in another
rule's editor; in `SettingsModal.tsx`, replies of the two loads are taken in any
order; in `server.js`, a mailbox added while its deletion awaits the logout is
answered as existing, and a batch import saves only at its end.

## Slips

A definition `X_Y` placed before `X` is `X` with a mistake one could make in
that code (a dropped guard, a missing reset, an off-by-one).  No specification
uses it.  For each property of a passing run one slip is put in the place of its
original, and TLC then finds the property violated: the property does depend on
that line of the code.

## Proofs

All theorems hold for every value of the constants the assumptions allow: any
messages, rules, documents and bounds.

`TypeInv` (`RouteEngineProofs`) strengthens `TypeOK` by where each program
counter may have a message in hand (`InHand`) and what is left to do
(`TodoListed`).  `SafetyInv` is inductive and adds what the properties rest on:

- `BornFresh`: a row that is not stored yet has no history;
- `CopyAhead`, `Held`, `InCopy`: the copy differs from the row by exactly what
  is unsaved, while the row is still there;
- `RequestsCounted`, `Unanswered`: each request taken is on record, in the
  copy, or counted in `doubt`;
- `ClaimsCounted`, `CutShort`: each claim is finished, in hand, or was cut short
  by a crash or a failed save;
- `CopyTookEffect`: what the copy calls done has happened;
- `RunsTheTable`: without edits and database errors, the worker's rules are
  those of the table.

Without these, none of the properties is inductive: `OnlyDoubtRepeats` alone
says nothing of a copy that has a request the row does not know, and
`AttemptsAccounted` nothing of the claim in hand.  From `Safety` follow
`RepeatsExplained`, `DoneIsTrue`, `RowsAreFound`, `AttemptsBounded`,
`DoneIsWhole`, `MatchedShrinks` and `WakeUpsKept`.  `Implements`
sorts the steps of the engine by what they do to a row
(take, send, record, remove, nothing) and shows each class to be a step of
`RoutePromise`, or a stutter.

`RulesApiProofs` proves `EnvRulesFollow` from `OwnerInv` and `CallsKeepOwner`: a
request in flight never changes who owns the row it will write, because only a
start creates or removes a rule of `.env`, and a start ends all requests.  From the
same invariant follow `RulesTyped` and, as an action property, `StartSpares`.

`WatchInv` (`InboxInvariant`) is inductive for the watcher.  Its parts say where
mail lies: what is done with, or in a report that is being sent, at or below
`lastUid` of its UIDVALIDITY (`DoneBelow`, `PostBelow`); what a fetch found above
it, without gaps among the mail that is still there (`FetchAbove`); and that a
connection which listens has been looked at under the UIDVALIDITY it has
(`LookedAt`).  Without `FetchAbove`, moving `lastUid` to the last mail fetched
could pass over another; without `LookedAt`, uids of two lives of the INBOX
could be compared.  `InboxWatchProofs` shows that most steps are `Quiet` (they
change neither server, events nor history, and keep `lastUid`), and treats each
other action in a lemma of its own.  `Watched` gives `NewsOnly`, `NonePassed` and
`ToldStored`.

`NewsInv` adds why no arrival is overlooked.  The library's count and the
watcher's differ from the INBOX only by what is on the wire: `CountsAgree` says
that some sequence of counts leads from one to the other, up by one for each
arrival and down by one for each deletion.  So an arrival on the wire is always
noticed as one, whatever deletions come before it (`noteInboxExists` compares the
new count with its own), and `MailAwaited` says of mail above `lastUid` that a
timer, a queued report, the running report or such an arrival takes care of it.
`AllAwaited` gives `NothingOverlooked` and `WatchTyped`.

`SendInv` (`ComposeProofs`) is inductive for the compose window.  `Out(n)` counts
how often mail `n` was taken by Resend or still may be.  A mail has one request for
free and one for every doubt (`Limited`: `Out(n)` is at most `1 + doubt[n]`), and
whoever may send it again, a form or a draft that holds it while no answer is
awaited and the form does not say "sent", has one to spare (`Spare`: at most
`doubt[n]`).  That is why the window must wait for one answer at a time
(`OneAwaited`), a request that was refused must not have gone out (`Refused`), and a
mail told as sent must leave no draft behind when its window closes (`DraftInStep`).
`Kept` says that records never run ahead of what Resend took.  From it follow
`NoMailTwice` (`SentAsTold`) and, with what `closed` means, `DraftFollows`
(`DraftKeepsUp`).  `WindowInv` adds what the window shows.  `FilesFit`: its files
are its own, and their sizes sum up to no more than a mail may have.  The sum is a
recursive function over the list; the lemmas on it (adding a file adds its size,
taking one away adds nothing) go by induction over a set of numbers (`Upward`).
`SaysSo`: only openings that were told as sent close by themselves, which is why
no timer takes an unsent mail away.  It gives `WindowHolds` and `ComposeTyped`.
Assumed are only bounds and sizes that are numbers and a `None` that is not a
draft.

`BridgeInv` (`BridgeInvariant`) is inductive for the bridge's accounts and
connections.  A handler there is a chain of operators on the memory of the
process, and in the middle of the chain everything fits but its own request.  So
the invariant is said of a set `R` of requests: `Solid(p, R)` says that ids name
clients and connections there are (`Linked`, `Fits`), that a request under the
lock is where it should be, on the client's connection, in its queue and, past
"lock", at its head with its folder selected, or that this connection has ended
(`InPlace`), that only those of `R` are in queues (`Queued`), and that a connection
being made is nobody else's (`Alone`).  `BridgeProofs` has a lemma for each
operator: being answered, a new connection or a place in a queue bring the request
back into `R`.  `InPlace` is what `CommandsKeepTheirFolder` needs: a request keeps
the lock of the connection its client has until it is answered, so a reconnect,
which only happens on a connection that ended, cannot take the folder from under
it.  For the accounts, `Lasting` says that what was answered is held by a client
nobody is deleting, and in the file; each operator `Keeps` such clients, and a save
writes every one of them (the n-th line is the client with the n-th id).  `FolderKept`,
`AccountsLast` and `BridgeTyped` follow.

`IntakeInv` (`IntakeProofs`) is inductive for the intake, with the tables of the
gate left open: nothing a sending server is told depends on them.  A mail is in one
session at a time (`OneEach`), what a session has of it is still to be delivered
(`Fits`), and who was told is not owed any more (`Owed`); so the copies of a plain
mail for a recipient are those it was told of, those whose 250 was lost, and those
of sessions just about to answer.  It gives `ToldHolds` (`StoredAsTold`).

`GateInv` is inductive next to it and says what the tables of the gate have to do
with what came before (`past`).  A table of a limit is the newest part of the times
at which the limit let the address pass, and what was dropped from it is out of the
window (`RateFits`): times come in order, so a filter by age, the purge of a large
table and a refused attempt all leave such a part, and what is left in the window
is as much as passed in it.  The greylist has a triple's first contact after a gap
of `GreyTTL` until that is forgotten, and nothing that was no contact (`GreyFits`).
Asking a limit that is off changes nothing on either side, and neither does mail
the greylist is not for (`AskFits`, `GreylistFits`).
A domain that was deactivated and not taken back is inactive, whatever an
administrator's request saw before (`DomainsFit`).  It gives `GateIsTrue` (`GateKeepsItsWord`) and, with
`IntakeInv`, `IntakeIsTyped`.  That a filtered list of times in order is its end
needs the least place that is left; `LeastOne` takes it from the library's theorem
that finite sets are well-founded under strict inclusion.  Assumed are only
that the windows are positive, the other settings numbers (0 for no limit), and
that no sender is the empty one.

`MailInv` (`MailInvariant`) is inductive for the mail page.  A handler there is a
chain of functions of the page, so the invariant is said of any page.  `PageInv`
says what is shown and what may come: lists, search, open mail and offers to undo
are of one mailbox (`ViewInv`), and each request fits the page (`CallFits`).  A
request that holds the newest ticket is one the page waits for: the search is
empty and loading, the mail in the right column is the one asked for, in the tab it
was asked for in, and a silent query is the first there is.  That is what makes a
reply that is taken over show the right thing, and why a handler that changes what
is shown must take the ticket first.  `Distinct` keeps one newest request for each
ticket, which is why the one that comes is the one to stop the spinner.

For the spinners, `Owned(p, T)` says that each has a request that will end it, those
of the tickets `T` aside: in the middle of a handler (the ticket taken, the spinner
not yet reset; the request over, its reply not yet looked at) nobody owns them, and
`WebMailProofs` has a lemma for each function that says which it gives and which it
takes away.  Spinners of a folder need more than the property says: the request is
of the mailbox shown, and a list that loads its first page has a request that does
not append (`FolderOwned`); otherwise a reply for a mailbox that was left could be
dropped as stale while the list it was for still turns.  `TabLoaded` is the last
part of `SpinnersAreOwned`, and `RoomLeft` says that restoring a view finds a
number for its request: `MaxCalls` bounds the requests under way when a click or a
tick comes, a click sends at most two, and the restore one.  It gives `MailboxShown`,
`DetailOpened`, `SpinnersOwned` and `WebMailTyped`.  Assumed are a finite set of mails
numbered by age, page sizes that are positive, and a `None` that is neither mailbox nor
mail.  The proof found one definition that said less than it meant: two arms of the
`CASE` in `DeleteReply` overlapped, which TLC reads in order and TLA+ does not.

`RefreshInv` (`MailInvariant`) is about what the page knows of its mails, and needs
nothing of `MailInv`: a page is taken by its shape alone.  The mails of `past` (the
user was told they are deleted, and the server has not given them back) are gone at
the server; what the page or an answer under way has as read was read
(`StayRead`, `Known`).  `UpToDate` says of a refresh that will be taken over (the
newest of its ticket, answered, no edit since it was sent) that its answer is the
newest part of the inbox, holds no mail of `past`, and has read what the page shows
as read.  What keeps it: every reply that takes mail out of the inbox or marks it
marks all calls under way as edited, so an answer that counts was made after the
last edit; and what the server has as gone or read stays so until an undo
(`KnowledgeLasts`).
There is a lemma for each handler, and one for the window: a mail of the
inbox older than the newest page has a full page of newer mail before it
(`WindowKept`), so keeping what is older than the window keeps the pages that were
loaded.  `RefreshInvariantHolds` gives `RefreshIsHarmless`.  The attempt found that
`RefreshUndoesNothing`, as it was first stated, held only within the bounds of
`page`: with one more click, a mail is deleted twice, taken back once, and a refresh
shows it again just before the second deletion is carried out.  That is right
behaviour, so `past` is now what the server still has as deleted.

`PageInv` (`BridgePageInvariant`) is inductive for the page of the bridge, whose
handlers are chains of operators as well.  Unlike the web UI it has hardly any
tickets, so the invariant says why a reply that comes late does no harm.  Mails
lie in the entry of their own list, in the cache and in the answers under way
(`Stored`); the rows are of the list chosen whenever the key says so, and a "load
more" that continues them asks for the same list (`Continued`).  Together
(`InPlace`) they hold until a "load more" strays.  `InStep`: the rows are as new
as the entry of their list, and every fetch of the list that is shown has somebody
waiting who will show it.  That is what keeps an old list from being written back
over a newer entry by `syncListCache` while a prefetch brings the newer one; with it,
`Listed` says that an inbox without a fetch under way is as new as the version the
page was told of.  `Searched`: while results are shown no request of `loadMails` is
heeded.  `Named` is about accounts: every one the page names was added, and
the one being added is not among them, since an id is never given twice.  Without
that an account could be opened that has no list.

`SkipsNone` is the part that `NoMailIsSkipped` needs, and holds while there was no
slip.  Every cached list is `Whole`: a mail that is not in it is newer than all of
it, or comes before the place where it continues.  The rows are that too while
they are shown (`RowsSkipNone`), and so is the answer to every fetch
(`AnswerFits`).  The rest is about answers that come late.  A "load more"
continues what it was asked to continue, and not the rows as they are now:
`Continues` says that a mail missing from the rows is older than them just when it
is older than what the request continues, and that the answer has it or stops
above it.  That is what allows a refresh and a deletion to change the rows in the
meantime, and a second "load more" to be joined first.  And a fetch that is
answered has seen all the page has (`Behind`), so that taking it over loses no
mail newer than the last row.  A mail whose deletion is confirmed is gone at the
server, which is what lets its row go.  `Spares(p, q)` says that a handler that
turns `p` into `q` skips none, at any server that has given the UIDs; most need
only `Narrows` (nothing is added but new requests), and the refresh, "load more"
and the removals have lemmas of their own (`QuietSpares`, `MoreSpares`,
`FewerKeeps`).  At the server `LaterStays` says that arrivals and expunges keep
it: UIDs only grow, and an expunge lowers places, never raises them.
`BridgePageProofs` has a lemma for each operator, which says what it keeps
(`Kept`) and, where it does not keep all, what it needs: showing a list needs it
in the cache as new as it is shown (`ApplyKeeps`), asking for lists needs one
request for each (`FetchKeeps`).  `PageInvariantHolds` gives `MailsStay`,
`NoMailGetsSkipped`, `ChangesGetListed`, `SearchResultsStand` and `PageIsTyped`.
Assumed are finitely many lists and first mails, an INBOX for every account,
stored views of lists there are, and a `None` that is neither account nor list.
The attempt found one way into `missed` to be redundant (a poll that finds a fetch
already answered: the answer is too old when it comes), and it is gone.  It also
found that `NoMailIsSkipped` held only within the bounds of `pages`: with more
changes TLC then showed a "load more" that skips mails after expunges and arrivals
(`shift`), and the deletion of a UID of another list that has to come yet
(`foreign`).  Both are what the code does, and are now among the slips.  And a
quiet refresh of an empty list replaces the rows, so that what continued them is
not `current` any more.

Only model-checked: `EveryMessageSettles`, `NewMailIsReported` and
`EveryRequestAnswered` (liveness is beyond the prover).  Every safety invariant
and every action property of a passing run has a theorem.  The strengthened
invariants are proved inductive and need no run; to have TLC look at one that the
modules of the runs reach, add it to the invariants of `edits` (`SafetyInv`),
`watch` (`WatchInv`, `NewsInv`), `page` (`MailInv`, `RefreshInv`) or `bridge`
(`BridgeInv`); the types in `PageInv` of `BridgePage` name infinite sets, its
other parts can be added to `pages`.

## Not modelled

The content of mail, globs and texts of rules (the set `takes` of a rule says
which messages they select), wording of results, the length of delays,
Resend's own deduplication by idempotency key (a request is counted when it is
taken), the sample pushes of the test button, `errRetryLater`, which no action
returns; accounts of the HTTP API with their keys and limits, sender keys, login
sessions and proxies of the web UI; the settings window, the rule editor page, the
IMAP frame, languages and layout of the web UI; discovery and sanitising in the
bridge; and the parts listed as `not_modelled` in `PROJECT.json`.  The sections
above name what each module leaves out of the code it does model.

## Plan

Done: the routing engine and its promise, the rules API, the watcher, the intake,
the two pages, the compose window, the bridge's accounts and connections.
What would come next:

1. An abstract specification of the watcher (each mail told at most once) that
   `InboxWatch` implements.
2. Sender keys and accounts of the HTTP API, and the settings window over them.
3. The rule editor page over `RulesApi`.
