# RoyaEvent: TLA+ models, checks and proofs

RoyaEvent sells tickets for events: a FastAPI backend over SQLite, Redis, a
document store and a vector index; a worker process that sends notifications;
and a Next.js frontend. This directory models the parts of it whose correctness
depends on the order of things. On the server: ticket sales, sessions with
rotating refresh tokens, one-time codes with their rate limit, the notification
outbox with its worker. In the browser: the tabs that share a session, buying a
ticket, editing an event, every list page and widget that changes something,
the administrator's page and the check-in desk.

Paths are relative to `src/`; `B` stands for `backend/app`, `F` for
`frontend/src`. `PROJECT.json` maps every definition to the lines it models.

## 1. Inventory

### Server

The backend runs four gunicorn workers with a thread pool each. A request has its
own SQLAlchemy session (`B/db/session.py`). SELECTs take no lock. The ORM keeps
what it read in memory and writes only changed columns, as absolute values, by
primary key, when `db.commit()` is called. So a handler is a series of reads
followed by a commit that may rest on stale data; several services commit more
than once per request. This is where most of the server's hazards come from.

| Component | State | Operations | Hard because | Correct if |
|---|---|---|---|---|
| Orders and registrations (`B/services/order_service.py`) | orders, registrations, `quantity_sold`, `uses_count` | create, complete, cancel, remove attendee, check in | read-modify-write counters, checks apart from commits, orders PENDING for any time, announcement in a second transaction | no overselling, exact counters, one registration per order, rows only move forward |
| Ticket types and discount codes (`ticket_service.py`, `discount_service.py`) | quantities, limits, validity | lookup, usability, early-bird window | limits compared with counters that race | a code is used at most `max_uses` times |
| Refresh tokens (`auth_service.py`) | `refresh_tokens` with `revoked_at`, `replaced_by` | login, refresh, logout, reuse detection | two commits per refresh, crash in between, racing refreshes, chain walked while it grows | one live token per session, a reuse ends the session and no other one |
| One-time codes (`otp_service.py`) | `otp_challenge`, users | request, verify, resend | check and commit apart, attempts counted from an earlier read, cancellation before the throttle | single use, limited attempts, settled challenges stay settled |
| OTP rate limit (`B/core/rate_limit.py`) | Redis keys: cooldown, counters | cooldown, three fixed windows | INCR and EXPIRE are two commands | limits hold, a block ends |
| Notification outbox and worker (`notification_service.py`, `B/workers/scheduler.py`) | outbox rows, `reminder_sent_at`, Redis locks | enqueue, dispatch, scan for reminders | crash between send and commit, lock expiry, lost provider answers, backoff | every row settles, duplicates only by faults |
| Events and drafts (`event_service.py`) | event, sessions, status | create, update, publish, cancel, replace sessions | sessions referred to by orders, index written by a thread pool | section 6 |
| Search index, home cache, reviews, instructors, administration | index, one Redis key, averages, claims, category tree, log | index, search, recompute, claim, move | out-of-order updates, stale reads, second commits | section 6 |
| KPI, tracking, files, providers, templates, plumbing | documents, objects | | I/O | not modelled |

### Browser

A component keeps React state; a handler runs until its first `await`, the user
and other effects go on, and the rest of it runs when `fetch` settles. What a
handler disables while it waits, and what it read before the await, is all that
orders two handlers. An effect on the access token loads a page again whenever
`SessionBootstrap` or a refresh sets a new one. No call is ever cancelled.

| Component | State | Operations | Hard because | Correct if |
|---|---|---|---|---|
| Session (`F/lib/api-client.ts`, `SessionBootstrap.tsx`, login page, header) | cookie, access token, `refreshPromise` per tab | bootstrap, refresh after a 401, login, logout, reload | several tabs and one cookie, lost and late answers | the cookie stays in step with the server, the promise is released |
| Checkout (`TicketCheckout.tsx`, `InstantRegisterButton.tsx`, `InstantRegisterModal.tsx`, `CompleteProfilePrompt.tsx`) | selection, existing ticket, steps of the dialog | select, submit, profile prompt, code by OTP, register, close | create and complete are two calls, a token arrives after mounting, a dialog is closed half-way, the prompt submits again | no second ticket, no forgotten order, success only with a ticket |
| Event editor (create, edit and media pages) | form, copy of the event, flags | fill in, create, save in two calls, upload, publish | a load overwrites the form, uploads answer in any order, a form inside a form | one event per form, "saved" is true, the copy is current |
| Lists and widgets (own events, attendees, tickets, ticket types, reviews, favourite, follow, rate, claim, discount code) | copy of the rows, `busyId`, error | load, act on a row, reload, toggle, validate | reloads nobody waits for, one `busyId` for all rows | the copy is current at rest, no double call, no false error |
| Administration page | seven tables with one `busyId`, visible counts, KPI rows | delete, feature, suspend, categories, hide, roll up; tabs, search, scrolling; monthly view | ids of different tables, an observer per chunk, rates that cannot be summed | as for lists; every row can be reached; totals agree |
| Check-in desk (`checkin/page.tsx`, `TicketQrCode.tsx`) | scanner, `busyRef`, field, result | scan, type, resume | a callback of an old render, the scanner pauses itself | one call at a time, a scanner that a code paused can be resumed, a valid ticket is taken |
| Pages that only read or render | copies | load | | not modelled |

How they interact: handlers share the database; `complete_order` enqueues a
notification that the worker sends; the worker selects registrations that
`cancel_registration` may be changing; `verify_otp` ends in `issue_token_pair`;
every tab calls `/auth/refresh`, and the tokens it obtains make the pages load
again; checkout calls create and complete of the order service; the check-in
desk submits what `TicketQrCode` encoded.

## 2. Modules

| Module | Models | Composition |
|---|---|---|
| `OrderService` | orders, registrations, codes | instantiates `TicketSale` |
| `TicketSale` | abstract specification: sales with each operation at one instant | |
| `MCOrderService` | instance for TLC | extends `OrderService` |
| `RefreshTokens` | `auth_service.py` with the auth router | |
| `BrowserSession` | the browser against that server | extends `RefreshTokens`, adds its variables and joins its steps |
| `OtpSettings` | the constants of the next two | |
| `OtpService` | codes and the accounts they create | extends `OtpSettings`, takes the verdict of `OtpRateLimit` as a choice |
| `OtpRateLimit` | cooldown and windows in Redis | extends `OtpSettings` |
| `OneTimeCodes` | the two side by side, for TLC | extends `OtpService` and `OtpRateLimit` |
| `NotificationWorker` | outbox, locks, both jobs | |
| `Checkout` | both surfaces that sell a ticket, with the part of the server they meet | |
| `EventEditor`, `MCEventEditor` | create, edit and media pages | |
| `ListPages` | list pages and widgets, and the calls they make | |
| `AdminPanel` | tables, lazy lists and monthly KPIs of the administrator | extends `ListPages` |
| `CheckIn` | check-in desk and QR code | extends `ListPages` |
| `ClientPages` | the three together | extends `AdminPanel` and `CheckIn` |
| `OrderServiceProofs`, `RefreshTokensProofs`, `OtpServiceProofs`, `OtpRateLimitProofs`, `NotificationWorkerProofs`, `CheckoutProofs`, `EventEditorProofs`, `ClientPagesProofs` | theorems | extend the module proved about |

### Conventions

A table is a sequence and a primary key is an index: rows are only ever added at
the end. `pc[h]` says where handler `h` is in its request, `loc[h]` what it holds in
memory. One action is one read whose result is used later, or one commit with all
that it writes. `Fail` ends a request between two steps: an exception, a rolled
back session or a killed process; what was committed stays. In the browser a call
is a *job*: the page sends it, the server executes it some time later, and its
answer runs the rest of the handler. A job may fail, executed or not; the page
cannot tell which. Definitions named `Action_Something` are variants of `Action`
with a plausible mistake; no specification uses them, and they exist to see that each
property can fail.

*History variables* (`origin`, `delivered`, `contended`, `accepted`, `redo`, `guesses`,
`admitted`, `late`, `crossed`, `overlap`, `hist`, ...) record what happened. No guard reads
them, except that `faults` bounds the faults, `Allowed` grants a click once `released` is noted, and a client presents only tokens in
`delivered`. Many guarantees of this code hold only without some overlap:
the properties name that overlap, by a history variable, instead of excluding it from the
model. Each such property is exact about its excuses; section 4 says what they mean.

### OrderService

`sold`, `uses`, `orders`, `regs` are the tables; `outbox` the registrations announced.
`CreateBegin ... CreateInsert`, `CompleteBegin ... CompleteCommit`,
`CompleteNotify`, `CancelBegin ... CancelCommit` and `CheckInBegin`,
`CheckInCommit` are the steps of the four operations. `CompleteCommit` writes
the counters as the value read before, plus one, exactly as the ORM does.
Amounts, users and ownership checks are left out.

### RefreshTokens and BrowserSession

`RefreshIssue` and `RefreshRotate` are the two commits of `refresh`; `RevokeWalk`
is one SELECT of the loop in `_revoke_chain_forward` and `RevokeCommit` its
commit. A client may present any token it was ever given. In `BrowserSession`
the client is a browser: tabs with their own `refreshPromise`, one cookie jar, requests
that carry the cookie of the moment they were sent and may wait, arrive late or get lost.

### OtpService and OtpRateLimit

`VerifyBegin` reads the challenge and makes every check on what it read;
`WriteRefusal`, `WriteWrong`, `WriteVerified` commit the verdict. `Cancel` is
`resend_otp`'s own commit, before the new request meets the rate limit. The rate
limit has its own module with one Redis command per step; `OtpService` lets
`Throttle` admit or refuse any request, which covers every behaviour of the
rate limit. So `OneTimeCodes` lets a behaviour move one of the two and the other
rest; letting every throttled request walk through the Redis commands leads to tens of
millions of states and to no verdict that `Throttle` lacks. The branch of `verify_otp` that locks a PENDING challenge with no
attempts left is never taken: the commit of the last wrong code locks it
(`AttemptsLimited`, first conjunct).

### NotificationWorker

Every worker process runs each job at most once at a time (`max_instances`), both
under a Redis lock. `Acquire`, `Release`, `DispatchSelect`, `DispatchLoad`,
`SendOne`, `SendCommit`, `ScanSelect`, `Remind`, `Mark` are the steps;
`StaleLockExpires` and `LockOverrun` are Redis, `BackoffElapses` and `WindowMoves`
are time. `redo` counts, for each job, the faults after which it may do again what it has done: a crash or
an exception counts only if it hits a job between its send, or its queued reminder, and the
commit that records it (`Uncommitted`).

### Checkout

`page` is the state of the card, `modal` that of the dialog; one of the two is on the
screen. `ClickSubmit`, `AnswerCreate`, `AnswerComplete`, `AnswerFailure` are `handleSubmit`
cut at its awaits, `ClickConfirm`, `AnswerTypes`, `AnswerDetail` and the same answers are
`register`. `SavePrompt` and `AnswerPrompt` are the profile prompt, whose `onCompleted`
starts the purchase again. `CloseModal` unmounts the dialog: its jobs go on with
`live = FALSE` and no longer touch its state. `OthersBuy` sells out a type; an
early-bird type may be over from the start (`"ended"`). The server's rules are those the calls meet: a 422 without a name, a
refusal when nothing is left.

### EventEditor

A form has a text that is always sent, an optional field that is sent only when
filled in, a category and rows with a start. `ClickSave`, `AnswerUpdate`, `AnswerSessions`,
`AnswerSaveFailure` are the two calls of a save; `AnswerLoad` fills the form from
a read of any age; `AnswerUpload` replaces the whole copy. `SavePrompt` on the
create page also runs the outer form's handler, since the submit event of a form
inside a form bubbles. The edit form sends neither venue nor capacity of a session
(`SessionInputs`), so saving resets both; no property here is about them.

### ListPages, AdminPanel, CheckIn

One module for ten pages because they share their machinery and differ in what
matters: when a button is enabled (`HandlePublish`, `HandleRemove`, `HandleCancel`, ...), whether
an answer replaces the row, starts a load nobody waits for or one that is awaited, and what
a failure leaves behind. A list read by several calls (`Parts`) is read part by part. The rules of
the server about the row itself are `Needs` and `Accepted`, reduced to the status of the
row; nobody else changes the rows. The administrator's tables use the same
jobs with one `busyId` over rows whose ids may coincide (`IdOf`). The audit list is
not loaded again after a toggle and is left out with the other read-only tables. A user
whose record is not loaded yet sees the administrator's page; its calls are then refused
like any failing call. The lazy lists are a machine of their own: `Rendered` is React's rule
for running an effect again, `Report` the observer. Visible counts never shrink, as in
the code. The camera of the desk may read any text (`QrTexts`), a blank one included, and pauses on each of them. A padded discount code is validated trimmed and sent untrimmed when ordering;
`NoticeIsForTheCode` is about the code as typed.

## 3. Runs

| Run | Instance | Shows |
|---|---|---|
| `orders_concurrent` | 2 handlers, one ticket of one type, 2 orders, 3 registrations | what survives races: the stored counter stays within the total, orders and registrations agree, rows only move forward |
| `orders_serial` | 1 handler with failures at every step, 2 types, 2 codes spelled alike, 2 events, a clock | exact counters, and `OrderService` implements `TicketSale`, which sells no ticket twice and registers an order once |
| `orders_session_capacity` | 1 handler | **finding**: the capacity of a session is not rechecked at completion |
| `refresh_tokens` | 2 handlers, 3 rows, expiry | delivered tokens replace revoked ones, one live token, revocation stays in the session, a reuse ends it, every request ends |
| `browser_tabs` | 2 tabs, 2 handlers, 2 rows | cookie and server stay in step unless requests overlap or get lost; only such sessions are taken for stolen; `refreshPromise` is released |
| `notification_workers` | 2 workers, 3 rows, 2 attempts, one fault | mutual exclusion, deliveries against records, attempts, reminders, and every row is sent or given up |
| `notification_crash` | 1 worker, 2 rows, one crash | **finding**: a crash sends a message again |
| `one_time_codes` | codes: 2 handlers, 2 challenges, 2 attempts; limit: 2 handlers, one destination, one address or none, limits 1, 2, 2 | single use and counted attempts without overlap; with any overlap, nothing becomes PENDING again and a PENDING challenge has attempts left; limits hold, blocks end |
| `checkout` | 1 early-bird type, 2 tokens, 2 clicks, 1 fault, 3 calls at a time | second tickets, success, forgotten orders, buttons that come back |
| `event_editor` | 2 starts, 2 rows, 3 edits, 2 saves, 2 uploads, 2 tokens, 1 fault | events per form, what "saved" means, form and copy against the server, progress bars that end |
| `client_pages` | 2 rows, 3 clicks (for the administrator 2, and one more once `busyId` was overwritten), 2 tokens, 1 fault, 3 calls at a time; lists of up to 3 rows in chunks of 1; reports of up to 3 rows over 2 months | copies at rest, double calls, errors, the discount notice, the scanner, monthly totals, buttons, the end of a list |
| `checkin_scan` | 1 ticket, no fault | **finding**: scanning a valid ticket is refused |

### Why these bounds

A race on the server needs two requests on one row, so two handlers reach every pair
of steps; a ticket total of 1 and two orders make every completion a race
for the last ticket; three registrations leave room for the double completion of
an order. Three token rows give a login, its successor and a second successor
that overwrites the link. Two attempts distinguish the last wrong code from the one
before it; limits of 1 and 2 let a counter be at, below and above its limit.
`BatchSize` 2 makes the second row of a batch stale, and three rows leave room for one reminder more
than `RemindersCounted` allows after one fault. In
`orders_concurrent` handlers are a symmetry set: its properties do not
tell them apart, and it checks no liveness.

In the browser, two clicks are a double click and three are two rows and the first again,
which is what it takes to overwrite `busyId`; two tokens give a load that overlaps a
handler; three jobs hold two handlers and that load. On the administrator's page two
clicks are enough to overwrite `busyId`; a third one, which may change the first row again, is
allowed only then (`Allowed`). Two save attempts, three edits
and two uploads let every pair of them overlap with a load. A chunk of 1 and three rows need two
observers after the first; two tabs stand for the seven, whose code is the same. One
fault separates every property from its excuse "a call failed".

The bounds are `MaxOrders`, `MaxRegs`, `MaxTokens`, `MaxRows`, `MaxFaults`, `MaxClock`,
`MaxGen`, `MaxClicks`, `MaxAdminClicks`, `MaxJobs`, `MaxEdits`, `MaxSaves`,
`MaxUploads`, `MaxMoves`, `MaxLen`, `MaxKpis`, `NumRows`, `NumTypes`; where liveness is
checked they keep requests from starting and never stop one that has begun. In
`OrderService` a request that meets a bound at its insert can only fail. The
browser runs may stop (a user need not click), hence `CHECK_DEADLOCK FALSE` there.

### Fairness

Weak fairness of a handler's own steps (`Continue(h)`): the server runs a request
it has accepted, or the request fails. Of the answers in the browser: `fetch` settles, with
an answer or an error, and `request()` returns or throws on every path. Of the worker's
jobs: APScheduler starts each of them every few seconds and a job's calls return. Of
`StaleLockExpires` and `WindowEnds`: Redis deletes what has a time to live. Of
`BackoffElapses`: time passes. Of `Report`: the browser reports intersections. Of
`ScrollDown`, in `ListEndReached` only: its claim is about a reader who keeps scrolling.
No request has to be made: beginning one is never fair, and neither is a failure.

## 4. Findings

1. `order_service.py:110` - `complete_order` says that capacity is reviewed at
   completion but reviews `quantity_total` only. Two orders left PENDING while
   a session has one seat are both completed, without any concurrency.
2. `F/app/(organizer)/organizer/events/[id]/checkin/page.tsx:83` - the scanner submits
   the decoded text as ticket code, but `TicketQrCode` encodes the address of the
   check-in page. A valid ticket that is scanned as the page asks is
   refused. Opened as a link by a phone's camera, the same address works.

3. `B/workers/scheduler.py:111` - the docstring of the worker (lines 11-14) and
   `docs/architecture.md:73` say that the database (`status=PENDING`, `reminder_sent_at IS NULL`) keeps
   both jobs correct, so that the worker may crash and restart at any time and nothing is duplicated or missed.
   But `dispatch_outbox` sends first and commits afterwards. In `notification_crash` a single worker selects
   a row, sends it, crashes before the commit, is restarted once the lock has expired, and sends it again.
   `scan_reminders` has the same gap between the commit of `enqueue` and the one that sets
   `reminder_sent_at` (lines 143-144): the reminder is queued twice. *Missed* is not checked, since time is abstracted:
   a reminder is due for two minutes, and the lock that a crashed scan leaves behind lasts five (line 175).
   What does hold of a crash is in `DeliveryAccounted` and `RemindersCounted`: only one at exactly these two places
   duplicates, and it duplicates once.

The excuses inside the properties, and what they mean for a user. Each is a behaviour the model
has, and the property shows that it is the only way to the bad state. On the server:

- *Requests of one login overlap* (`contended` in `SingleLiveToken`, `ReuseEndsTheSession`): two tokens of the
  session may stay usable, and a reuse may leave one of them, although `docs/architecture.md:172` says that the whole
  family is revoked.
- *Two tabs, or a reload, refresh with the same cookie, or an answer is lost* (`shared`, `lost` in `CookieInStep`,
  `OnlyDisturbedSessionsFlagged`): the next refresh counts as reuse and ends the user's own
  session, which the comment on the single-flight guard says it prevents.
- *Overlapping requests for one challenge* (`contended` in `OneTimeUse`, `AttemptsLimited`, `SettledStays`): a code is
  accepted twice, wrong guesses are not counted, and a settled challenge changes its status, though never back to PENDING.
- *A crash between INCR and EXPIRE* (`orphaned` in `BlockEnds`) leaves a counter without a time to live. Requests
  go on counting in it, and once it is above its limit it refuses the destination, or the address, for good: nothing
  in the code ever sets the time to live of a counter that exists.
- *A job that outlives its lock* (its name in `causes`, in `OneWorkerPerJob`, `AttemptsCounted`): a second
  worker does the same job at the same time, and sends and counts what the first one has in its batch.
- *A crash or a failing commit between an effect and its record, the lost answer of a provider, an overrun lock*
  (`redo` in `DeliveryAccounted`, `RemindersCounted`): a message, or a reminder, goes out once more, and a message
  that was given up may have been delivered.

In the browser, apart from calls that fail (`faults`, in most of these properties):

- *A checkout card mounted before the token arrives, or a click while the profile prompt saves*
  (`late`, `crossed` in `SecondTicketExplained`) buys a second ticket.
- *The profile prompt inside the create form* (`bubbled` in `OneEventPerForm`) submits both forms.
- *A renewed token during a save* (`reread` in `SavedFormIsCurrent`) puts the old values back
  into the form; the next save stores them.
- *Two uploads, or an upload and a load, at the same time* (`overlap` in `CopyIsCurrent`): the page shows the older answer.
- *A list read before a change and applied after it* (`outrun` in `ShownIsCurrent`): the row shows its old status again.
  A button pressed on such a row (`stale` in `ErrorExplained`) is answered with an error.
- *A click on a second row* (`released` in `DoubleCallExplained`, `ErrorExplained`) enables the first one's
  button while its call is under way; the form of a new category has no such guard at all. The pages of reviews and
  of the discount code also report what the server refuses.
- *The same click on the administrator's page* (`released` in `ShownIsCurrent`): an event featured and,
  behind the deletion of another one, un-featured again may show the older answer when that arrives last.
- *A discount code edited while it is checked* (`edited` in `NoticeIsForTheCode`): the notice is about another code.
- *A blank text read by the camera* (`blank` in `PausedScannerExplained`): the scanner pauses (`checkin/page.tsx:82`), `submitCode`
  drops the text without a call (`:53`), and no button resumes the scanner until a code that is typed brings a result, or
  a renewed token or a reload starts a new one.

## 5. Proofs

All theorems hold for any sets of handlers, users, types, codes, destinations and any
bounds; the assumptions are the named `ASSUME`s of the modules (constants have
the types they have in the database), which TLC evaluates on every run.

**OrderService** (`OrderServiceProofs`), whatever overlaps: `TypeOK`, `SoldWithinQuantity`,
`CompletedIffRegistered`, `UsesNeverOverstated`, `NotifiedAfterCommit`, and the action
property `RowsOnlyMoveForward`. `SoldWithinQuantity` is not inductive, because a commit
writes what its handler read long ago. The invariant `Inv` adds what each
handler may hold (`HeldOK`): keys of rows that exist, a `quantity_sold` below the total for
a completion and at most the total for a cancellation, a `uses_count` that
counts existing registrations. That knowledge is never invalidated because rows only move
forward. There is one lemma for each kind of step: steps that write no table, inserts, updates.

*Requests that do not overlap* (`Serial`: at most one handler is not idle). Then `CountersExact`
holds, no type has more live registrations than tickets (`NothingOversold`), and the service
implements `TicketSale` step by step (`SerialImplements`): each commit is the abstract operation, every other
step a stutter. The hypothesis is about the behaviour, `Spec /\ []Serial`; with one
handler it always holds (`OneHandlerImplements`), which is what the run `orders_serial`
checks. `SerialInv` adds to `Inv` that what the one busy handler read is still what the tables say
(`FreshOK`), so that its absolute write is an increment, and that a pending order owes
what its ticket type says (`PaymentsDue`). Without `Serial` both theorems are
false: `orders_concurrent` does not check them for that reason.

**RefreshTokens** (`RefreshTokensProofs`): `TypeOK`, `ChainPointsForward`,
`DeliveredReplacesParent`, `SingleLiveToken` and the action properties
`RevocationStaysLocal` and `ReuseEndsTheSession`. `IInv` adds `Lineage` (every row comes from a login or
from a delivered row of the same login and user), `HandlersHold` (what a handler at each place
knows of its rows, and what it knows when it is alone on its login), `Separate`
(overlap was noted; no two handlers issue one row) and `LoginsUndelivered`.
`ReuseEndsTheSession` needs a second layer, `ChainInv`: in a login whose requests
never overlapped every delivered row is linked, through delivered rows, to the usable one
(`ChainKept`; a row left by a crash was never delivered and is not part of it), so a
walk that started at a revoked row has marked the usable row or is still before it (`SoleOnChain`).

**BrowserSession** (last part of `RefreshTokensProofs`): `CookieInStep` and
`OnlyDisturbedSessionsFlagged`. First, the server behind the browser takes only steps of
`RefreshTokens` (`BrowserDrivesServer`), because what is sent was delivered before
(`RequestsKnown`); so `IInv` holds there too. `BrowserInv` adds that overlaps on the
server were overlaps on the network before (`OverlapsNoted`), and follows one token of an
undisturbed session around: usable while it is issued (`IssuedUsable`), in the cookie, unless the answer that
replaces it is on its way (`CookieUsable`), and in a request that no handler has
read yet (`SentUsable`), hence never found revoked.

**OtpService** (`OtpServiceProofs`): `TypeOK`, `OneTimeUse`, `AttemptsLimited` and the action
property `SettledStays`. `IInv` adds what a request holds between its read and its write
(`Held`): attempts below the limit, so the verdict "locked" never occurs, and, unless the
challenge is contended, a challenge still exactly as read; and `Separate`: two requests
about to write one challenge have made it contended. So an uncontended write is
as good as an atomic one, while a contended one may lose a count and still cannot bring a
settled challenge back.

**OtpRateLimit** (`OtpRateLimitProofs`): `LimitTypeOK`, `LimitsHold`,
`CountersExpire`. `LimitIInv` adds `MemoryKnown`, `TtlKnown` and `PlaceKept`: between
INCR and EXPIRE the creator of a counter is not counted as admitted yet,
and the limit must hold its place free while others are admitted.

**NotificationWorker** (`NotificationWorkerProofs`): `TypeOK`, `OneWorkerPerJob`,
`DeliveryAccounted`, `AttemptsCounted`, `RemindersCounted`. The argument counts
rights. `Entitled(j)` is the number of workers inside a job plus the one a free lock would
admit; it is at most one more than the locks that expired too early
(`LocksCounted`). For a row, or a reminder, `Balance` says: as long as the database does not know that
it was done, the times it was done and not merely held for a commit, plus everyone entitled to do it once
more, stay within `1 + redo`; once the database knows, those who still have it
in their batch do. A crash that finds a held delivery turns it into one of `redo`, so the sum does not change;
one that finds none changes neither.
`Exact` is the same for one worker alone: without an overrun what it loaded is what the
outbox says, hence the attempts are counted one by one.

**Checkout** (`CheckoutProofs`): `TypeOK`, `NoOrderForgotten`, `SuccessIsReal`,
`SecondTicketExplained`, for any number of types, calls, clicks, tokens and faults.
`IInv` says where a call that buys is between the creation and the completion of
its order (`Carries`: after each call and answer, whether there is an order, whose type it
is and how far it got), that no two calls carry one order (`OrdersApart`), that a completed order is
shown or still carried (`Reported`), that a holder of a ticket never reaches the form unless
the page was mounted without a token (`HolderKept`: the check is under way, or found the
ticket), and that without crossing clicks and faults at most one purchase is under way and none
after a completed one (`OneFlow`). Most steps put one call into one slot
and change no order; `JobStep` proves the whole invariant for such a step from four
conditions (`Calm`, `Carried`, `HolderKeeps`, `FlowKept`), and each action proves those.
The steps that do change an order, and the closing of the dialog, which changes all calls, have
proofs of their own.

**EventEditor** (`EventEditorProofs`): `OneEventPerForm`, `SavedMeansStored`, `CopyIsCurrent`,
`SavedFormIsCurrent`, for any categories, starts, edits, submissions, uploads, calls and faults. `IInv` has four parts.
`Shape`: which calls a page makes, and that they are about events that exist. `OneForm`: without
failing calls and the prompt one submission is under way and nothing is stored for it yet, or it is
answered and its event is the only one. `SaveKnown`: one save is under way, it carries the form as
submitted, and what its calls so far have done is what the server holds (`FieldsStored`,
`SessionsStored`). `CopyKnown`: without failing and overlapping calls at most one call that answers with the
event is under way, its answer shows the files as they are, a new event is untouched until the page knows of
it, and the page's own copy is current or about to be replaced. The values of the fields
do not matter, so `TypeOK` says that *some* set types them all; it grows with what the user
enters and with the sessions the server sorts. A step that puts one call into one slot is proved
once (`JobStep`); executing a call is one of four things (`Untouched`, `Created`, `Rewritten`,
`ReadBack`, lemma `Executed`), and each part of `IInv` is shown for those.

`SavedFormIsCurrent` has a layer of its own over `IInv`: `RowsTyped` (the rows of the form, and the sessions
that are stored or about to be loaded, are starts) and `FormKnown` (unless `reread` is noted, no load overlaps
a save, the form under a save is what was sent or was edited since, and from the report
on the form and every answered load show the stored event). A load after the save puts the *sorted*
sessions into the form, which must then count as the same: `StoredTwice`, sorting what is sorted changes
nothing. `Stored` is therefore defined by rank (the k-th session is the earliest start by which k have
begun, `Begun`), and `StoredBegins` says that the k-th stored session has begun at a time exactly when k
sessions have; from it the lemma follows by counting, without an induction over the rows.

**ClientPages** (`ClientPagesProofs`, about `ListPages`, `AdminPanel` and `CheckIn` together):
`ShownIsCurrent`, `DoubleCallExplained`, `ErrorExplained`, `NoticeIsForTheCode`, `PausedScannerExplained`, for
any number of rows, clicks, tokens, calls and faults. A page is in one of two regimes: an open page satisfies
`PageInv`, and on every other one nothing but the lists, the report or the desk ever moves. `Shapes` says which calls
each page makes and with which part of a handler they stand. `OneHeld` says that, until `released` is
noted, one call that set `busyId` is under way at a time, and `busyId` stays set meanwhile; from it follows
`DoubleCallExplained`. `Room` keeps a place for rows that are still to be created, `Tables` says where rows come from and go to.
`Errors` says that a call for a row that the page showed as it was will be accepted, as long as it is
the only one for the row. `Shown` is the heart: when no list is being loaded, none was applied too late (`outrun`) and the copy of a row
differs from the server's, some call *covers* the row: the server has executed it, and its answer
will replace the row by what the server holds or load the list again. At rest no call is left, so nothing differs.
Clicks, answers and the server's steps each change one slot, and are proved by one lemma each (`SentKeeps`,
`AnsweredKeeps`, `RanKeeps`) from conditions that every handler shows for itself.

This proof corrected its property. `ShownIsCurrent` used to name only failures and older lists; the step that answers
a toggle on the administrator's page could not be proved, and three clicks refute it (a row, another row, the
first row again). The run allowed two; it now has the third (`Allowed`), and the property its excuse.

**Proved and not in a run**: every `TypeOK` above and `LimitTypeOK`, `UsesNeverOverstated`,
`NotifiedAfterCommit`, `ChainPointsForward`, `CountersExpire` and `NothingOversold`; the proofs cover every
instance, so the runs spend their time on what is not proved. Each inductive invariant was
checked by TLC on its run's instance before it was proved.

**Model-checked only**: the liveness properties (`RequestsEnd`, `PromiseSettles`,
`RowsSettle`, `BlockEnds`, `CheckoutSettles`, `EditorSettles`, `PagesSettle`,
`ListEndReached`), which are out of the prover's reach, and so is the
fairness inside `Spec`; `MonthlyTotalsAgree`, a fold over the rows
of the report, whose totals need an induction over data.

## 6. Not modelled

Discount arithmetic and amounts; normalisation, hashing and message texts; ownership and
profile checks of the server (guards without state); the retry of the API request that met a 401;
the reminder window's width in wall-clock time (a worker down for longer than two minutes misses
reminders); KPI roll-up and tracking, files, media and object storage, logging, metrics, the general
rate limit; pages and primitives that only read or render.

Server components that have hazards and no module yet:

- *Catalogue and index*: an index update that outlives its 3 s goes on in a thread, so updates
  of a publication and a cancellation may end in either order (`event_service.py:37`); both pass on
  what they read (`:229`); replacing sessions deletes rows orders refer to (`:219`); soft deletion
  removes the index entry before its commit (`admin_service.py:66`); the home sections are cached
  for 300 s (`home_service.py:173`).
- *Community*: two reviews recompute an average from reads that do not see each other
  (`review_service.py:49`); two users claim one profile (`instructor_service.py:21`).
- *Administration*: an action and its audit entry are two commits (`routers/admin.py:77`); moving
  categories can make one its own ancestor (`admin_service.py:102`).

## 7. Plan

Done, in this order: orders and their abstract specification, refresh tokens, the
browser's session, the notification worker, one-time codes, their rate limit; then checkout,
the event editor, the list pages, the administrator's page and the check-in desk; then the
proofs of section 5.

1. *Event catalogue* and *community and administration*, as listed in section 6.
2. *Discount arithmetic* against a reference definition over bounded amounts.
