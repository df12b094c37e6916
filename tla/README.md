# A2Z Core: a TLA+ model

A2Z Core is a multi-tenant business platform: a set of shared services ("Core":
membership, settings, email, secrets, storage, audit, events, rate limits,
realtime) and two products on top of them, an Omni-Channel inbox and Invoicing.
This directory models the parts in which concurrency, retries and failures decide
whether the program is right, checks them with TLC on small instances, and proves
the central safety properties with TLAPS for every instance.

Paths below are relative to `src/app/`.

## The system

One process runs one asyncio event loop: the FastAPI application and, as a
background task (`main.py:38-58`), the Omni-Channel worker. Code between two
awaits is atomic; everything else interleaves. State lives in Postgres (READ
COMMITTED, no row locks on reads, SQLAlchemy sessions that write only changed
columns), DynamoDB, SQS (30 s visibility, redrive to a dead-letter queue after
five receives), S3, Secrets Manager, and, for rate limits, realtime
subscriptions and caches, in the process itself.

| Component | State | Operations | Talks to |
|---|---|---|---|
| Omni-Channel outbound (`services/omnichannel/handlers.py`, `worker.py`, `queues.py`) | `messages` rows, outbound queue | `send_reply`; `process_outbound_batch`; `_apply_delivery_status` | SQS, providers, event bus, realtime |
| Omni-Channel inbound (`webhooks.py`, `worker.py`) | inbound queue, `messages`, `channel_identities`, `conversations` | `handle_webhook`; `process_inbound_batch` | SQS, S3, routing, event bus, realtime |
| Routing (`routing.py`, `inbox.mark_read`) | `conversations.assigned_user_id`, `unread_count`, `conversation_assignments`, routing settings | `claim`, `reassign`, `apply_single_assignee_if_configured`, `set_routing_config`, `mark_read` | settings, audit, event bus, realtime |
| Inbox reads (`inbox.py`, `media.py`) | none of its own | `list_conversations`, `get_conversation` | Postgres, signed-URL cache |
| Event streams (`stream.py`) | one queue per connected browser | `stream_events` | realtime broker |
| Connections (`connections.py`, `webhooks.py`) | `channel_connections` | `create_connection`, `disable_connection`; looked up by webhooks and worker | secrets, email (domains), audit |
| Adapters (`adapters/`) | none | `normalize_inbound`, `interpret_delivery_webhook`, `send_outbound` per channel | Meta Graph API, email, SNS |
| Invoicing (`services/invoicing/`) | `invoices`, line items, payments | create, update, send, record_payment, void, soft delete | settings (numbers), email, S3, audit |
| Rate limiter (`core/rate_limit.py`) | a deque of timestamps per (org, action) | `check_and_increment` | called by send_reply and email |
| Realtime broker (`core/realtime.py`) | `_subscribers` | `publish_update`, `subscribe`, `get` | called by worker, routing, streams |
| Email (`core/email.py`, `routers/ses_notifications.py`) | event rows and suppression list in DynamoDB, configuration sets known to the process | `send_email`, bounce and complaint hooks, `unsuppress_email`, `start_domain_verification` | SES, SNS, rate limiter, audit |
| Membership (`core/membership.py`, `dependencies.py`) | user, organisation and membership items in DynamoDB; users known to the process | `current_user`, `create_org`, `add_member`, `change_role`, `remove_member` | audit, events |
| Settings (`core/settings.py`) | DynamoDB item per org, with the invoice counter | get, set, `get_next_invoice_number` | audit, events |
| Secrets, caches (`core/secrets.py`, `core/cache.py`) | Secrets Manager, and a TTL cache in the process | `get_secret`, `put_secret` | called by connections, webhooks, worker |
| Audit, events, storage, HTTP layer, infrastructure | - | single calls, parsing, provisioning | - |

What is hard here, and what a test hardly reaches:

* **Redelivery.** SQS and the providers repeat what was not acknowledged, and so does the
  AWS client: after a lost answer it makes a request again, four times in all at most
  (`clients.py:41-45`). The worker must not send without bound, count twice, or announce
  twice, and must not lose what it acknowledged.
* **Failure between two effects.** Commit then enqueue, send then commit, commit then
  event, email then commit: there is no outbox, so each gap has its own consequence.
* **Stale rows.** Handlers read, decide and write back without locks; only the
  changed columns are written, which saves some races and not others. The worker's
  session keeps what it loaded for a whole iteration (`db.py:33`), and DynamoDB's reads
  may be behind its writes.
* **Order.** Delivery statuses come in any order; realtime queues overflow; the
  inbox is reordered while it is being paged through.
* **Remembered facts.** The process remembers secrets, configuration sets and users it
  has seen; each may be remembered too early, or too long.
* **Edges.** The boundary of the rate limiter's window, rounding of `retry_after`,
  NULL timestamps, negative totals, payloads that mix messages with receipts.

`PROJECT.json` lists each of these hazards at its line with the properties that cover
it.

## Modules

| Module | Models | Checked by | Proofs |
|---|---|---|---|
| `Outbound` | replies, from the API to the provider and back | `MCOutbound` | `OutboundProofs` |
| `Mailbox` | what `Outbound` promises, abstractly | through `Outbound` | `OutboundProofs` |
| `Inbound` | webhooks and the worker's inbound iteration | `MCInbound` | `InboundProofs` |
| `Intake` | what `Inbound` promises, abstractly | through `Inbound` | `InboundProofs` |
| `Routing` | one conversation: assignment, history, unread counter | `MCRouting` | `RoutingProofs` |
| `Inbox` | paging through the conversation list | `MCInbox` | `InboxProofs` |
| `Thread` | scrolling back through a thread, URLs of attachments | `MCInbox` | `InboxProofs` |
| `Invoicing` | one invoice under concurrent requests | `MCInvoicing` | `InvoicingProofs` |
| `RateLimit` | one sliding window | itself | `CoreProofs` |
| `Realtime` | broker and event streams | `MCRealtime` | `CoreProofs` |
| `Email` | `send_email` against bounces, complaints and restarts | `MCEmail` | `EmailProofs` |
| `Channels` | connections, their secrets and the cache in between | `MCChannels` | `ChannelsProofs` |
| `Adapters` | what the adapters make of payloads and answers | `MCAdapters` | `ChannelsProofs` |
| `Organisation` | provisioning, membership, settings, invoice numbers | `MCOrganisation` | `CoreProofs` |
| `Orm` | what a commit writes of a row loaded earlier | through `Routing`, `Invoicing` | theirs |

`Routing` and `Invoicing` extend `Orm`; `Outbound` instantiates `Mailbox`, and
`Inbound` `Intake`, with a refinement mapping. `RateLimit`, `Realtime` and `Organisation`
share nothing; the latter two prefix the names every module has (`RealtimeSpec`,
`OrganisationSpec`) so that `CoreProofs` can extend all three. For the same reason
`Adapters` has `AdaptersSpec` (`ChannelsProofs` extends it and `Channels`) and `Thread` has
`ThreadSpec` (`InboxProofs` extends it and `Inbox`). `Inbound` and `Outbound` share the worker
task in the code: it alternates between an inbound and an outbound iteration, so
the two never interleave within an iteration. Each module keeps the part of the
other it can observe: in `Outbound` a delivery status, which an inbound iteration
applies, is a step the worker takes only when it is idle; in `Inbound` the routing
of a new conversation is one step whose inside is in `Routing`. The outcomes of the
adapters in `Inbound` and `Outbound` (a parsed payload or an exception, a send that is
accepted, refused or unclear) are the ones `Adapters` computes, a signature that
verifies or does not is a reader's step in `Channels`, and the connection that
`Outbound`'s `LoadContext` may find or miss is `FindConnection` there. `Invoicing`
starts from the draft that `create_invoice` commits in `Organisation`.

Definitions whose comment begins with "Mutant:" are not part of a model. Each is a
variant of the definition that follows it with a plausible mistake in it; put in its
place, it makes the property named in `PROJECT.json` fail, which shows that the
property depends on that piece of the code.

### Outbound

A request and the row it inserts share a name. `req` and `answer` are what the
client sees; `status` and `extId` are the row; `queue` and `receives` are SQS, by SQS
message (`Posts`, each for one row): the AWS client repeats a `send_message` whose answer
is lost, so that one enqueue may leave several, and each has a receive count of its own.
`step`, `cur` and `batch` are the worker. `send_reply` is split at its awaits:
lookup of the key, commit (where the partial unique index decides a race),
enqueue. The worker's iteration is split the same way: load, send, record or give
up, publish, delete. The worker does not look at a row's status before it sends, so each
SQS message is sent. An email goes to SES, where again a repeated request may be accepted
each time, under ids of which the adapter sees the last: one `send_outbound` adds up to
`MaxAttempts` accepted sends. A send that raises may still have been accepted (a timeout, or
a 200 with a body the adapter cannot read). `IterationFailed` is any other exception, and
`Crash` a process restart; both may come between any two steps. A delivery status is for
the accepted send whose id the row has and may come at any time after it, any number of
times, in any order: that is all the guarantee the inbound queue gives.

`Mailbox` is what a client of the inbox may rely on, in three variables: a status that
is shown, where the letters of a reply are, and how often each was sent. A reply is kept,
then posted in one go, as one letter or as several. A letter is sent at most `MaxSends`
times, only while it is posted; it is settled only when it was sent and its reply shows
more than `queued`; otherwise it is dropped (no connection) or abandoned to the dead-letter
queue; and after the last letter has left only the provider's reports move the status,
upwards or to `failed`. `Outbound` implements it with `shown` as the row's status, letters
as SQS messages, `MaxSends` as `MaxReceiveCount * MaxAttempts`, `sends` as the accepted
sends, and `place` as the queue state with the receives, timeouts and batches hidden. How
many letters a reply may become, only the AWS client bounds.

### Inbound

A webhook call and its SQS message share a name; the provider's retry is another
call whose payload overlaps, and a `send_message` that the AWS client repeats is, for the
worker, another call with the same payload. "Announced" counts calls of `publish_event`: a
PutEvents that the client repeats puts the event on the bus twice. `InsertMessage` is everything up to the flush that the
unique index may refuse; a duplicate rolls the session back and the loop goes on.
Every message is taken to have an attachment. The commit, the routing of a
conversation that was new, and the announcement follow in the code's order.
`interrupted` records the messages whose iteration failed after their commit.

`Intake` is what the provider and the agents may rely on. A call that was taken in is kept;
its messages enter the inbox one by one in the order of the payload, each once, out of a
call that is kept, and each counts as unread; a call is settled only when all of its
messages are in the inbox, wherever they came from, and otherwise given up to the
dead-letter queue; only what is in the inbox is announced, and once. `Inbound` implements
it with `inbox` as the stored rows that have their conversation and attachments, `place` as the queue state without visibility, and
receives, batches, uploads, rollbacks and failed iterations hidden. `AckedIsKept` (what
was acknowledged is kept or stored, and rows point at nothing missing) is part of what that
says. It also says that while a message in the middle of a payload cannot be stored,
those after it stay out of the inbox.

### Routing

Handlers are a load, which fixes what they will write, and a commit, which writes
it (`Orm`). The worker has one session per iteration, whose objects do not expire at a
commit (`db.py:33`): `held` says that it has the conversation, `copy` what it believes of
it, and `InboundLetGo` is the end of the iteration. So the second message of a payload
counts on from the unread counter the first one left, and the routing of a new
conversation is computed from the worker's own copy. `crossed` tells whether a `mark_read`
was ever in progress while the worker was at work on the conversation, `overlapped` whether
any two handlers were: properties that hold only without say so.

### Inbox

The table may hold any rows at the start; during a walk messages arrive, with
timestamps that never go back but may be equal. A page is described by what the
query guarantees: the first rows, in the ORDER BY order, of those that satisfy
`_cursor_predicate`. SQL's three-valued logic is in `CursorPredicate`: a
comparison with NULL is not true.

### Thread

`get_conversation` reads a page, and then signs and answers it; between the two messages
commit, time passes and the process may die. A message gets its `created_at` when its
transaction begins and is there when it commits, so messages appear in any order. The
`before` cursor names the oldest message of the last page. A URL is the tick at which it was
signed and the one at which the credentials that signed it end: they are a session of the
task's role (`clients.py:10-11`), of which something in `Sessions` is left. `urlCache` is the `TTLCache` of `media.py`, shared by every reader of the process
and empty after a restart, and `served` remembers the URL of each attachment that was handed
out last. Database, cache and S3 are taken to have one clock. The messages of `Attached` have an
attachment, of their own organisation; for another's the function raises. `Inbox` and `Thread`
share no state: in `MCInbox` a behaviour has either a walk through the list or one through a
thread.

### Invoicing

`Init` is any draft that `create_invoice` can commit. Line items are sets of
(generation, amount): an edit replaces the lines it has loaded by one new list, and two
edits that overlap leave both. Tax and discount enter the total alike and are
one column. Payments are their sum (`ledger`) and their number per key.

### RateLimit and Realtime

`RateLimit` counts time in ticks finer than a second, because `retry_after` is
rounded up to whole seconds. `Realtime` names an update by its position in the
history of publications; a stream's `get` may be woken, may find an update at once, or
may be cancelled by the heartbeat even in the moment an update arrives. Between its loop's
rounds the generator is suspended at its `yield` (`"yielded"`), for as long as the browser
does not read (`Resume`).

### Email

One organisation and one service, so one configuration set. A call of `send_email`, the
message SES accepts, its event row and the report SES may raise share a name.
`send_email` is split at its awaits: create the set, attach the destination (the set is
remembered only after both), check the suppression list, send, record the event, audit.
The AWS client may repeat each write: SES then accepts a message up to `MaxAttempts`
times, also when the call raises, and the `put_item` of `_record_event`, `_suppress` and the
update of `_set_event_status` may be made again after other steps (`"repeat"`). The check is
an eventually consistent `get_item` (172-176): `readable` holds what it may return, which
`Converge` narrows to the last write. SNS posts a notification at any time,
again after it was acknowledged, or never; the hook is split at its awaits too (resolve
the organisation by the event row, suppress, mark the row, announce) and may fail at each.
`late` holds the calls that began when their address had a handled report and no read of
the list could miss it any more.

### Channels

A secret is the number of its version. `create_connection` with raw credentials writes
one under the connection's new id, with a key it looks that one up through the cache, and
for email asks SES for the domain; only then is the row inserted. The key is any of the
organisation's, another connection's id among them (`connections.py:186-188`). Readers are webhook
calls and worker iterations, which find an active row and then read its secret: from the
cache, or from Secrets Manager, with an answer that takes up to `MaxLag` ticks to arrive
and is cached when it does. Secrets are rotated by `put_secret` (write, then drop the
cache entry) and by engineers behind its back, who may also delete them (`gone`): a lookup
may still be answered by the cache then.

### Adapters

The walks over `entry[]`, `changes[]` and `messaging[]` are one operator, `Walk`; a
payload is what they look at, and a missing key is a model value, so that an `[...]`
access that raises and a `.get` that does not are told apart. `AdaptersAssumption` names the
shape of the payloads of each channel: lists of any length, with any keys missing.
`MessagesOnceInOrder` compares messages, receipts and attachments with a reference that
looks at positions in the payload, without walking it. The parts of an email are what
`walk()` yields: containers, a forwarded message among them, and then what is in them. An
id may be empty. What a send comes to (`EmailSend`, `ExtractSendId`) is the choice that
`Outbound` makes with nothing known of credentials and answers; it has no property of its
own.
`SmsAdapter` is modelled but not registered, as in the code.

### Organisation

A request authenticates (which may provision its user), passes the role gate where a route
has one, commits one mutation, and appends its audit event; it may raise or be cut off
between any two. `change_role` and `remove_member` have no route and are left ungated, as
they stand. The AWS client's standard retries (`clients.py:41-45`) may apply an update up
to four times: `get_next_invoice_number` adds `k` in `Attempts`, and `RepeatUpdate` is
`change_role`'s second attempt. Not modelled are the repeats of `add_member` (which then
reports a member who was already there), of `remove_member` (which may take away a row
added since) and of a settings edit; see the observations. The number of a request is kept also when it fails.

## What the runs check

| Run | Properties | Distinct states |
|---|---|---|
| `outbound` | `BoundedSends`, `HonestStatus`, `IdempotentReplies`, `StatusRegressesOnlyOnResend`, `ImplementsMailbox`, `EventuallyOffTheQueue` | 0.26 M |
| `inbound` | `OnceEach`, `AnnouncedUnlessInterrupted`, `ImplementsIntake`, `EventuallyOffTheQueue` | 0.1 M |
| `routing` | `AssigneeInHistory`, `UnreadCovers`, `SerialAssignment`, `NeverUnassigned` | 3.0 M |
| `inbox` | `PagesInOrder`, `WalkComplete`, `ThreadIsRead`, `UrlsLastAndAreShared` | 2.5 M |
| `invoicing` | `NoMoneyInvented`, `CollectedWasEmailed`, `SerialConsistency`, `SerialLifecycle` | 1.4 M |
| `rate_limit` | `WindowBound`, `NoFalseRejection`, `RetryAfterExact` | 0.9 M |
| `realtime` | `RegistryExact`, `FeedInOrder`, `LostOnlyWhenBehind`, `QueuedIsRelayed` | 0.41 M |
| `email` | `NoMailToReported`, `SendsAreTracked`, `EventLifecycle` | 4.5 M |
| `channels` | `NoHalfConnection`, `SecretInUseIsRecent`, `FreshAfterPut` | 1.1 M |
| `adapters` | `MessagesOnceInOrder` | 27 k |
| `organisation` | `ProvisionedHaveRows`, `OwnedFromTheStart`, `AuditReplaysMembership`, `NumbersRise` | 1.9 M |

`HonestStatus` joins three facts about the row: what is shown as sent was accepted under
the stored id, what is shown as failed was exhausted or reported so, and what the worker
deleted shows more than `queued`. `OnceEach`, `NoMoneyInvented`, `PagesInOrder`,
`ThreadIsRead` and `UrlsLastAndAreShared` are conjunctions of the same kind. `AckedIsKept`
(in `Inbound`) follows from the refinement and is not checked once more; it has a theorem.
What the properties leave out, for it does not hold, they name: `UnreadCovers` is exact only
while no `mark_read` crosses the worker's iteration, `NoMailToReported` is about calls that
begin when reads of the suppression list have caught up, `OwnedFromTheStart` exempts what
`change_role` and `remove_member` do to the owners, and `ThreadIsRead` what commits late.
Deadlock is checked for `email`, `channels` and `adapters`, which never stop;
the other models have a bound (payments, messages, ticks, requests) at which they do, and
a queue that has been drained is a legitimate end.

Bounds and why they are enough:

* `outbound`: two requests with one key, so that a retry races its original, and the
  row of the first posted once or twice, so that two SQS messages share a batch and a row;
  two receives, so that a message can be sent, fail or be lost once, be redelivered, and be
  exhausted; up to two acceptances per send. The code's limits of five and four add
  repetitions of the same states.
* `inbound`: two overlapping payloads of two messages, two customers, two receives.
* `routing`: one agent, one member who may only be assigned to, two API sessions
  and the worker, two messages, three assignments: every pair of handlers overlaps.
* `inbox`: four conversations, page sizes 1, 2 (the default) and 3 (the maximum, asked
  for as 9), timestamps up to 3: ties, NULLs and at least three pages occur.
* `inbox`, thread: three messages, page sizes 1 (the default) and 2 (the maximum, asked for as
  9), a TTL of two ticks under an expiry of three, four moments, one restart, one attachment,
  and credentials that end before the TTL (1) or after the expiry (4): ties, late commits, up
  to three pages, hits, misses, expired entries and URLs that died early occur.
* `invoicing`: two sessions, payments of one or two cents against totals from zero
  to two, a negative adjustment, two edits, two emails.
* `rate_limit`: a limit of three, a window of six ticks, three windows.
* `realtime`: two streams with a shared channel, queues of two, four updates: a
  queue overflows while the other drains.
* `outbound` takes one status of each kind the rank check tells apart (on the ladder
  next to `sent`, at its top, and off it): `delivered` behaves as `read` does.
* `email`: two emails to one address, so that one is in flight while the other bounces;
  both report kinds, any number of repetitions, restarts and lifted suppressions; two
  attempts of the AWS client per send.
* `channels`: two calls of `create_connection`, out of two connections with credentials or
  a key and one for email; a key provisioned out of band; two readers; one secret that is
  rotated or deleted once; a TTL of two ticks and a delay of one.
* `adapters`: two entries of up to two events, or of a change with up to two messages
  and a status; MIME messages whose walk has up to three parts, containers among them; every
  missing key, and empty ids.
* `organisation`: four requests, two users, numbers up to three: an organisation is
  created and a member added, then two requests race.

Symmetry is used only where just safety is checked: sessions (`routing`, `invoicing`),
emails, readers, and requests and users (`organisation`).

### Fairness

`Outbound` and `Inbound` assume weak fairness of the worker's steps, because
`run_forever` catches every exception and loops (`worker.py:531-543, 562-572`); of
receiving, because SQS delivers a visible message sooner or later; and of the visibility
timeout. They assume nothing of clients and providers, and nothing of
how often a step fails: the receive count bounds the retries. `Realtime` assumes
weak fairness of each stream's steps but `Resume`: the event loop runs a task that can run,
but a generator at its `yield` runs only when the browser takes what it was sent, and one
that stalls may never do so. `QueuedIsRelayed` is therefore about streams that are not at
the `yield` for ever; the heartbeat may race with every wake-up. The other modules state safety only: their
components are requests that may always fail.

## What the runs refute

`reply_lost_after_commit` states what the repository says of itself and finds it
violated: `handlers.py:56` says a reply is persisted *and* enqueued. Commit, failed
enqueue, and a retry under the same key is answered with a message that no queue holds.

### Observations

Met while modelling, outside the runs:

* `worker.py:247` calls `failed` terminal; its rank of -1 lets any later status
  replace it.
* `worker.py:67-72` says a message in the dead-letter queue is marked failed. An
  iteration that fails on the last receive before the send leaves it shown as queued.
  The threshold is said to be "read from one place", but
  `omnichannel/aws_resources.py:28` has a constant of its own.
* A reply that finds no active connection is deleted from SQS and stays `queued`
  (`worker.py:397-399`); `Drop` in `Mailbox` is that case.
* `state_machine.py:6` says "no backtracking"; an edit that raises the total
  takes a paid invoice back to `partially_paid` or `sent`.
* A reply that the worker finds posted twice is sent for each SQS message, on each receive,
  and by email once per request of the AWS client that SES accepts: what a customer may get
  is bounded by the product of the three. Later deliveries overwrite the row's
  `external_message_id`, so that reports on the earlier ones find no row.
* A second message of a customer in one payload counts on from the worker's own copy of
  `unread_count` (`db.py:33`, `worker.py:177`): a `mark_read` committed in between is undone,
  and the badge counts messages that were read.
* `media.py:51-53` says a cached URL stays "valid for at least" what is left of its expiry.
  It is signed with the credentials of the task's role, and dies with them
  (`clients.py:10-11`), which the cache does not look at.
* Concurrent payments may lose one from `amount_paid_cents`; two claims may both
  succeed. `NoMoneyInvented` and `AssigneeInHistory` say what holds regardless.
* "`void` is terminal" (`invoicing/models.py:46-47`) holds for requests that do not
  overlap (`SerialLifecycle`). A send, payment or edit that loaded the invoice before it
  was voided writes the status it derived then (`service.py:237, 300, 348`).
* "single-assignee must never override" a claim (`worker.py:180-182`): the worker
  assigns a new conversation from its own copy after the commit (`routing.py:186-195`),
  over a claim made in between.
* "Both directions treat NULL as sorting last" (`inbox.py:175-178`): the ascending
  cursor predicate (187) leaves NULL rows out, so a walk of more than one page ends
  without them. `WalkComplete` names the exception. No handler commits such a row today.
* `created_at` is `now()`, the start of the transaction (`omnichannel/models.py:187`): a
  message whose transaction was open while a client scrolled past its place is missing from
  that walk, and shows when the thread is opened again. `ThreadIsRead` is about the
  messages there were at the start.
* A bounce that arrives before `_record_event`, after its failure or after the row has
  expired finds no organisation; the hook answers 200 and the report is lost. So does one of
  an email that a repeated request had SES accept under another id: its address is not
  suppressed. Transient bounces suppress an address like permanent ones.
* A repeated `put_item` of `_record_event` makes a row the hook has marked bounced `sent` again
  (`email.py:423-425`). `_is_suppressed` reads without `ConsistentRead`: an email right after a
  handled report may still go out. Both are behaviours of `Email`.
* A repeated PutEvents puts an event on the bus twice.
* The webhook of an email connection always fails: its secret key is empty. Email
  arrives by the SES receipt pipeline instead (`adapters/email.py:10-14`).
* `create_connection` does not look at the keys of the credentials it is given; an
  incomplete bundle shows at the first send or webhook. The secret key it is given may be
  another connection's id, which `ConnectionView` shows, and the check may be answered by the
  cache after the secret was deleted: `NoHalfConnection` claims no more than that the secret
  has existed.
* An empty message id passes the parsers (`whatsapp.py:154`, `email.py:96`). One email to
  addresses of two organisations has one SES id, so that under `uq_message_idempotency`, which
  has no organisation, the second copy counts as a duplicate.
* A forwarded message is no attachment of the email it is in (`adapters/email.py:209-210`);
  the files in it are, and its text may become the body.
* `worker.py:105-110` says parsers ignore payloads of another shape;
  `EmailAdapter.normalize_inbound` raises `KeyError` on a delivery event. A 2xx without
  JSON leaves `send_outbound` as `JSONDecodeError`, although `_meta.py:116-122` wants
  every unexpected body to be a `ChannelAdapterError`. An email that is a single
  attachment becomes its own body. `SmsAdapter` returns a failure instead of raising it,
  which the worker would take for a send if SMS were registered.
* `get_next_invoice_number` promises "no gaps"; a failed insert, and a repeated ADD,
  leave one. `next_invoice_number` is the last number given: setting it to 100 makes the
  next invoice 101, and a value that is not a number makes every later ADD fail. A settings
  edit that the AWS client repeats sets the counter back past numbers given in between.
* If the AWS client repeats `change_role`'s update, `ALL_OLD` is the new role and the
  audit event says nothing changed; a repeated `add_member` reports that the member
  already exists.
* `get_audit_events` applies `Limit` before its filter and may return too few events.
* `set_routing_config` rewrites the whole metadata map it read: a concurrent change
  of another key is lost.

## What is proved

TLAPS checks the theorems of the `*Proofs` modules for every value of the constants
that satisfies the modules' assumptions: sets of any size, limits at least 1.
The bounds that exist for TLC are arbitrary naturals, and no proof relies on them.
Each component has an inductive invariant (`IInv`; `RealtimeIInv`, `OrganisationIInv` and
`RateLimitIInv` in `CoreProofs`, `ThreadIInv`, and `HandledInv` of the adapters), which TLC has also checked with the run's constants. The
initial predicate implies it, every step keeps it (one step or lemma per action), and the
properties follow from it. Every property of the runs has a theorem but those listed below
as only model-checked.

* `OutboundProofs`. `BoundedSends` is not inductive: it needs the link between sends and
  receives, `accepted[p] <= MaxAttempts * receives[p]`, and one receive less while `p` is
  waiting for its send in the batch. `HonestStatus` needs that the message being recorded has been
  accepted once, and what the worker knows at the step `delete`; `IdempotentReplies` that
  rows, and so queue entries, under one key are one; `StatusRegressesOnlyOnResend` is the
  action property from the same invariant. `SpecImplementsMailbox` is the refinement:
  `Init` maps to Mailbox's, and, from the invariant, each action to one Mailbox action or
  to a stutter (`StepIsMailboxStep`, one step per action).
* `InvoicingProofs`. The invariant says what a pending UPDATE holds, per handler:
  a payment writes at most its own amount over what is on record, a status in hand is
  one the loaded row allowed. Without overlap it relates the one pending
  request to the row it loaded, which has not changed since.
* `RoutingProofs`. What each session has in hand, again: an assignment in hand is
  never to nobody, so no commit unassigns; an increment in hand is at least one, and counts
  nothing that has not arrived. `UnreadCovers` also needs what the worker's own copy says of
  the row it keeps (`CopyInv`), and that until a `mark_read` crosses it the two agree
  (`CountInv`).
* `InboxProofs`. What the client has seen lies at or before the cursor, what
  it has not seen and did not move lies after it, with the exception of NULL rows in
  ascending order that `WalkComplete` names.
* `InboundProofs`. `AckedIsKept` is about a message that is deleted from SQS, so the
  invariant says for the payload in hand that each of its messages is stored or still to
  do (`PayloadInv`), and what a deleted message meant (`DeletedInv`). `OnceEach` needs
  what is known of the message in hand at each step (`HandInv`): before the commit it is
  not stored and the worker's belief about its conversation is right, after it nothing
  has been announced or routed. Counting rows needs that they are finitely many.
  `SpecImplementsIntake` is the refinement. It needs which message of its payload the one
  in hand is: what is left to do is the payload's tail, and everything before it is stored
  (`PayloadInv`); and that the payload in hand, and every one in the batch, is still kept
  (`QueueInv`), so that a message is stored out of a kept call, and a call that is deleted
  is done; and that every stored row is whole (`WholeInv`).
* `InboxProofs`, thread. The same division by the cursor, with a page in hand between the
  two (`PageInv`); that messages commit late does no harm, because what was read was
  committed and keeps its timestamp (`WalkKept`). For the URLs: the one handed out last in
  this life is the one in the cache (`UrlInv`).
* `EmailProofs`. `NoMailToReported` follows from the suppression list: a hook past
  `_suppress`, an acknowledged report and a call begun after one mean the address is on it,
  unless a lift intervened, and for such a call that every read finds it there
  (`SuppressedInv`), so that it ends at its check.
  `SendsAreTracked` needs that `confirmed` is never set without the destination
  (`TrackedInv`), across restarts. `EventLifecycle` is the action property.
* `ChannelsProofs`, adapters. What a loop computes, for payloads of any length. The induction
  is done without an induction theorem, on a set of counterexamples that has no least element
  (`Induction`), and the recursive functions of `FlattenSeq` and `WalkParts` are shown to
  exist (`Recursion`). The rank of a position in a payload, which the property counts, is
  the number of items before it (`RankCount`, `ListsNext`); flattening puts each item at its
  rank (`FlattenLists`), once for the units of an entry and once for the entries
  (`WalkLists`, `WalkCounted`). `MetaParsed` and `EmailParsed` say so of the parsers.
* `ChannelsProofs`, connections. `SecretInUseIsRecent` is a sum that time keeps: how long ago a cached
  version was replaced plus what is left of its TTL is at most the cap, and an answer under
  way is no staler than the time it has taken (`AgeInv`). `FreshAfterPut` needs that no
  answer older than `clean` is under way (`FreshInv`); `NoHalfConnection` what each step of
  `create_connection` has seen to (`RowInv`).
* `CoreProofs`, rate limiter. The deque is the sorted tail of the history of admitted
  calls, and what was evicted is at least a window old. `RetryAfterExact` also needs what
  rounding up does for every number of ticks in a second (`RetryAfterRounds`).
* `CoreProofs`, realtime. `Fed(M, a, q)` says of the updates `M` meant for a stream, what
  was relayed (`a`) and what is queued (`q`): both increasing, all relayed before all
  queued, every update newer than a queued one queued too, and every other one overtaken
  by `MaxSize` newer ones. Two lemmas about sequences carry the proof: `FedPut` (a put into
  a queue, full or not; a dropped head is overtaken by the whole queue, whose entries are
  counted by an injection) and `FedRelay`.
* `CoreProofs`, organisation. `AuditReplaysMembership` speaks only of users all of whose
  changes have their event. The invariant counts the changes that took effect, with or
  without their event so far, and is kept for as long as none was cut off or repeated
  (`Undisturbed`, `Balanced`): each commit adds one to both sides, because its condition,
  and `ALL_OLD`, come out of the same atomic write (`CommitCounts`, `CommitIInv`).
  `NumbersRise` needs that no number is above the counter until it is set back.

Only model-checked: liveness (`EventuallyOffTheQueue` of both queues and
`QueuedIsRelayed`), which is outside the prover's reach. Every invariant, action property
and refinement of the passing runs has a theorem.

## Plan

Every component with state of its own is modelled, and every safety property of one has a
proof. What could follow:

1. Lemmas that say of the steps of a handler, in `Routing` and `Invoicing`, which overlaps
   lose an update, so that the observations above are theorems too.
2. An abstract specification of an invoice that its requests implement when they do not
   overlap, as `Mailbox` and `Intake` are for messages.

## Not modelled

* Objects in S3 (`core/storage.py`): single calls, whose failures are raising steps of the
  other modules.
* Token validation (`core/auth.py`): one function of the token and the key set.
* Queries without a cursor, and search filters.
* PDF and email rendering, request schemas, the landing page, provisioning and migration
  scripts, logging and metrics: formatting and single calls without state of their own.
