# trusin: a TLA+ model of the webhook relay

trusin (crates and Redis keys still say *terusin*) receives webhooks over HTTP, stores
them in Postgres, queues their ids in Redis and posts them to a target, with retries,
manual replays, notifications, a live stream and a dashboard. The modules here model
the parts of the backend where several tasks meet: everything is in
`src/apps/backend/src/` unless another path is given.

## 1. Inventory

| Component | State | Operations | What is hard |
|---|---|---|---|
| Delivery engine: `webhook.rs` (`enqueue_event`), `workers.rs` (`worker`, `retry_worker`), `events.rs` (`retry_event`, `ack_event`, `delete_event`, `bulk_*`), `organizations.rs` (`retention_worker`) | rows of `webhook_events`, list `terusin:queue`, sorted set `terusin:retry` | ingest, pop, fetch, post, record, settle or reschedule, put back; replay, acknowledge, delete, expire | no lock on an event: ownership is "whoever popped the id"; decisions use a row read before the POST; errors of Redis and Postgres are dropped with `.ok()`; crashes, and clients that hang up between Postgres and Redis |
| Attempt timeline: `record_attempt` | `delivery_attempts` | append | one statement that locks, numbers and inserts; snapshot older than the lock |
| Event stream: `event_stream`; `trusin dev` (`src/apps/tui/src/main.rs`) | a cursor and a channel of 16 per connection | poll, send, mirror, reconnect | created_at is stamped before the transaction; a slow or disconnecting client |
| Account e-mails: `auth.rs` (`deliver_email`, `welcome_email_worker`) | `email_deliveries` | sign-up, claim, send, record, skip | leases of 15 minutes, senders without timeout, unguarded writes of the outcome, batches of 20 that rows nobody can finish may fill |
| Hook notifications: `forward_to_rules` | `hook_notification_deliveries` | select the hooks, check destination and URL, up to three attempts each, log | the list is read before seconds of sleeping; rules are edited meanwhile |
| Tenancy: `organizations.rs` | plan and subscription, trial end, monthly usage, domains | entitlement check, quotas, trial expiry, domain verification | check-then-insert limits, a counter at its limit, expiry in two places |
| Users and invitations: `users.rs`, `invites.rs` | `users`, roles, `organization_invites` | change a role; invite, mail, resend, revoke, accept | last-admin guard by a count; acceptance by an unconditional UPDATE; steps whose errors are ignored |
| Platform: `platform.rs` | operators, the plan of any workspace | bootstrap, provision, edit a subscription | a one-use endpoint without a lock; a row read and written back |
| Sign-in: `auth.rs`, `middleware.rs` | one-shot keys in Redis (OAuth state, captcha grant, passkey ceremony), identities, passkeys, API tokens | start, callback, `upsert_oauth_user`; ceremonies; create and revoke tokens | GET then DEL; three sign-in paths with one invitation; a counter raised in memory |
| Rules, destinations, routing: `rules.rs`, `destinations.rs`, `webhook.rs`, `send.rs` | `forward_rules`, `organization_destinations` | create, edit, move, delete; resolve host, rule, target | edits write the whole row back; lookup, then store; two lookups whose errors are swallowed; `*`, which is a wildcard in one place and a name in the other |
| Rate limiting: `ratelimit.rs` | in-memory GCRA state of the `governor` crate per address or user | admit or answer 429 | forgotten at restart, one per process, never shrunk |
| The rest: configuration, audit, statistics, AI helper, MCP server, terminal client, receiver, static server, dashboard, sites | little or none | | mostly queries and user interface |

How they interact: the ingest request commits the row and then pushes the id; workers
pop ids with `BRPOP`, the one retry worker with `ZPOPMIN`; both read the row, post it,
append to the timeline, update the row and either call the hooks or schedule a retry.
Admin requests do the same in the other direction, Postgres first and Redis second,
without knowing which task holds the id. The stream only reads `webhook_events`. The
e-mail worker looks at `webhook_events` to decide whether a workspace is active.
Admins edit rules, members and plans in requests that read in one statement and write in
another; ingest, workers and sign-ins read the same rows. `update_rule`, the expiry of a
trial and the acceptance of an invitation are where these meet.

What makes each correct: an id in one place at a time; no open event forgotten; a
bounded number of POSTs; one announced outcome; delivered rows stay delivered; a timeline
without holes; a stream without repetitions that misses nothing it could have sent; one
e-mail each, and one that is really sent; members who were invited, by an invitation that
was open when they joined; an admin in every workspace and one bootstrap of the platform;
no open invitation and no resource above its quota on the free plan; a plan nobody upgraded
stays what it is; an edit of one field leaves the others alone; an event goes where the
rules say and tells the hooks they name; a state key passes one callback, and a passkey's
counter only rises. Many of these hold only for requests that no other one overtook, and
the properties say which.

## 2. Modules

| Module | Models | Runs |
|---|---|---|
| `EventLifecycle` | abstract specification: what a row may go through when nobody replays it | implemented by `Delivery` |
| `RedisList` | LPUSH, BRPOP, LREM on sequences | used by `Delivery` |
| `Delivery` | the delivery engine with its faults | `delivery_*` |
| `AttemptLog` | `record_attempt` under concurrency; `Delivery` has it as one step that may be refused | `attempt_log`, `attempt_log_lost` |
| `EventStream` | the live stream and `trusin dev` | `event_stream`, `event_stream_gap` |
| `EmailDelivery` | account e-mails | `email_delivery` |
| `Handler` | the frame of an axum handler: local variables, one statement per step, requests interleaved | used by the next six |
| `Workspace` | plan and trial, members and roles, invitations, operators, `upsert_oauth_user` | by way of `SignIn` |
| `SignIn` | OAuth state and callback, composed with `Workspace` | `workspace` |
| `Routing` | rules, domains, API keys, destination, quotas, the event counter; ingest and manual send | by way of `Resources` |
| `Hooks` | `forward_to_rules`, on top of `Routing` | by way of `Resources` |
| `Passkeys` | passkey ceremonies and the signature counter | by way of `Resources` |
| `Resources` | composes `Routing`, `Hooks` and `Passkeys`; the properties | `resources`, `resources_wildcard` |
| `*MC` | instances for TLC | |
| `DeliveryProofs`, `OutcomeProofs`, `AttemptLogProofs`, `EmailDeliveryProofs`, `EventStreamProofs`, `HandlerProofs`, `WorkspaceProofs`, `ResourcesProofs` | theorems | |

Operators named in a comment as *Mutant* are deliberate defects next to the definition
they vary. Nothing in the specifications uses them; replacing the definition by its mutant
must make the property named in `PROJECT.json` fail, which shows that the property depends
on that line of the code.

### Delivery
One variable per column or key (`status`, `retries`, `logged`, `queue`, `retrySet`), the local
state of each task (`hand`: program counter, id, the retry_count it read, verdict), of each
ingest and admin request, and four history variables (`sent`, `accepted`, `hooks`, `dropped`).
Each action is the code between two awaits. Both kinds of delivery task share the actions of
`Deliver(h)`; they differ in where they pop, in whether a 2xx, 4xx or 5xx answer is followed by
the check for `delivered` (the retry worker always, a worker only after a transport error), and
in whether an event without target gets an attempt. A score of `terusin:retry` is abstracted to
whether the clock has reached it (`due`): nothing else in the code looks at it. `Answers`
groups status codes by `is_retryable_status`. `Faults` switches crashes, dropped Redis replies
and writes, failed Postgres statements and unresolvable hosts on, so that each property can say
what it survives. A client that hangs up is no fault and always possible: axum drops the
handler at the await it has reached. `AbandonIngest` is that between the COMMIT and the LPUSH
of a webhook, `AbandonAdmin` at any await of an admin request. Both strand the row if the LPUSH
was still to come; `dropped` holds those events, until a replay pushes them again.
`MAX_RETRIES` is a constant: the main worker compares with its environment and the retry worker
with the row's `max_retries`, which is the same number until somebody restarts the backend with
another one.

### AttemptLog
`Begin` takes the snapshot of the statement, `AcquireLock` the advisory lock, `Insert`
computes the number from the snapshot, inserts unless the UNIQUE constraint or the foreign
key refuses, and releases the lock. `beside` remembers which calls overlapped.

### EventStream
A clock, ingest transactions that stamp first and commit later in any order, one client
with a bounded channel. `Selections` are the answers Postgres may give to ORDER BY with
LIMIT when stamps are equal. `late` remembers the rows that became visible behind the
cursor. `Limit`, `Capacity` are 100 and 16 in the code.

### EmailDelivery
Rows of `email_deliveries` with `reached` (next_attempt_at) and `lapsed` (updated_at 15 minutes
old), the sign-in request that creates them and the worker with its loop. `overrun` and
`doubtful` remember why a second copy can be unavoidable. `Created` (created_at) and
`BatchSize` (the LIMIT, 20 in the code) decide what the worker's queries return: `Listed` is
the oldest of the rows that are `Due`. `Backlogs` are the sets of follow-ups of older accounts
that may be waiting at the start, each account with a welcome sent long ago; they compete for
the batch. `Stuck` are the rows the queries return and no claim or skip takes: a sender died
and the workspace became active meanwhile; `Crowded` those behind a batch full of them.
`MaxAttempts` bounds the failed attempts on one row and, in `Due`, keeps a row at that bound
out of the batch: a provider that refuses twenty e-mails for ever would crowd out younger ones
too, but for the fifteen minutes each of them waits between attempts. That a workspace loses
all its events again is left out.

### Handler
The modules below model request handlers. A request is a record `req[r]`: where it is
(`pc`), which operation it runs, the arguments, and what it has read (`saw`). An action is
one SQL statement or transaction, Redis command, e-mail or POST, together with the code up
to the next one; `Abandon` ends the request at any of them, because the client went away
(axum drops the future), a statement failed, or an input was refused. `auth_middleware`
reads the caller's row once, in `Enter`, so a handler runs with the role the caller had
then. The history variable `overtaken[r]` becomes true when another step changes what `r`
has read or will rely on while `r` is under way; `Overtake` sets it and each module says,
by `Concern` or `Reads`, what a kind of request relies on. The properties use it to separate what is
wrong in a single request from what a race does: *"the last admin goes only in a request
that was overtaken"* holds, *"the last admin never goes"* does not.

### Workspace and SignIn
`plan` is `plan_code` and `subscription_status`, `overdue` whether `billing_period_end` has
passed; `member`, `linked`, `invite`, `operators` are the tables `users`,
`user_oauth_identities`, `organization_invites` and the operator flag; `links` are the
invitation links that were mailed, each with the key (`token_hash`) it was mailed with.
`Expire`, `Sweep`, `Entitled` are `expire_trial_if_needed` and the check after it, shared by
the workspace page, `create_invite` and `resend_invite`; `ExpireOnIngest` is the same inside
`consume_event_quota`, as one step: the transaction is READ COMMITTED and an invitation may be
inserted between its UPDATE of the invitations and its COMMIT, but that one is left open
exactly as if it were inserted after the COMMIT, which the model has. `FindInvite` to `Found`
are the statements of `upsert_oauth_user`: a known identity, a known address, or a new person
who joins or founds a workspace. `stray` remembers invitations that a failed or overtaken
request left open, `passed` how many callbacks deleted a state key. Left out: a changed address
at the provider, the password login (configured, one user), captcha grants, billing dates.

### Routing, Hooks, Passkeys, Resources
`rule` holds providers and hooks as `forward_rules` does; a row inserted by a request bears
the number of the request, as a fresh UUID would. `ReadRule`, `ReadParent`,
`NativeAvailable`, `WriteRule` are the statements of `update_rule`, for an edit of one
field; `Completed` is its sequence of `unwrap_or`, `Refused` its checks. `ResolveHost`,
`Lookup`, `Store` are `handle_webhook` and the transaction of `enqueue_event`; that lookup
has no ORDER BY and takes an error for "no rule", and `Default`, the lookup of the default
target behind it, takes an error for "no target": the event is then stored with an empty one
(`None`) and its delivery fails at once. `failed` records which of the two queries failed.
Patterns are compared for equality, `Star` (`*`) like any other; only the manual send treats
it specially, in `SourceOf`. `Hooks` runs the
loop of `forward_to_rules` over the rows it selected; which of them comes next is left
open. In `Passkeys` the two HTTP requests of a ceremony are one request, because its state is taken
by GETDEL and so at most once; `uses` is the counter inside the authenticator, which is
external. Left out: a rule named `Default`, headers, methods and secrets, `ingest_hostname` (nothing
reads it back), Telegram (Slack without a URL check), `X-Target-Url` (refused unless
configured), a `provider_id` sent along with a new provider, and a manual send with a source
and target of the caller's own, which is `Store` alone.

## 3. Runs

| Run | Question | Bounds and why they do |
|---|---|---|
| `delivery_single` | Without replays: does every id keep one owner, is the POST budget kept, one outcome announced, each POST on the timeline, delivered final, `EventLifecycle` implemented? | two events, two workers and the retry worker, two admins, one retry, two admin requests (acknowledge, delete), retention, clients that hang up, crashes and Redis faults; two tasks and two ids are what a double delivery takes |
| `delivery_faults` | Does ownership survive every fault at once? | three events, one without a target and one with a refused URL, two POSTs of each, one admin who deletes |
| `delivery_replay` | With one admin who replays and acknowledges in the middle of deliveries: is an open event ever forgotten, does it settle? | clients that hang up; one event that can have three owners (worker, retry worker, queue or set), two requests, eight POSTs |
| `delivery_crash` (violated) | Is delivery "at least once" across a crash? | shortest counterexample: accept, push, pop, crash |
| `attempt_log` | Dense numbers, and only overlapping attempts lost? | four calls, deletion at any moment |
| `attempt_log_lost` (violated) | One row per attempt? | two overlapping calls |
| `event_stream` | No repetition, order of stamps, only late rows missed, arrival | three events, three ticks, one-place channel, limit of two rows, reconnections |
| `event_stream_gap` (violated) | Every new event mirrored while connected? | an older stamp commits after a poll |
| `email_delivery` | One sender per claim, no avoidable second copy, closed rows stay closed, every e-mail concluded | a welcome and two follow-ups: one account signs up with its request, or two older follow-ups compete for a batch of one; the worker, two attempts, all faults |
| `workspace` | Who becomes a member and by what; can the last admin, the one-use bootstrap, the end of a plan or a spent state key go wrong without a race? | two founders and a guest with two identities, two invitation rows, one sign-in flow, two requests of any kind interleaved with the clock; every race in these handlers is one of two requests |
| `resources` | Are quotas, edits of rules, routing and hooks, the notification log and passkey counters right unless overtaken? | two requests of any kind; a workspace with two providers, or a provider and a hook (native, or of one that is off), a domain and a key, with the plan ending or the month changing meanwhile |
| `resources_wildcard` (violated) | Does a rule for `*` serve every source? | as `resources`; a provider for `*` is created, then a webhook comes in |

Bounds of `workspace` and `resources`: requests come in the order of their numbers and the clock and the plan
move only while one is under way (no request looks at them in its first step, so nothing is
lost); requests name rows that exist, any other answer being a 404, and ask for a change; an
edit names one field; the plan ends once. These runs check safety only and assume no fairness.

`MaxCalls`, `MaxPosts`, `MaxTime`, `MaxConnects` and `MaxAttempts` bound counters that the
code does not bound; where a bound cuts a liveness property short the property says so.
`CHECK_DEADLOCK FALSE` is used everywhere: the system may come to rest when everything is
delivered and nobody sends anything, and a bounded instance stops at its bounds.
Symmetry is used for workers and admins (and recorders), only in runs without liveness.

### What the violated runs show
- `delivery_crash`: `BRPOP` and `ZPOPMIN` are the last anybody hears of an id until the
  task has finished with it. A crash or a deployment in between leaves a queued or
  retrying row that nothing will deliver, although the documentation promises at-least-once
  delivery. A processing list (`BLMOVE`) or a sweep of open rows at start would repair it.
- `attempt_log_lost`: the advisory lock is taken inside the statement that reads the
  maximum. Overlapping calls need two owners of one event, that is a manual replay.
- `event_stream_gap`: the cursor moves past rows that are stamped and not yet committed.
- `resources_wildcard`: `docs/PRD.md:122` promises patterns with `*`, and a rule created without
  a pattern gets it (`rules.rs:256`), but the query of a webhook compares with `=`
  (`webhook.rs:169`). Such a rule serves nobody but a source of that name; the webhooks it was
  made for go to the default target.

### What the exceptions in the properties say
In `delivery_*`: `Custody` and `Settles` leave out events whose request was cut off in front
of its LPUSH (`webhook.rs:263`, `events.rs:300`). No processing list would repair that; a sweep
of open rows would. `DeliveredSticks` and the lifecycle excuse a refused URL, whose UPDATE has
no guard (`workers.rs:171`). In `email_delivery`, `Concluded` leaves out rows that are `Stuck`
or `Crowded` (`auth.rs:1215`, `1144`), and TLC finds both: without the second exception the
counterexample has an older follow-up, claimed by a sender that died, whose workspace became
active; the younger one is then never sent. Overruns are excused in `OneSender`,
`NoSecondCopy` and `ClosedSticks`.

Where a property of `workspace` or `resources` excuses overtaken requests, TLC finds the
bare property violated; these are the races the code has:
- Two admins who demote themselves or each other leave no admin (`users.rs:69` counts, a
  later statement writes): `AdminLeft`.
- Two bootstraps at once make two operators (`platform.rs:38`): `OneBootstrap`.
- A trial that ends between the entitlement check and the INSERT, or whose UPDATE of the
  invitations fails, leaves an open invitation on a free workspace (`invites.rs:113`,
  `organizations.rs:519`): `FreeClosed`.
- An operator's edit of anything else writes back the plan read before, and with it an
  expired trial (`platform.rs:276`): `UpgradesMeant`.
- Two callbacks with one OAuth state both pass if both GET before either DEL
  (`auth.rs:787`): `SpentOnce`.
- Quotas are counted before and apart from the INSERT (`organizations.rs:450`). Without any
  race, too: failed domains are not counted (`organizations.rs:438`), so verifying one again
  passes the limit; hooks are counted as providers although creating one is not checked:
  `QuotaKept`.
- Two edits of different fields of one rule: one is lost (`rules.rs:396`): `EditsStick`.
- An event is stored with the target of a rule that was changed after the lookup:
  `RoutedByRule`. It says, too, what failed lookups do without any race: the default target
  instead of the rule's (`webhook.rs:167`), and no target at all instead of the default
  (`webhook.rs:200`). Two active providers of one source are not refused; which of them gets
  the event is open, and the hooks of both are told.
- Two sign-ins with one passkey may leave the older counter (`auth.rs:1801`): `CounterRises`.

What holds without exception: `SeatsByInvite` and `JoinsByLiveInvite`. Two of the three
sign-in paths accept an invitation by an unconditional UPDATE, but both ask first whether
the person is in the workspace already and nobody leaves one, and the third looks again
inside its transaction. An invitation may so be marked accepted after it was revoked, for
somebody who is a member anyway.

## 4. Fairness

`Delivery!FairSpec`: ready tasks run (tokio), Redis and Postgres answer, the clock reaches each
score, and a POST ends. The last one is an assumption about targets: `reqwest::Client::new()`
sets no timeout, so a target that never answers holds its worker for ever. Nobody is obliged to
send a webhook or start an admin request. A started one goes on while its client stays, and its
client may hang up at any await: that disables the rest of the request, about which weak
fairness then says nothing. `Settles` excuses the events this strands (`dropped`), so it rests
on no promise that requests are finished. `EventStream!FairSpec`: the server task polls and
sends, the client reads; ingest and reconnection are not fair. `EmailDelivery!FairSpec`: the
worker loops, the clock advances, the provider answers or the connection breaks, and Postgres
and the process stop failing at some time (`Settle`); the sign-in request gets no fairness.

## 5. Proofs

Proved with TLAPS for every value of the constants (any number of events, workers,
admins, calls, retries), from the named assumptions of the modules only:

- `DeliveryProofs` begins with what LPUSH, BRPOP and LREM do to membership and to the absence
  of duplicates, by way of the invariants of the recursive function in `Lrem`.
- `DeliveryProofs!TypeCorrect`: `TypeOK`, one lemma per way of changing a variable.
- `DeliveryProofs!OwnerUnique`: `OneOwner` if `"retry"` is not among the operations, under all
  faults. The inductive invariant is `TypeOK`, `OneOwner` and `NoReplay` (no admin request is
  in the middle of a replay); a step either gains no id (`NothingGained`), moves one from Redis
  to a task (`Taken`), moves one back (`Rescheduled`) or keeps them.
- `DeliveryProofs!DeliveredIsFinal`: `DeliveredSticks`, with any number of replays. Needs
  `RefusalsFounded`, that a task with a refused URL holds an event whose URL can be refused:
  that UPDATE is the only unguarded one.
- `OutcomeProofs!BudgetKept`, `VerdictFinal`: `AttemptBudget` and `OneVerdict`, without replays
  and without failing Postgres statements (a lost UPDATE of retry_count is one more POST). The
  invariant `Fits` says for each place an id can be in, and for each step of the task that
  holds it, how many POSTs were made, how many of them the row or the task has counted, and
  what was announced; it needs `OneOwner`, since what a task read stays true only because no
  other task holds the event.
- `OutcomeProofs!LifecycleImplemented`: the refinement `ImplementsLifecycle` without replays,
  under every fault. It needs that the retry_count a task read is the row's (`CountsCurrent`),
  which is so because the id of an event that has ended, or is not in Redis, never becomes
  alive again (`Alive`, `FailedIsOver`).
- `OutcomeProofs!CustodyKept`: `Custody` without crashes and failing statements, if nobody
  replays, or if one admin is at work and no DNS lookup fails. Clients may hang up at any
  await; the events they strand in front of an LPUSH are the exception `Custody` names.
  `NothingForgotten` extends custody to requests between Postgres and Redis, and `ScrubsClosed`
  says that a request about to remove an id has closed its row, and that what fails afterwards
  stays failed (`Final`): for a URL that no replay can open, or because nobody replays and the
  task that fails an event was the last to have it (`FailedIsOver`).
- `OutcomeProofs!PostsOnTimeline`: `AttemptsAccounted` without replays and failing Postgres
  statements, for finitely many tasks; crashes, acknowledgements, failing Redis and requests
  cut off are allowed. A task that finds its event acknowledged drops its result, and one that
  dies loses it, so the property is about events whose delivery goes on, has failed or was
  announced: the proof shows that nobody takes the others up again (`OneOwner`, `FailedIsOver`)
  and that of the rest only the POST of the one task before its record step (`Unrecorded`) is
  missing.
- `AttemptLogProofs!TimelineTypes`, `TimelineDense`, `NothingLostAlone`: the snapshots are
  initial segments no longer than the table (`SnapshotsStale`), and a call that nobody
  overlapped sees the table as it is (`OverlapsKnown`).
- `EmailDeliveryProofs!SenderUnique`, `AtMostOneCopy`, `ClosedIsFinal`: from one inductive
  invariant with `ClaimsHeld` (a claim with a sender has not lapsed) and `MailsKnown` (an
  accepted e-mail is known to the row or to the task about to write it).
- `EmailDeliveryProofs!MailsBacked`: `MailsAccounted`, for finitely many sign-in requests: the
  attempts counted in a row cover the e-mails the service accepted and the claims that have not
  been sent yet, so a task between its claim and its request is paid for in advance.
- `EventStreamProofs!StreamTypes`, `MirroredOnceInOrder`, `NothingElseMissed`: `TypeOK`,
  `MirroredInOrder` and `OnlyLateMissed`. The order is kept because everything on its way lies
  behind the server task (`PipelineBehind`) and every stamp behind the clock (`ClockLeads`), so
  that a poll appends later stamps to earlier ones (`PollAppends`), and a break of the
  connection cuts a piece out of the middle (`DisconnectCuts`). At any time finitely many
  events have come in (`FinitelyMany`): only then does a poll with a LIMIT have an answer.
- `WorkspaceProofs!SeatsFollowInvites`, `SeatsByOpenInvites`: `SeatsByInvite` and
  `JoinsByLiveInvite`. The invariant adds to `SeatsByInvite` what a request may rely on between
  its statements (`Named`, `Invited`): that a row it found is still there and is addressed to
  the person who signs in, and that who passed the check of membership is still a member. Both
  survive the steps of others because every step only grows the tables (`Grow`: no seat is
  taken away, no invitation rewritten, and a seat is given exactly when an invitation is
  accepted). One lemma per statement shows `Grow` and that the request keeps its own part;
  `RequestStep` combines them.
- `WorkspaceProofs!LastAdminStays`, `FreeStaysClosed`, `BootstrapOnce`, `UpgradesAsked`,
  `StatesSpentOnce`, `WorkspaceTypes`: `AdminLeft`, `FreeClosed`, `OneBootstrap`,
  `UpgradesMeant`, `SpentOnce` and `TypeOK`, from one invariant `Facts`. `Sees` says what each
  request has read and will act on (another admin, no operator yet, the plan it writes back, an
  OAuth state that is still there), claimed while it is not overtaken; `Heeded`, that whoever
  relies on what a step changes is overtaken by it. `FreeClosed` needs more than the requests:
  `StaysClosed` says that who ends the paid plan goes on to revoke the invitations (`Closing`),
  and leaves that only when it is done or what stays open is recorded as a stray. `Written`
  tells which statement writes which table, so an action property has only the few statements
  to look at that could break it.
- `HandlerProofs`: what one statement of a handler does to the local state of its request and
  of the others (`GotoMoves`, `FinishMoves`, `Overtakes`); both modules below the frame use it.
- `ResourcesProofs!EditsKeepTheRest`, `EventsFollowRules`, `HooksToldAreMeant`: `EditsStick`,
  `RoutedByRule` and `HooksMeant`, three properties of the form "what was read earlier still
  decides correctly now, unless the request was overtaken". The invariant says for each place
  in a handler what its request has seen (`Sees`: the row to be written differs from the stored
  one in the edited field alone, the route chosen is what the rules say, the hooks on the list
  are wanted) and claims it while the request is not overtaken; `Tied` ties the place to the
  operation and to the shape of the local variables. It is kept because a statement that
  changes a rule, a domain or the destination overtakes every request that relies on it, and
  leaves alone what the rest have seen (`Around`, `Spares`). So `overtaken` marks every request
  it should, and the properties have no hidden exception.
- `ResourcesProofs!CountersRise`: `CounterRises`. `Ceremonies` follows a passkey: it is saved
  once, before any sign-in with it, and what a sign-in is about to write is not less than what
  is stored unless the request was overtaken.
- `ResourcesProofs!QuotasKept`: `QuotaKept`, for finitely many stored rows and requests.
  `HasRoom` says that a request past its check of the quota still has room for its row unless
  it was overtaken; `Told` says that whatever makes a count grow, or ends a plan, overtakes
  those who rely on it.
- `ResourcesProofs!LogTellsTruth`: `LogTrue`. `Report` follows the list of hooks of one run:
  the hook it is at has got as many POSTs as the run has counted and an answer exactly if the
  run noted one, and those it has not come to have neither a POST nor a row (`Untold`).
- `ResourcesProofs!ResourceTypes`: `TypeOK`, which is an invariant only together with the types
  of what requests carry from one statement to the next (`Asked`, `Carried`): an edit stores
  the row it has read before.

Every safety and action property of a passing run, and the refinement, is stated by one of
these theorems. Only model-checked: the three liveness properties (`Settles`, `Arrives`,
`Concluded`), since fairness is ENABLED in disguise and the prover has no rules for it.

Six theorems about `Delivery` have hypotheses on `Operations` and `Faults`. They describe
deployments the constants really have, and they are needed: with one event, two workers and one
admin TLC finds each property violated as soon as one hypothesis is dropped (`OneOwner` and
`ImplementsLifecycle` with replays; `AttemptBudget` and `OneVerdict` with replays, or with
failing statements; `AttemptsAccounted` with replays or failing statements; `Custody` with
crashes or failing Redis or Postgres, and, where there are replays, with a second admin or a
failing lookup). The last case takes one admin and two tasks: after a replay both have the
event; it is acknowledged; one of them cannot resolve the host and its unguarded UPDATE turns
`delivered` into `failed`; the other, whose POST has failed, may then write `retrying` and ZADD
the id, which the rest of the acknowledgement removes.

## 6. Plan

1. Captcha grants (keys in Redis that a GETDEL spends once) before the rate limiters and the
   sign-in that follows, as one module.
2. `Backoff`: `10 * 2^retry_count` in 64 bits.
3. Two admins at once in `delivery_replay`, with LREM and LPUSH of one id.
4. Proofs: `AttemptBudget` with failing UPDATEs, as a bound that counts the lost ones.

## 7. Not modelled

Cryptography, cookies and HTTP framing; payloads, headers and templates; statistics, the AI
helper, audit (append-only, never read back by the program), configuration at start-up, the
MCP adapter, the terminal client apart from `trusin dev`, the test receiver, the static
server, the dashboard and the sites: none keeps state that another task depends on. The rate
limiters are one atomic call of the `governor` crate and a 429; what is there to know is
arithmetic: `me_limiter = build_rate_limiter(60, 30)` (`main.rs:173`) gives thirty requests at
once and then one a minute, where `state.rs:30` and `docs/PRD.md:155` speak of thirty a minute.
Two admins at once on the same event, one of whom replays it, are not covered by `Custody`:
the LREM of one may remove the id the other has just pushed. Errors of Redis are not covered
by it either: a failed LPUSH or ZADD strands the event as a crash does, and so does a client
that hangs up in front of the LPUSH, which `Custody` names as its exception.
