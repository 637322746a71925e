# nb-register in TLA+

TLA+ models of this repository's core: the database of accounts and email
allocations, one-time passwords on their way to a workflow, the event stream of
a job, and the services that register mailboxes and accounts, rent numbers,
keep GoPay sessions and pay. TLC checks the models on small instances; TLAPS
proves the properties that matter most for every instance. `PROJECT.json` lists
components, runs, mutants, hazards and theorems, and maps every definition to
the lines it models. All paths below are relative to `src/`.

    tlc -workers 2 -config MCAccountDb.cfg MCAccountDb    # one run
    tlapm OtpRelayProofs.tla                              # one module's proofs

## 1. Inventory

The system is a set of services around one orchestrator. Dashboard and chat bot
call the orchestrator; it starts Temporal workflows; the activities of a
workflow call the other services by gRPC and record every step in PostgreSQL;
changes of a job flow back to the dashboard as a stream of events. Three things
make almost everything here hard: a gRPC call may lose its reply after the
server has acted; Temporal ends an activity for the workflow while it still
runs; and outcomes are written to several stores one after the other.

| Component | State it keeps | Operations | What is hard | What makes it correct |
|---|---|---|---|---|
| `account-db` | tables `accounts`, `gpt_email_allocations` | create, update, delete an account; upsert, claim, split, mark an allocation; backfill at start-up | concurrent claims, refreshes that arrive late, four separate backfill statements | an address is given once and never comes back; the tables agree |
| orchestrator: email allocation | local variables of an attempt | EnsureAccount, persist, mailbox import and OAuth, start-up sync | retries from the first call, stale listings, two stores | no address granted twice; failures use up a bounded part of the pool |
| orchestrator: waiting for an OTP | job parameters, signals, timer | waitForOTP, OTPWaitActivity, SubmitOTP, consumeStoredOTP | activity, signal and timer race; separate reads and deletes | the wait ends; a code is used once |
| orchestrator: job events | tables `jobs`, `job_events`; broker, LISTEN connection | publish, List, Subscribe, WatchJob(s) | wakeups, insert then update, reconnects | no wakeup lost, no event mixed up, states in order |
| orchestrator: workflows | Temporal history | register, login, mailbox, activate, autopay, GoPay | partial failure, restarts of the services they use | what is reported happened; what was rented or opened is released |
| `whatsapp-otp-relay` | slice of OTPs, notify channel | submit, WaitForOtp, purge | waiters and submits interleave, purge, timeouts | no wakeup lost, one hand-out for each OTP |
| `gopay-payment` | `FlowStore`: flows with their HTTP sessions | probe, prepare, start, resend, complete, confirm, cancel | handlers outlive their callers, restarts lose flows | one charge and one payment; sessions have one owner |
| `gopay-app` | none between calls; the session row is the caller's | login, signup, PIN, change of phone, deactivation, replay of a payment link | overlapping calls write whole rows; the provider is ahead of the row | stage and tokens agree; no live account lost or deleted |
| `browser-reg` | the one flow, its thread, events | StartRegister/Login, GetFlowStatus, Complete, Cancel | one gRPC worker, threads that end between two reads | one flow at a time; a success is reported |
| `herosms-sms-service` | configuration row; activations at the provider | acquire, poll, finish, cancel, configure | lost replies cost money; goroutines that cancel | every number released; spend is bounded |
| `outlook-register-service` | lock, child process, two files | Register, Import, RunOAuth | a child that hangs, results found by difference | one run at a time; what was found is stored |
| `outlook-imap-service` | mailboxes, inbox, OTP cache, tokens | upsert, delete, OAuth status, fetch, wait | status written from several jobs | a mailbox that waits for OAuth has no token |
| `checkphone-tgbot` | offset, dialogues in memory | poll, handle, start and follow jobs | an update acted on and not acknowledged comes again | a text goes where it was asked for; no update passed over |
| `dashboard` | settings | HTTP routes, event stream | reconnects | the stream resumes where it broke off |
| `dashboard/web`, `whatsapp-forwarder`, `proto`, `iac`, `scripts` | none of the system's state | user interface, forwarding, definitions, deployment | | |

## 2. Modules

| Module | Models | Relations |
|---|---|---|
| `AccountDb` | account-db: every handler that writes, and the backfill | |
| `EmailPool` | the callers of account-db | extends `AccountDb`: the composition of the two |
| `OtpBox` | what an OTP box promises (abstract) | |
| `OtpRelay` | whatsapp-otp-relay's `otpStore` | implements `OtpBox` |
| `OtpWait` | waitForOTP, OTPWaitActivity, SubmitOTP, FetchManualOTPActivity, consumeStoredOTP | |
| `JobEvents` | jobprojection's publish, jobevents, WatchJob(s), the client's cursor | |
| `PaymentFlow` | gopay-payment with the payment activities and workflows, and gopay-app's replay of a link | composes three programs |
| `GoPayAccount` | the sessions of gopay-app with the state store and the provider's accounts | |
| `BrowserFlow` | browser-reg with the browser activities and workflows | composes two programs |
| `PhoneBot` | checkphone-tgbot with the chat service and the codes the orchestrator waits for | |
| `SmsActivations` | herosms-sms-service, the provider's activations, the change of a phone | composes three programs |
| `MailboxRegistration` | outlook-register-service, the jobs that call it, the mailbox store | composes three programs |
| `AccountDbProofs` | theorems about `AccountDb` and `EmailPool` | |
| `GoPayProofs` | theorems about `GoPayAccount` and `PhoneBot` | |
| `SupplyProofs` | theorems about `SmsActivations` and `MailboxRegistration` | |
| other `...Proofs` | theorems about the module they are named after | |
| `MC...` | instances for TLC | |

Operators called *Mutant* are plausible bugs in the definition that follows
them: replacing the definition by the mutant breaks the property `PROJECT.json`
names. They take no part in the specifications.

### AccountDb and EmailPool

`accounts` and `rows` are the two tables, total functions from ids and addresses
in which an absent row has status `NONE`. `phase` counts the backfill statements
that ran since the process started; 5 is serving. A handler that writes is one
transaction that locks its row, so it is one action; `Restart` may happen at any
time, also between two backfill statements. `Canonical[e]` is the address
without its `+suffix`. Tokens are kept as present or absent, which is all the
backfill asks; passwords, names, texts and times are dropped.

`EmailPool` adds `reg[a]`, the registration of account id `a` (program counter,
address, what is left of its listing, attempts); `auth[m]`, the status in the
mailbox store; `pending[m]`, the upsert still owed to account-db; `up` and
`toSync`, the start-up sync. One action is one gRPC call. `AttemptEnds` is
everything that cuts an attempt short; Temporal then starts the activity again
from its first call. Mailbox store and account-db are written by separate
actions, and `DropPending` may lose the second.

### OtpRelay and OtpBox

`log` is the history of accepted OTPs, so an OTP is its position in it; the
slice `items`, which keeps the order of arrival, is a set of positions. `notify`
counts the channels made. One action is one critical section of the mutex, or
one step outside it. `OtpBox` says only that an OTP is pending, then served or
dropped, once; `Fate` is the refinement mapping.

### JobEvents

`job` is the job's rows, reduced to a status and the number of changes that led
to it. A `writer` is a goroutine between its write and the end of
`PublishSnapshot`: read back, draw an id and insert, commit, fill the snapshot
in, wake the streams. A `watcher` is one stream with its channel of capacity one
and the client that keeps its cursor. `Restart` drops writers and streams; the
table and the clients' cursors stay.

### OtpWait

One job. `params` is the pair of job parameters a code travels through; a code
is its position in the history `times` of what was stored. SetParams writes both
in one transaction; every read and every delete is an action of its own. `wf` is
the workflow, and the activity that reads for it. `activity[r]` is the
OTPWaitActivity of the r-th request: cancelled when the wait is over, it learns
so only from a heartbeat, and may still store a code in a later round.

### PaymentFlow

A workflow has two flows at most, `Prepared(w)` and, when that one is lost,
`Fresh(w)`; the probe has a charger no store holds. `handler[w]` is the thread
that serves its last call; it goes on when its caller gave up (`ReplyLost`,
`ActivityTimesOut`), and with it the activity. `charger` is the HTTP session of
a flow, `store` the flows other calls can find, `state` what `PendingFlow`
keeps. Provider requests are grouped by what they leave behind: a linked
account, a charge (`charges`), a payment (`paid`). `replay[w]` is gopay-app's
thread that pays a link. `cause` collects what went wrong between the parts,
which the properties on leaks refer to.

### GoPayAccount

One user. `saved` is the row of the state store; each client (an API call, a
workflow, the bot) loads it, passes it through calls and saves it or not.
A token is the account it opens. `phone` and `pins` are what the provider has.
Handlers are actions in which every provider call may fail, and the session that
results is the one that early return leaves. The answer to a request the provider
carried out may be lost: a signup, the set-up of a PIN, a change of phone and a
deactivation then leave the session as if they had failed (`fault` is `"lost"`
where an account or a token is at stake). Calls come in any order.

### BrowserFlow

A flow goes by the name of its workflow. `flow[w]` is `BrowserFlow`: thread with
its page, cancel and OTP events, result; each page begins with a look at the
cancel event. `flows` is the registry, `call[w]` the last call, which is queued,
served by the one worker and may lose its client. GetFlowStatus is two steps,
for it reads `done` twice; Complete keeps the worker; Cancel joins the thread
with a time limit.

### PhoneBot

`updates` and `offset` are those of the chat service, `batch` what getUpdates
returned, `pending` the dialogues, `code` what the orchestrator waits for. Of a
text the model keeps what its user meant it to be; the bot cannot tell.

### SmsActivations

`activations` are those of the provider, `wf` the change of a phone with its
activity, its number and its counters, `cancels` the goroutines that try to
cancel a number, `config` the row of the default provider by who wrote it,
`bootstrap` the two steps of its initialisation. `unreleased` records numbers
whose release a named failure prevented; among them one that was rented while the
provider's answer got lost, which the activity counts as a failure before it
rents the next.

### MailboxRegistration

`listed` and `tokens` are the two files the child appends to, `mailbox` the rows
of the mailbox store, `job` each job with what its run found in the files when
it took the lock. `dropped` and `outdated` record what a named failure did.

## 3. Runs

| Run | Instance | Distinct states | Checks |
|---|---|---|---|
| `account_db` | a primary with two aliases, 2 accounts | 884,058 | `TablesAgree`, `RestartRepairs`, `NeverBackInPool`, `OwnerIsStable` |
| `email_pool` | a mailbox with an alias, 2 registrations, 2 attempts each | 1.2 million | `GrantsAreSound`, `LeakIsBounded`, `ImplementsAccountDb` |
| `email_pool_oauth` | a mailbox with an alias, 1 registration | | `CompletedOAuthEntersPool` is violated (finding 1) |
| `otp_relay` | 2 waiters, 2 OTPs, capacity 1, ttl 0, 2 instants | 120,498 | `StoreIsSound`, `NoLostWakeup`, `BoxSpec`, `WaitReturns` |
| `job_events` | 2 writers, a stream of either kind, 2 changes, 2 events | 51,016 | `EventsAreSound`, `SleepsOnlyWhenUpToDate`, `NeverFallsBack`, `FilledReachesStreams` |
| `otp_wait` | 1 user, 2 requests, 1 submission, 3 instants, 2 attempts of a fetch | 387,858 | `CodesAreSound`, `FoundIsFresh`, `WaitEnds` |
| `payment_flow` | 1 payment, 2 restarts | 13,018 | `ChargersAreSound`, `LeaksHaveACause`, `ChargedOnce`, `SuccessMeansPaid` |
| `gopay_account` | 2 clients, 2 accounts, 1 temporary phone with 1 use | 2.5 million | `SessionIsSound`, `AccountsAreKept`, `PhoneUseIsBounded`, `OnlyMovedAccountsAreDeactivated` |
| `browser_flow` | a registration and a login, 1 restart | 508,691 | `FlowsAreExclusive`, `LossesHaveACause`, `CodeIsEnteredOnce`, `WorkflowsEnd` |
| `phone_bot` | 1 user, sign-up dialogue with its two codes, 4 updates, 1 restart | 171,146 | `UpdatesAreSound`, `UpdateIsTried` |
| `sms_activations` | 2 failures, 1 retry, 3 numbers, 1 death | 106,210 | `ActivationsAreSound`, `SpendIsBounded`, `OperatorsRowStands`, `RentalEnds` |
| `mailbox_registration` | 3 jobs, 2 mailboxes, 1 restart | 30,699 | `RunsAreExclusive`, `FoundAreKept`, `PendingHasNoToken`, `JobsEnd` |

`TablesAgree`, `RestartRepairs`, `GrantsAreSound` and the other properties whose
name ends in *Sound* or *Exclusive* are conjunctions of the type invariant and
the named parts above them in their modules.

**Bounds.** Each is the least with which the case its property is about happens.

* `account_db`: with two aliases a family has one address of each class the
  backfill tells apart, and the cascade relates siblings.
* `email_pool`: `MaxAttempts` 2 stands for 5; one retry is what separates a
  first from a later attempt. `MaxJobs` 1: a second job of an account finds
  tables the other account leaves too. `Outcomes` has `AUTH_FAILED` for both it
  and `OAUTH_PENDING`, which account-db treats alike, and
  `NEEDS_MANUAL_VERIFICATION` in `email_pool_oauth`, whose finding it is; the
  proofs are for all of them.
* `otp_relay`: capacity 1 and ttl 0 with two OTPs and two instants make the
  store overflow and OTPs expire while both waiters hold a channel.
* `job_events`: two events let ids and commits cross. `Limit` equals
  `MaxEvents`, so that no List is cut short in this run; the part of the
  invariant about full Lists was also checked with three events and `Limit` 2,
  and the proofs (section 5) hold for any `Limit`. Liveness makes the larger
  instance too slow to keep as a run.
* `otp_wait`: two requests, one submission and three instants are the least in
  which a code, a signal or an activity of one round meets the next.
* `payment_flow`: payments share no state but the store, which is indexed by
  flow; two restarts lose the prepared flow and then the fresh one. The proofs
  are for any number of both.
* `gopay_account`: `MaxPhoneUses` 1 reaches the limit with the second change.
  The second client saves only what it loaded, which is how an old session
  comes back: one that changed something as well would be a client that left.
* `browser_flow`: the service has one flow and one worker, so two workflows
  already contend; only one of them is a login, the kind that is asked twice.
* `phone_bot`: batches hold two updates, so one fails while the other succeeds;
  sign-up is the longest dialogue (PIN, code, second code).
* `sms_activations`: one number more than the failures allow, so that a
  further one could be rented if the counting allowed it.
* `mailbox_registration`: one job holds the lock, one waits, one has its answer.

Symmetry is declared over accounts, aliases and phones, which the models treat
alike, and in no run with a liveness property.

**Deadlock** is checked in `account_db`, `email_pool`, `otp_relay`, `job_events`
and `gopay_account`, whose services run for ever. In `phone_bot` the users' last
update is handled, in the others the jobs end, and nothing happens after that;
that it comes to this is `UpdateIsTried`, `WaitEnds`, `WorkflowsEnd`,
`RentalEnds` and `JobsEnd`.

**Fairness.**

* `OtpRelay`: weak on goroutines that can run and on timers; strong on `GiveUp`,
  because Go's `select` picks uniformly among ready channels: a waiter woken
  again and again takes the `ctx.Done()` branch some time.
* `JobEvents`: weak on writers and on a stream's list, send and wake; none on
  clients, on PostgreSQL's notifications or on new changes.
* `OtpWait`: weak on the workflow's timer and next step, which Temporal runs when
  something is ready, and on the activity it waits for, which ends by its
  StartToCloseTimeout; none on users, OTPWaitActivity or the clock.
* `BrowserFlow`: weak on browser steps, which have deadlines, on replies, and on
  workflows, whose polls and timeouts are the activities'; strong on `Serve`,
  because the worker takes its queue in order: a call that is again and again
  at its turn is served. None on users' codes.
* `PhoneBot`: weak on polling and handling, the bot's one loop.
* `SmsActivations`: weak on the workflow and on each goroutine that cancels; each
  call has a deadline and the loops are bounded. None on the provider.
* `MailboxRegistration`: weak on each job: runs, OAuth workers and calls have
  timeouts.

## 4. What the checks found

1. **A mailbox that once needed manual verification never enters the pool.**
   `canRefreshAllocationStatus` (`account-db/main.go:739-741`) lets nothing open
   overwrite `NEEDS_MANUAL_VERIFICATION`; the upsert after a completed OAuth is
   accepted and has no effect. `README.md:67` says a mailbox that completed
   OAuth enters the pool. Run `email_pool_oauth`.

**What the models show without a run of their own.** These behaviours follow from
the code and are in the models.

* *Email pool.* A dead token (`outlook-imap-service/watcher.go:171`) or a deleted
  mailbox changes the mailbox store only: its address can still be claimed until
  the next sync. An account that exists can be given a second address when
  GetAccount fails for another reason than NotFound; `LeakIsBounded` says how
  many.
* *Relay.* An OTP can be taken by a wait whose client has already gone.
* *Job events.* With two writers an older snapshot can get the greater id, or an
  id can become visible after a cursor passed it. A stream that lists between
  INSERT and UPDATE sends an event without its snapshot and never sends the
  snapshot. A stream whose backlog exceeds one List sleeps on the rest until the
  next wakeup. Notifications lost with the LISTEN connection are not made up for.
* *OTP wait.* `consumeStoredOTP` reads a code and its time by two calls, so an
  old code can pass with the time of a newer one (`browser_auth_activities.go:325`).
  A failed read of the time counts as a stale code and deletes it, and a code
  stored between the read and the deletes of a stale one goes with it
  (`manualinput.go:23`).
* *Payment.* The replay goes on when its call is lost: a link can be paid after
  its flow was cancelled and its workflow failed. A payment whose tier probe
  fails is reported as failed recoverable (`workflow_payment.go:182-190`).
  ActivateAccountWorkflow goes on to pay when the account is Plus already
  (`workflow_payment.go:58`).
* *GoPay sessions.* A token check turns any stage, a pending PIN included, into
  `ready` (`gopay_app.py:894`). A signup whose answer is lost
  (`gopay_app.py:1261-1271`) leaves a live account that is in no session. A
  deactivation whose answer is lost (`app_server.py:876-884`) leaves the temporary
  token of an account that is gone, with the stage that offers to deactivate it
  again. DeactivateComplete can leave stage `deactivated`
  with an active token of a live account. `_checked_change_phone` is read and
  removed and never set (`app_server.py:696`). Uses of a temporary phone are
  counted in the session: two clients that start from one row can each
  move an account to the phone and count one, so `PhoneUseIsBounded` is about
  clients that work one after the other (`WorksAlone`).
* *Browser flows.* A join that times out drops a flow that still runs, so two
  browsers can run, although the service "owns at most one in-flight browser
  flow" (`browser-reg/browser_reg/server.py:4`); one of them is cancelled, which
  is what `FlowsAreExclusive` says. A login that asks for a second code fails
  with "OTP is empty": the event of the first wait is still set. Two orders of
  calls lose an account without any failure, and `LossesHaveACause` names them
  beside the failures. A flow that ends between the two reads of `done` in a
  status (`server.py:299-312`) is answered as done and failed (`torn`). And a
  start drops every flow that is done (`server.py:234-236`), also one whose result
  its workflow has not fetched yet, which is then told it is missing (`dropped`).
* *SMS numbers.* When HeroSMS rents a number and its answer is lost or cannot be
  read, the service reports a failure (`herosms_sms_server.py:448-469`); the
  activity counts it and rents another number, and nobody cancels the first.
* *Mailboxes.* `README.md:87` says a mailbox whose automatic OAuth fails stays
  `OAUTH_PENDING`; the activity marks it `AUTH_FAILED` or
  `NEEDS_MANUAL_VERIFICATION` (`activity_mailbox.go:244-248`, `340-346`). An
  import that is older than an OAuth puts the mailbox back to `OAUTH_PENDING`
  although it has a token, and the next OAuth skips it for that token.

## 5. Proofs

Every theorem holds for all values of the constants that satisfy the assumption
named in its module; the MC instances evaluate the assumptions. The inductive
invariants below were first checked by TLC on the instances of section 3.

| Module | Theorem | Property of a run |
|---|---|---|
| `AccountDbProofs` | `TablesAlwaysAgree`, `NeverBack`, `OwnersAreStable`, `BackfillRepairs` | `TablesAgree`, `NeverBackInPool`, `OwnerIsStable`, `RestartRepairs` |
| | `PoolImplementsAccountDb`, `GrantsSound`, `LeaksAreBounded` | `ImplementsAccountDb`, `GrantsAreSound`, `LeakIsBounded` |
| `OtpRelayProofs` | `NoWakeupIsLost`, `StoreIsAlwaysSound`, `ImplementsOtpBox` | `NoLostWakeup`, `StoreIsSound`, `BoxSpec` |
| `OtpWaitProofs` | `CodesAreAlwaysSound`, `FoundIsAlwaysFresh` | `CodesAreSound`, `FoundIsFresh` |
| `JobEventsProofs` | `EventsStaySound`, `SleepersAreUpToDate`, `ClientsNeverFallBack` | `EventsAreSound`, `SleepsOnlyWhenUpToDate`, `NeverFallsBack` |
| `PaymentFlowProofs` | `PaymentsChargeOnce`, `SuccessesArePaid`, `SessionsStaySound`, `LeaksAreExplained` | `ChargedOnce`, `SuccessMeansPaid`, `ChargersAreSound`, `LeaksHaveACause` |
| `BrowserFlowProofs` | `FlowsStayExclusive`, `CodesAreEnteredOnce`, `LossesAreExplained` | `FlowsAreExclusive`, `CodeIsEnteredOnce`, `LossesHaveACause` |
| `GoPayProofs` | `SessionsAreSound`, `AccountsStayReachable`, `PhoneUseStaysBounded`, `DeactivatedHaveMoved` | `SessionIsSound`, `AccountsAreKept`, `PhoneUseIsBounded`, `OnlyMovedAccountsAreDeactivated` |
| | `UpdatesStaySound` | `UpdatesAreSound` |
| `SupplyProofs` | `ActivationsStaySound`, `SpendStaysBounded`, `OperatorsRowStays` | `ActivationsAreSound`, `SpendIsBounded`, `OperatorsRowStands` |
| | `RunsStayExclusive`, `FoundStayKept`, `PendingStaysWithoutToken` | `RunsAreExclusive`, `FoundAreKept`, `PendingHasNoToken` |

**AccountDb** (`CanonicalAssumption`, `NoneAssumption`, `StatusAssumption`). Each
operator that rewrites the allocation table has one lemma: it is `Safe`, that
is, it yields a table, lets no address leave `Taken`, and keeps primary flags
right. `NextIsSafe` collects them. Types and flags are inductive as they stand;
`NeverBack` is the step relation; `AccountEmailNotInPool` is inductive with the
types, because CreateAccount writes the row of its address in its transaction
and no later step takes it out of `Taken`. `OwnersAreStable` rests on the
`Follows` lemmas: what each rewriting does to the owner of a row whose status is
final. `RestartRepairs` says nothing of the backfill while it runs; `BackfillInv`
says for each of its statements what the ones before it established
(`RowsMatch`, then `PrimariesBlocked`, then `AliasesBlocked`) and that it keeps
this, which holds because no request is served before the last one. It needs
besides that emails of accounts differ (`EmailsDiffer`), and that rows of
primaries and of aliases are what `Canonical`, which is idempotent, says
(`KinRows`).

**EmailPool** (`PoolAssumption`, `OutcomesAssumption`, `CallersAssumption`: what
the callers send is among the statuses `AccountDb` is told they may send).
`PoolImplementsAccountDb` takes the steps one by one: a call that account-db
answers is a handler with arguments of `AccountDb`, every other step leaves both
tables alone. So the invariants of `AccountDb` hold here, and the proofs below
begin from them. They see a step in two ways: what it does to the registration
(`Moves`, one disjunct for each turn a job can take, such as `Started` or an
attempt that ends) and what it does to the tables. Of the tables a step gives
an address to one account (`HandsOut`) or to nobody (`NoneHandedOut`), and
there is one lemma of each kind for every operator that rewrites them.
`GrantsSound` needs that a job about to create its account owns the row of
its address. `LeaksAreBounded` needs `LeakInv`: the addresses an
account has a claim on (`Held`) are at most the attempts whose address is settled
(`Spent`). The attempt under way counts from step "create" on, for only then has
it been given one: a count that includes it from its start says nothing against a
second address for the same attempt.

**OtpRelay** (`RelayAssumption`). `NoLostWakeup` alone is not inductive: a submit
makes a new channel, and a waiter holding a channel not made yet would be taken
for one that listens to it; `ChannelIsPast` in `IInv` excludes that.
`NothingVanishes` rests on `PurgeRemoves`, the cardinality of an interval:
what the purge cuts off a full slice has `MaxItems` later ones behind it. For
`ImplementsOtpBox`, `Submit` maps to `Send`, `Take` to `Hand`, every other step
to `Drop`, which includes stuttering.

**OtpWait** (`WaitAssumption`). `UsedOnce` is not inductive: a code is in hand
from its read to its use. In `OnceInv`, `RowIsUnused` says that what can still
be read was not used, `HandIsUnused` that what is in hand was not, `HandIsGone`
that the row was deleted before the use, and `CodesAreStored` that a new code
differs from all of them. `FoundIsFresh` needs the path of a code from its store
to the workflow: `TimeIsStored` for the one read from the parameters,
`ActivityIsFresh` and `FutureIsFresh` for the one the activity reports, which
belongs to the round that started it and found its code after the request.

**JobEvents** (`EventsAssumption`). `EventInv` says of each writer that its id is
its own, that the row is there from its commit on and empty until it fills it
(`WriterOK`); of each stream that its batch is in the table beyond its cursor,
that what its client was shown last is the version of an event up to the cursor,
and that, when it sleeps or is about to with its channel empty, the filled events
beyond its cursor are about to be published or are still to be sent
(`WatcherOK`). The last part is why no wakeup is lost: a writer that fills an
event in wakes every stream *after* it. `ListIsComplete` shows that a List that
is not full returned everything beyond the cursor; it needs least and greatest
elements of sets of ids (`FirstId`, `LastId`).

**PaymentFlow** (`PaymentAssumption`). `PayInv` relates the money to what every
thread still intends to do with it. `MoneyOK`: a workflow has no charge, or one
charge on one flow, unpaid or paid. `HandlerOK`: a handler before its charge has
found none, between charge and payment has found one unpaid, after it one paid.
`WorkflowOK` and `ReplyOK`: where a workflow is, and what it is told, says which
of these holds; a missing flow, for instance, has not been charged, which is
what lets a fresh one take its place. `ReplayOK`: the app pays a charge that no
handler works on. `CallOK`: a workflow waits for the handler it called. These
parts are inductive only together. The steps of handlers, replay and workflow
have a lemma for each kind of change (a handler goes on, replies, asks for
money; a workflow moves, calls, ends), under which the actions fall.

`SessionInv` is about `store` and `charger`. `OwnersOK`: a flow is in the store
exactly when its charger is open, but for the one flow a handler holds outside
the store (`Holding`: the making of a flow, and ConfirmGoPayPayment from its pop
on). `SparedOK`: where a handler works on a flow that others can find
(`Sharing`), it is still there, or the caller has given up. `NewFlowsOK`: what a
call is about to make does not exist yet. `KnownOK`: a workflow that met no fault
knows the one flow it has in the store (`Known`), and an answer after which it
lets go of it without a cancel (`LetGo`) comes when the handler has removed it.
The last is why a flow that outlives its payment has a cause; it needs the
reply and the flow together, and is inductive only with the other three and with
`PayInv`.

**BrowserFlow** (`BrowserAssumption`). `OneInv`: a flow that can still do
something uncancelled is the one in the registry, and a call that joins has
cancelled its flow. `CodeInv`: whose turn it is between workflow and flow
(`InTurn`), and that a code is handed over at most once before it is entered.
`LossInv` has two parts, each of which ends with a `Fault`: as long as no call, OTP or
cancel was lost (`Kept`), a workflow knows where its call is and has no flow in
the registry before its start and after its end (`CallOK`); as long as nothing at
all went wrong, what a call is told is what became of the flow (`ToldOK`). The
first gives `BlockersHaveACause`, and the second is inductive only with the first.
`SuccessIsReported` excuses less than every fault: an OTP that could not be read
and a cancel that was lost lose no account. So `SettleInv` carries the second
part on to what is no `Excuse`: a flow whose OTP could not be read can only wait
or fail, and a cancel comes when the outcome is known.

**GoPayAccount** (`GoPayAssumption`). Calls are many, what they do to a session is
little. `Follows(s, t)` says it: stage and tokens of `t` fit, its temporary token
and its counts are those of `s`, and its active token is that of `s`, or opens
the account on the user's phone, or is the one a login was waiting for. Every
helper that leaves the provider alone follows, following is transitive, and so
`CallKinds` leaves five kinds of calls: one that follows (`Answered`), one that
signs an account up, one whose signup took place unheard (`SignsUpUnheard`),
ChangePhoneComplete and DeactivateComplete. After an unheard signup or
deactivation, `Shape` and `Placed` still hold, for the session did not change and
an account that is gone has moved before.
`BaseInv` holds of sessions however old. `Shape`: the stage has its tokens, and a
change that waits was begun below the limit. `Placed`: a temporary token opens an
account that moved or is gone, and an account that is logged in was signed up;
from it `DeactivatedHaveMoved` follows. `ClientOK`: a client that is not stale has
the row or work to save, and counts no less than the row does. `TmpOfRow`:
two such clients share a temporary token only if it is the row's.
`KeptInv` adds where the tokens are, for the account on the user's phone
(`MainKept`) and those that moved (`TmpKept`): in the row and then with everyone
who has it, or with a client that has it to save. `KnownInv` adds what sessions
know. `SessionKnowsThePhones` speaks of times when nobody has work to save, so it
needs what is so in between: while nothing was lost and no one works on an older
row (`Doomed`), the row is right about the phones (`Right`), or a client
has changed something at the provider that its session shows and the row does not
(`Differs`); and each session is right, or another client differs. When
that client saves, the others become stale, and what they have is lost,
saved or not. For `PhoneUseStaysBounded`, the row or the session of the only
client with work to save is right, so its count is the number of moves.

**PhoneBot** (`BotAssumption`). `LoopOK`: between the offset and the loop every update
failed, and behind the loop every one was tried; with it `AcknowledgedIsTried`. What
is expected needs `DialogueOK`, what a dialogue can ask for, and, for a
user none of whose updates failed, `UserOK`: at most one update of that
user is still to come, and the dialogue has not moved since the question it
answers. A failed update is given to the bot again after the user went on, which
is why the property excepts its user.

**SmsActivations** (`SmsAssumption`). `RentInv`: a workflow between two of its
steps has rented the number it holds, every goroutine cancels a number that was
rented and given up, and a round that is going on is within its counters.
`SpendInv`: numbers rented so far are at most the failures counted, plus one
while a number is held. `RowInv`: when the bootstrap has found no row and there
is one, an operator wrote it in between.

**MailboxRegistration** (`RegistrationAssumption`). `RegInv`: a job that is not
answered holds no records, records name mailboxes of the files and tokens that
were written, only a mailbox of the tokens file has a token, and one job runs;
with them `FoundAreKept` and `PendingHasNoToken` are inductive.

## 6. Only model-checked

* Liveness (`WaitReturns`, `FilledReachesStreams`, `WaitEnds`, `WorkflowsEnd`,
  `UpdateIsTried`, `RentalEnds`, `JobsEnd`): fairness is beyond the prover. Every
  other property of a passing run is a theorem of section 5.

## 7. Not modelled

* External sites and providers: their answers are nondeterministic choices of
  the models, failure and delay among them. That includes what a browser clicks,
  how a child process registers a mailbox, captchas, fingerprints, request
  signing and HTTP retries.
* Polling of mail folders, the OTP cache and the inbox table of
  `outlook-imap-service`: what they find is an input of `OtpWait`. Its mailbox
  rows are in `EmailPool` and `MailboxRegistration`.
* Step rows of a job (`job_steps`) and job creation: `JobEvents` reduces a job to
  a status and a version, which is what its stream tells apart.
* The order in which the workflows of GoPay signup, login and deactivation make
  their calls: `GoPayAccount` has the calls in any order, which includes theirs.
* The status a client of the dashboard may put into its request to add a mailbox
  (`dashboard/main.go:255`), which is passed on to account-db: `EmailPool` has the
  statuses that follow from the outcome of the authorization. `JobEvents` reads a
  job's snapshot in one step, where the code queries the job and its step rows.
* Price and country queries of the SMS service, bot
  menus and phone checks, profile and PIN settings: they change no state the
  properties depend on.
* Parsing of message texts, HTTP routing, settings, logging, deployment, the web
  client, the forwarding app and generated code.
