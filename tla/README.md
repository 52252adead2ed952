# Verification of the resume builder

TLA+ models of the service in `src/`, the TLC configurations that check them, and
theorems about them that TLAPS proves for every value of the constants. File names below
are relative to `src/`; `apps/web/` and `packages/` are left out where they are obvious.

The service tailors a resume to a job description with a language model. A user's first
run is free; later runs are locked until a payment arrives from Stripe or NOWPayments. It
is one asyncio process (FastAPI, NiceGUI, one uvicorn worker) over PostgreSQL at READ
COMMITTED, Redis, S3 and a LangGraph agent, so everything that awaits interleaves with
everything else, and everything in memory dies with the process.

## 1. Inventory

| Part (source) | State it keeps | Operations | Talks to | What must be right | Module |
|---|---|---|---|---|---|
| Access rules (`core/access/service.py`) | `users.free_trial_used`, `agent_runs.output_locked`, `payment_id` | decide a launch, view, export, upload; unlock; mark the trial used | every handler | open output hangs on a completed checkout of its owner, the trial flag is exact | Paywall |
| Billing API (`api/v1/billing.py`) | `payments` rows | Stripe checkout, verify, crypto invoice | both providers, access rules | no paid charge is forgotten | Paywall |
| Stripe confirmation (`services/stripe_billing.py`) | the same rows | find the paid session of a run, confirm, unlock | Stripe API | finds it among several rows and sessions | Paywall |
| Stripe and crypto webhooks (`webhooks/stripe.py`, `crypto.py`) | `stripe_events`, `crypto_webhook_events` | one handler each | providers retry them | an acknowledged event has had its effect, once | Paywall |
| Run launcher (`services/run_launcher.py`) | `agent_runs` row | decide, insert, schedule a task | access rules, executor | a decision is still good when it is committed | Paywall, RunLifecycle |
| Run executor (`services/run_executor.py`) | run status, in-memory queue per run | start, node events, result, last commit | agent graph, watchers | the lock of a payment made meanwhile survives; watchers learn the end | Paywall, RunLifecycle |
| Stream and page progress (`api/v1/runs.py`, `ui/run_progress.py`) | a reader of the queue | open, receive, leave, reconnect | executor's queue | nobody waits for ever; what is shown was committed | RunLifecycle |
| Run editor (`services/run_editor.py`, PATCH/POST of `runs.py`) | `agent_runs.final_output` (one JSON column) | select a variant, override a section, generate a variant, add a section | language model, executor | an acknowledged edit stays | RunEditor |
| Agent graph (`agent/graph.py`, `nodes/`, `sections/`) | the LangGraph state | seven nodes, concurrent rewrites, retry loop | language model, checkpointer | what is published was reviewed; the graph ends | AgentGraph |
| Match score (`scoring/match_score.py`, keyword fallbacks of the analysts) | the scores in the document, two columns of `agent_runs` | score a text, rescore after tailoring, judge the fit, follow edits | graph, executor, editor | scores stay in range; copies of one score agree | MatchScore, RunScores |
| Authentication (`api/v1/auth.py`, `core/security/jwt.py`, `dependencies.py`, `cognito.py`) | `users`, `device_sessions`, `refresh_tokens` | register, login, device user, refresh, logout, Cognito exchange | every request | one user per identity; a session that ended stays ended | Accounts |
| Page (`ui/app.py`, `workflow_session.py`) | a dictionary per page load, session storage | bootstrap, poll, upload, score preview, tailor, generate, pay, start over | all endpoints above | a late answer does not show another run; a paid run is shown; the button comes back | PageInputs, PageWorkflow |
| Process start-up (`main.py`, `agent/checkpointer.py`, `s3_bootstrap.py`) | checkpoint tables, the bucket, a ready flag | migrate, create the bucket | PostgreSQL, S3 | a process serves once every migration is recorded; it comes up when it is started again | Startup |
| Rate limiter (`middleware/rate_limit.py`) | counters in Redis, a dictionary as fallback | count a request | Redis | the limit holds per counter while Redis comes and goes; no address is refused early | Service |
| Resume upload and exports (`resumes.py`, `exports.py`) | rows and S3 objects | upload, export, download | access rules, S3 | export follows viewing | export rule in Paywall, the page's upload in PageInputs; storage not modelled |
| Providers, changelog, export renderers, health, configuration, deployment | none, or I/O only | | | | not modelled (section 8) |

What makes it hard, and where the models aim:

* **Handlers cut by awaits.** A verify call reads the run, asks Stripe, and writes; the webhook
  for the same session does the same; a checkout creates a second session between them.
* **Unique keys as the only lock.** `payments.provider_payment_id`, `stripe_events.event_id` and
  `crypto_webhook_events.payment_id` decide races by making one commit fail.
* **Values captured minutes before they are written back**: `output_locked` in the executor, the
  whole document in the editor.
* **Providers that retry, reorder and repeat** their notifications.
* **A queue with several readers** and an end that is announced before it is committed.
* **Restarts**: tasks, queues and handlers vanish, rows stay.
* **A language model that answers anything**, or raises, or raises while its siblings run on.
* **One dictionary per page, eight callbacks.** Each suspends at its HTTP call and applies the answer to whatever the
  others have made of the page since.
* **Several processes at a start**, each migrating the same tables with statements that are no transactions, and a
  limiter that counts in two places.

Each such place is listed in `PROJECT.json` under `hazards` with its line and the properties
that would notice it going wrong.

## 2. Modules

```
PaywallContract <--refines-- Paywall                    <- PaywallProofs
                             RunLifecycle               <- RunLifecycleProofs
                             RunEditor                  <- RunEditorProofs
DraftReview     <--refines-- AgentGraph                 <- AgentGraphProofs
                             MatchScore <- RunScores    <- RunScoresProofs
                             Startup    <- Service      <- ServiceProofs
                             PageInputs <- PageWorkflow <- PageProofs
                             Accounts                   <- AccountsProofs
MCPaywall, MCRunLifecycle, MCRunEditor, MCAgentGraph, MCRunScores, MCService, MCPageWorkflow,
MCAccounts: TLC instances
```

The modules meet at the executor. `Paywall!ExecStart`/`ExecFinish` keep its effect on locks and
the trial, `RunLifecycle` its status, commits and queue, `RunEditor!AgentCompletes` its write of
`final_output`, and `AgentGraph` the graph it awaits. What one relies on is a property of another:
`RunEditor!Unlock` has no inverse because of `Paywall!NeverRelocked`; `RunLifecycle`'s fairness of
the graph is `AgentGraph!GraphEnds`; the page relies on an end for every run that is executed, announced or lost
(`RunLifecycle!RunReachesEnd`, and what it excuses). `RunScores`
takes the edits of `RunEditor` for what they do to scores, `PageWorkflow` the runs and payments as the API serves them.
`PageWorkflow` composes the page's left half (`PageInputs`) with its runs; `Service` composes the processes of
`Startup` with the requests they handle once they are up.

Definitions whose comment says they are a *slip* are plausible mistakes in the code next to which
they stand (a dropped check, a commit too early). They are in no next-state relation:
`PROJECT.json` pairs each property with the slip that breaks it, which shows that the property
depends on the code being as it is.

### Paywall and PaywallContract

Variables are the database rows (`freeTrialUsed`, `run`, `pay`, `stripeEvents`, `cryptoEvents`), the
providers (`session`, `invoice`, `ipnAcked`) and the requests in flight (`exec`, `hook`, `verify`).
A handler is one action per stretch between two awaits *with a value in hand*:

| Code | Actions |
|---|---|
| `create_run_record` | `LaunchAsk` (the request loads its user, with the trial flag of that moment), `LaunchDecide` (the access decision, by the loaded flag), `LaunchCommit` (the payment is read again, the row committed) |
| `execute_run` | `ExecStart` (captures `output_locked`), `ExecFinish` (writes it back through `WriteBack`: an attribute equal to the one loaded is not in the UPDATE) |
| `stripe_checkout` | `StripeCheckout`, `CheckoutRowLost` (the session exists, its row is rolled back) |
| `stripe_webhook` | `StripeWebhookSelect`, then `StripeWebhookCommit` or `StripeWebhookConflict` (unique key: rollback, 500, retried) |
| `stripe_verify`, `sync_stripe_payment_for_run`, `confirm_stripe_payment` | `VerifyRead`, then one SELECT at a time `VerifyConfirmed`, `VerifyPending`, `VerifyOwn`, `VerifyUnowned`, then `VerifyCommit`, `VerifyUnlock` or `VerifyConflict` |
| `crypto_invoice` | `CryptoInvoice`, `CryptoInvoiceCommit` (under the provider's id, or under a uuid of our own if the answer has none) |
| `crypto_webhook` | `CryptoIpn` |
| lifespan, crash | `Restart` |
| customers, clock | `CustomerCompletes` (paid or unpaid), `DelayedPayment` (an unpaid session is paid or lapses), `CryptoPaid`, `Tick` |

What Stripe calls completed need not be paid: with a delayed payment method `checkout.session.completed` carries the
payment status `unpaid`. The webhook opens the run without reading it; the verify endpoint reads it. `CompletedAs` is the
set of statuses a checkout may complete with. `OpenRunHasItsCheckout` is what the handlers guarantee for either set;
`OpenRunIsPaid` holds while every method pays at once (`CompletedAs = {"paid"}`) and is violated otherwise (section 6).

Abstractions. The crypto handler is one action: it holds nothing across an await that another
handler changes except through the unique event row, whose loser rolls back. One event
per session has one webhook handler at a time; a second delivery of it loses on `stripe_events` in
the same way. A payment's identifier is its place in `created_at` order. Not modelled: the BLOCKED
decision (the user's row always exists, the dependency has loaded it), the `order_id` branch of the
crypto webhook (dead: every invoice has a run), refunds (the plan's line 510 mentions
`charge.refunded`; no code handles it). `can_export` is called by tests only; the endpoint's own rule is
`CreateExport`, and `ViewAndExportFollowTheLock` compares the two.

`PaywallContract` is the promise without mechanism: owners, readable runs, trial runs and runs with a completed checkout.
A run becomes readable when it is launched as free, in the wake of a checkout its owner completed, or by a completed checkout
for itself; nothing closes it, and no checkout is taken back. It deliberately says *completed* and not *paid*, since that is
what the handlers go by.

### RunLifecycle

One run: runs share nothing here, each has its queue. `task` is the coroutine's place, `verdict` the status set on the
loaded row and not committed, `queue` the queue in memory, `listener` what each watcher was told. A *fault* is a
database or page call that raises outside the executor's `try`; a *restart* loses everything but `status`. The end is
put on the queue in `GraphEnds`/`GraphRaises` and committed in `Commit`, as in the code. A stream that finds the queue
already used and the status not final waits; the page goes on only when both its watcher and the execution have
returned. After the end `done` it reads the row once and shows the body as a result, whatever the status says:
`refresh_run` never looks at it. `shown` is therefore `result` also for a run that was committed as failed; `error`
comes from an announced error only, and `unread` is a refresh that was not answered. `PageShowsACommittedEnd` says
that what is shown as an end is committed, and no more. The branch for a missing resume cannot be taken (foreign key)
and is not modelled; neither is the old page's watcher after a reload.

### RunEditor

`row` is `final_output`: built variants with their sections, the selected variant, the user's overrides, the
sections shown, and whether `plain_text` starts with the contact header. `Load` reads the row and checks the
lock, `Save` writes the document computed from what was loaded, and everything may happen between them; that is
the code's read-await-write without lock or version. A text is the request that wrote it. `log` is a history of
committed writes, each with the length of the history its request had read.

Reading the editor also showed the following, which no documented promise contradicts and which the model contains as
the code has it: selecting a variant or overriding a section drops the header from `plain_text` (`contact`);
generating the selected variant leaves `sections` as they were; generating a variant again loses a section added to it
(`run_editor.py:143`); adding a section turns variants that were never built into partial ones and bakes the current
overrides into every variant, so that an old override reappears after it was replaced and another section edited.

### AgentGraph and DraftReview

`node` is the node that runs next. A text is what validation can tell of it: supported, with a year the resume does
not have, or with another unsupported claim. The rewrite calls of one gather are concurrent: the first one that raises
ends the gather and the graph, the rest run on as stragglers. The rule alone rejects a draft with an invented year;
otherwise the model decides, freely. Only rewrites, the validation call and the checkpointer can abort a run, the
other model calls have fallbacks. `DraftReview` is what the code keeps: drafts are submitted, accepted or rejected, at
most `Tries` of them, and the draft reviewed last is published with its verdict on record. It is *not* what the plan
says of a draft that was rejected on every try; see `fail_closed` in section 6. Accordingly
`PublishedIsTheReviewedDraft` is about which draft is published, and `PassedOutputHasNoInventedYear` only about output
that passed.

Two things the model makes visible. On a retry `SourceOf` hands the *rejected draft* to the rewrite as its
source section, because `section_drafts` takes precedence over the parsed resume
(`sections/orchestrator.py:24`), under a prompt that says "do not invent beyond this" (`sections/agent.py:165`). And
the plan's "retry (max 2)" (line 234) is one retry: two drafts in all (`RetryLimit`).

### Accounts

`users`, `sessions` (how many `device_sessions` rows a user has per device) and `tokens` are the tables; `calls` is
what each request in flight has read. A handler is one READ COMMITTED transaction: a `...Select` action reads, a
`...Commit` writes if the unique keys of `users` still allow it, a `...Conflict` is the 500 of the loser.
`device_sessions` has no unique key in the schema, although the plan (line 357) gives it one. `answered` and `taken`
are histories: with which users each Cognito account was signed in, and which users were then linked to another
account. An account is a sub that never changes; the address it has verified, if any, is chosen anew at every exchange
(`claim`), by any account. As in the code, a verified address finds the user who has it and overwrites that user's
`cognito_sub` (`dependencies.py:109-113`). `IdentityKeepsAccount` is therefore about the users that were not taken
over this way; no document says that an account keeps its user then. Access tokens are signed copies of a user id that
nothing revokes, and are left out; so is Cognito itself, which is external and answers with a sub and with an address
that is verified or not.

What the model contains as the code has it: two logins of a local user on a new device both insert a session row, after
which `scalar_one_or_none` answers 500 to every login there (`auth.py:112`); an account first seen unverified lives under a
placeholder address, and if a local user has its real address, each verified exchange breaks the unique email and is
answered 500 (`dependencies.py:105`); a refresh that selected its token before a logout mints a live one after it. A
fingerprint of the browser script is `fp-` and 64 hex digits, 67 characters, where the column takes 64
(`dependencies.py:45`): conversions of strings are below the model.

### PageInputs and PageWorkflow

`page` is the state dictionary of a page load, `view` what the browser shows, `task` where each of the eight callbacks
is suspended and with which answer, `store` the copy in `sessionStorage`, `run` the rows behind the API. A callback is
one action per stretch between two awaits; a request and its answer are one step (the answer is of that moment),
applied when the callback runs again. Cancelling and scheduling the debounced score are as in the code (`Scheduled`).
A return from Stripe or a reload (`ReturnPaid`, `ReturnCancelled`, `Reload`) is a fresh page over the same rows.

What fails is in the model: a GET that is not answered with 200 leaves the page alone (`AnswerFails`), a browser script that is
not answered in time, or a call that raises, ends its callback where it is (`Raises`), and an executor may be lost before it
announces an end (`RunEnds`). Each failure uses up an event, like each act of the user.

Abstractions: `payments_enabled` is on; a callback of one kind runs once at a time; the user does not dismiss the paywall
dialog. `view.late`, `view.stuck` and `view.gaveUp` are histories of the view.

The properties name their exceptions, and each exception is something the code does:

* a late answer after New resume shows the old run (`app.py:729`), the bootstrap replaces a run started while it was reading
  (`app.py:1139`), an older list or run reverts the selected resume (`app.py:590`): `late`;
* `save_browser_workflow` is awaited after the button is set loading and before the `try` whose `finally` gives it back
  (`app.py:1003`): if the browser does not answer, the button stays loading and the run is never executed (`stuck`); it also
  stays while a run's end is never announced (`app.py:1009`);
* `refresh_run` returns nothing for an answer other than 200, and the bootstrap then takes the fresh page's empty run for
  one that is not locked, stops polling, closes the dialog and forgets the workflow (`app.py:733-735`, `1129-1136`): `gaveUp`;
* a locked answer asked for before the payment settled may replace the full text when the timer is already off (`app.py:1103`);
* a job typed before the account is loaded is never scored (`app.py:622`), and a score is remembered by job only, so a score of
  the old resume that arrives during an upload stands for the new one (`app.py:634`).

Beyond the properties: after a paid return and a failed Tailor the page still says "Payment confirmed" and exports the failed
run, and "Waiting for payment" stays for ever if New resume is clicked during a crypto invoice.

### MatchScore and RunScores

`MatchScore` has no state: the analyses by keywords and `compute_match_score` with its five components, its weights,
its penalty and its rounding, as operators on integers (hundredths of a point). A text is, per section, the set of
words a posting can ask for. `RunScores` is the way of the two scores of a run from the agent to the last edit, with
every copy of them: `previous` and `current` in the document, the variants' own, and the columns `before` and `after`.
`byRule` and `edits` are histories: what was judged by keywords, and which edits happened since the document was last
built. Rescoring may fail at any point and then keeps the first score (`RescoreSkipped`, `graph.py:74-78`).

In the model as in the code: after a variant is selected or generated, the column, the document and the variant show
different after-scores (`AfterScoresAgree` says until when they agree); `add_section` builds the document without the fit
assessment; a score of zero is served as none (`runs.py:63`); and a before-score by the model beside an after-score
by keywords, or the reverse, are numbers of two different scales, which is why `TailoringNeverLowersTheScore` asks
for keywords on both sides.

### Startup and Service

`applied` and `recorded` are the checkpoint migrations and their rows, each written in autocommit; `phase`, `at` and `ready` are
the processes. The library's migrations can be repeated, but some (`Indexes`) are `CREATE INDEX CONCURRENTLY IF NOT EXISTS`:
`ApplyInterrupted` leaves an invalid index behind (`broken`), which `Apply` finds by its name and does not repair, and `Record`
then vouches for. So a process may serve on an invalid index; `ServesOnceAllIsRecorded` says that it does not as long as
nothing failed, `ServesOnValidSchema` (section 6) that it never does. The bucket's probe may answer anything: an
error without a status leads to a creation whatever the bucket, a 5xx ends the bootstrap whatever the bucket.

`Service` adds the requests of one endpoint class from one peer address, any number of them in flight in each process
(`request`): each has the window it read from the clock, waits for its count, and is admitted, refused, or lost with
its process. The key names the peer address and no user, so requests of several `Customers` share it: the page calls
the API from the server through httpx, and nothing makes uvicorn read a forwarded address. `Local` lets requests of
the machine itself through uncounted. `redis` and `memory` are the counters, `counters` counts, per window, how many
counters took requests. A request whose answer from Redis is lost is counted twice. `CounterExpires` is the key's
expiry. The migrations' own statements, Redis and whoever starts a process that exited are external.

Also seen: the production script points `REDIS_URL` at a port nobody listens on (`apprunner-prod.sh`), so there each process
counts alone.

## 3. Runs

| Run | Configuration | Shows |
|---|---|---|
| `paywall` | MCPaywall.cfg: 1 user, 2 runs, 2 sessions, 1 invoice, 1 verify call, 2 payment rows, 1 restart, 1 tick, checkouts complete paid; 1,109,632 states | `OpenRunIsPaid`, `ConfirmedOpensItsRun`, `RecordedEventOpensRun`, `TrialFlagExact`, `ViewAndExportFollowTheLock`; steps: `NeverRelocked`, `TrialNotReopened`, `WindowRestartsOnlyInFlight` |
| `paywall_polling` | MCPaywallPolling.cfg: the same without invoice and tick, checkouts complete paid or unpaid; 319,240 states | `OpenRunHasItsCheckout`, `ImplementsContract`; with polling and webhook retries a paid session always opens its run |
| `delayed_payment` | MCPaywallDelayed.cfg | `OpenRunIsPaid` **violated**: a checkout that completes unpaid opens the run |
| `run_lifecycle` | MCRunLifecycle.cfg: page and 2 streams, 2 node events, 1 restart, 1 fault; 1,413 states | nobody waits for nothing, an error is final, an end is shown only once it is committed; the run ends and watchers are released unless a mishap is to blame |
| `run_editor` | MCRunEditor.cfg: 3 requests, 2 sections, 2 variants; 66,194 states | acknowledged overrides and built variants stay, except under a write that had loaded the row before |
| `hidden_edit` | MCRunEditorShown.cfg | `EditedTextIsShown` **violated**: a second edit hides the first |
| `agent_graph` | MCAgentGraph.cfg: 2 sections; 51,981 states | the draft published is the one reviewed last, output that passed has no invented year, the graph ends, `ImplementsReview` |
| `fail_closed` | MCAgentGraphClosed.cfg: 1 section | `RejectedDraftIsNotPublished` **violated**: a draft rejected on every try is published |
| `accounts` | MCAccounts.cfg: 2 requests, 3 users, 3 sign-ins, 2 addresses, 2 Cognito accounts, 2 devices; 267,760 states | an identity keeps a user nobody took over, a device's user its one row, an ended session stays ended |
| `page` | MCPageWorkflow.cfg: 2 runs, 1 job, 1 resume, 4 events; 651,934 states | the output shown is the page's run, the typed job is scored, the Tailor button comes back, a paid run is shown |
| `scoring` | MCRunScores.cfg: 6 terms, several analyses of 2 jobs, 2 variants, 2 edits; 239,056 states | scores in range, copies agree, the rule's verdict is of the score shown, keywords never take points from a text that kept its words |
| `service` | MCService.cfg: 2 processes, migrations 0..1, the second an index, 1 bucket attempt, 1 fault, 2 windows, limit 1, 3 requests; 1,785,312 states | `ServesOnceAllIsRecorded`, `StartedAgainComesUp`, `RaceHasAWinner`, `AdmittedWithinLimits`, `RefusedOnlyAboveLimit` |

Further configurations refute statements of the docs in the same way; each checks one formula, which TLC finds
violated. They are told in section 6.

| Configuration | Formula refuted |
|---|---|
| MCPaywallWebhookOnly.cfg | `PaidSessionOpensRun` with the webhook alone |
| MCPaywallIpn.cfg | `FinishedIpnOpensRun` |
| MCPaywallNoId.cfg | `FinishedIpnHasItsPayment` |
| MCPaywallTrial.cfg | `OneFreeRun` |
| MCRunLifecycleFailed.cfg | `FailedRunIsShownAsOne` |
| MCPageWorkflowPolls.cfg | `PollsUntilUnlocked` |
| MCServiceValid.cfg | `ServesOnValidSchema` |
| MCServiceShared.cfg | `RefusedOnlyAboveOwnLimit` |

Why the bounds are enough. Two runs of one user are what the trial, a payment that opens another run, and a verify
call for the wrong run need; users share no row, and what a second user could add (a row of somebody else) is covered
by the proofs, which bound nothing. Two sessions give an older and a newer checkout of a run, the pair every
confirmation race is about; two payment rows are both of them, or one and the invoice's. One tick with `Window = 0` is
the window closing at any point of any handler. Three edit requests are a victim and two writers, or a victim, a
supersession and a race. Two streams and the page are one watcher that takes the end, one that misses it and the one
that goes on. Two sections are a call that raises and a straggler; one of the two is `Skills`, the only special
section. Two requests are every race of two transactions, three users a local one, an identity's and a device's; the
token bound lets a family be rotated twice beside another. Four events of the page are a job, an upload, a Tailor and
a New resume, a payment or a failing call; two runs are the one shown and the one that replaces it. One job is enough
for what the run asks of the score, which New resume clears and the user types again; `TypedJobGetsScored` proves it
for any jobs and resumes. Two processes are both sides of the race for a migration's row, and of two migrations one is
the index; one fault is one death at each point or one Redis outage, and Redis may be down from the start. A limit of
one with three requests lets two counters, Redis and a memory, each admit one and the third request exceed the bound
if a counter let it; two windows are a request counted after its own. `Interchangeable`, `AnyRequest`, `Symmetry` and
`RequestSymmetry` permute model values that nothing distinguishes, in runs without liveness only.

Every configuration says `CHECK_DEADLOCK FALSE`: a run, a graph, a page with its events used up and a bounded set of requests
really come to an end. `TypeOK` of Paywall, RunEditor, Accounts, PageWorkflow and Service, `BeforeScoreStays` of RunScores and
`RecordedTookEffect` of Startup are proved and not in a run.

## 4. Fairness

* `WebhookFairness`: Stripe repeats an event until it is answered with 200, so the handler of an enabled event
  runs again and again. Nothing forces customers to pay, users to launch or the clock to tick.
* `PollingFairness`: the page's 2.5 s timer (`ui/app.py`, `ui.timer(2.5, poll_after_payment)`) calls the verify
  endpoint as long as the page is open; the property is a promise to a customer who stays. A verify call under way ends.
* RunLifecycle `Fairness`: the event loop runs ready tasks; the graph ends (AgentGraph, and 90 s timeouts of the providers'
  clients, `providers/_http.py:14`, `anthropic_provider.py:36`); a connected watcher keeps reading; the page's refresh
  after the end is answered or fails. Restarts, faults,
  opening and leaving a stream are not forced.
* AgentGraph `FairSpec`: the next node runs, a call ends one way or the other within its timeout.
* PageWorkflow `Fairness`: the event loop resumes the bootstrap, the poll and the Tailor callback, whose requests go
  to the same server and are answered or fail; what is executed ends or is lost, and an end need not be announced.
  Customers, Stripe, the webhook, score previews and variants are not forced.
* Service `FairSpec`: the event loop runs a start that has begun. Nothing starts a process that exited:
  `docker-compose.yml:48-64` gives `web` no restart policy, README.md:431 has the developer do it, and a deployment of
  App Runner that fails stays failed (`apprunner-prod.sh:202-205`). `StartedAgainComesUp` is a promise to whoever does
  start it whenever it exits. Faults are bounded and not forced; nothing is promised of requests.

## 5. What is proved

All proofs are checked by tlapm to the last leaf, for any finite or infinite sets and any bounds allowed by the
assumptions (`PaywallAssumption`, `LifecycleAssumption`, `EditorAssumption`, `GraphAssumption`, `StartupAssumption`,
`ServiceAssumption`, `WordAssumption`, `ScoreAssumption`, `AccountsAssumption`, `PageInputsAssumption`,
`PageAssumption`: bounds are naturals, the values that mean "none" are none of the things they stand beside, the
default variant is a variant, processes are finitely many, and the analyses are analyses; an analysis of a posting by
keywords has requirements if it has keywords, which `KeywordJobTyped` proves of the code's fallback; requests of
`Service` are finitely many; the workspace has room for at least one resume). Two theorems assume more and say so:
`GraphIsFinite` that there are finitely many sections, and `OpenRunsArePaid` that checkouts complete paid only.
Nothing is assumed of which account verifies which address.

The proofs of the components share a shape. A handler or callback acts on what it read before an await, so no property
is inductive by itself: the invariant has to say of every value in a handler's hands what still relates it to the
tables or the page. That part is kept by the steps of all others because what it relies on only grows (`RunsGrow`,
`UsersLast`, `BasesThroughGrowth`); each module states this once as lemmas and cites them in one lemma per action.

**Paywall** (`PaywallProofs`). `Invariance` proves `[]IInv`. That a confirmation opens the right run depends on what a
handler holds across its awaits. `IInv` says that a row names an existing run of its user and a charge its provider
knows, and if confirmed has a completed checkout behind it and the run open (`RowSound`); that an open run is free or
hangs on a confirmed payment of its user (`RunSound`); and that a row held by a webhook or a verify call is still a
Stripe row of the run, and if its reference changed meanwhile then whoever changed it has also confirmed it
(`HeldRow`, `HookSound`, `VerifySound`). Each part has a step lemma (`RowsStep`, `RunsStep`, `SessionsStep`,
`InvoicesStep`, `HooksStep`, `VerifiesStep`, `RecordedStep`, `TrialStep`) over monotonicity lemmas (`RunsGrow`,
`PaysGrow`, `ChargesGrow`) and the effect of one confirmation (`StripeConfirmation`, `WebhookConfirms`,
`VerifyConfirms`, `IpnEffect`). From `IInv` follow `TypeCorrect`, `OpenRunsAreCheckedOut` (whatever the status a
checkout completes with), `OpenRunsArePaid` (if that is always paid), `ConfirmationOpens`, `RecordedEventsOpen`,
`TrialFlag` and the action properties `OpenStaysOpen`, `TrialIsOver` (about requests that load their user after the
flag was set) and `WindowsStand`. `ViewFollowsTheLock` adds that a run that hangs on a payment is open
(`LinkedIsOpen`), so that each of the four ways to view or export a run comes down to its lock. `PaywallImplements`
proves that every step is a step of PaywallContract or none.

**RunLifecycle** (`RunLifecycleProofs`). `LifecycleInvariance` proves `LifecycleInv`, which adds to the three
properties how the row follows the task, that the end is on the queue or was taken once it is announced (so the length
of the queue is bounded), and that the page watches only the task of its own process. One lemma per action.
`LifecycleTypes`, `WaitersHaveAnEndToRead`, `ErrorsAreFinal` and `PageWaitsForTheCommit` follow. `RunIsFinite` counts
two for each step the task has left and one for each item on the queue: a step of the task puts at most one item, a
watcher takes one, a restart drops them all. `NoRunIsAbandoned`: a run queued or running has a task, unless a restart
or a call that raised took it.

**RunEditor** (`RunEditorProofs`). `EditorInvariance` strengthens the two properties of the row with the same
statement about every document in a request's hands, relative to the prefix of the history it had read (`BasesKeep`);
`KeptThroughGrowth` and `BasesThroughGrowth` carry such a statement over an appended write. `EditorTypes`,
`OverridesStay` and `VariantsStay` follow.

**AgentGraph** (`AgentGraphProofs`). `GraphInvariance` ties the retry counter to the drafts submitted at every node
(`CountersAgree`), the last review to what goes on to be formatted (`ReviewAgrees`) and the output to that review
(`OutputAgrees`). `GraphTypes`, `PublicationFollowsReview`, `PassedHasNoInventedYear` and `GraphImplementsReview`
follow. `GraphIsFinite`: every step takes one off `StepsLeft`, which counts the nodes left (three for each try left)
times one more than the sections, plus the calls open. A rejection spends a try and a gather opens at most one call
per section, so the graph cannot go round, whatever the model answers.

**RunScores** (`RunScoresProofs`). `ScoreInRange` is about the pure functions: rounding a quotient of at most `Full`
stays there (`RoundInRange`), the parts counted are parts (`FoundBound`, `PartOfList`, `EntriesCount`), so each
component and their weighted mean are in range for any analyses. `ScoresInvariance` proves `Inv`: which scores exist
at each step and what they are of (`Copies`, `Judged`). `ScoresTyped`, `BeforeScoreIsKept`, `AfterScoreCopies` and
`VerdictFollowsScore` follow. `MoreWordsNoLowerScore` shows that rounding, coverage, skills, evidence and penalty are
each monotone in the words of a text judged by keywords, and `TailoringKeepsTheScore` carries that to the step that
rescores.

**Service** (`ServiceProofs`). `ServiceInvariance`: the recorded migrations are a prefix `0 .. n`, because a process
reaches migration v only once all before it are recorded and the row of v can be inserted once (`Prefix`, `Placed`);
what is recorded was applied, and an index is invalid only after a fault (`Built`); and no counter of a window, with
the requests waiting to be counted in it, exceeds the requests sent in it (`CountsSent`). `RecordsAreTrue` (what a
recorded migration creates exists, though it may be an invalid index), `SchemaIsRecorded` and `RefusalsAreEarned`
follow. `AdmissionsAreEarned` is about the sum of the counters of all processes. It needs `Earned`: the admitted, with
the room left in Redis' counter and in each memory that has begun to count, are at most the limit times the counters
begun. The rooms in memory are the elements of one finite set (`RoomInMemory`), so a request takes an element or adds
those of a new counter, and no sum has to be unfolded. `OneStartGoesOn` proves `RaceHasAWinner`: as long as some
process is beaten to its row, another one is at a row that nobody has recorded, or past them all (`Led`), so while
nothing fails a step never leaves nobody running. `StartsDoNotGoRound`: who loses the race for a migration's row exits
and begins again, but behind that row, which the winner recorded; so what each start has left (`StartLeft`) never
grows between two faults.

**Accounts** (`AccountsProofs`). `AccountsInvariance` proves `Inv`, whose first part, `StillTrue`, says what a request
may still rely on of what it read: a login's user has a password, a device's user still has its address, an exchange
that found a user still finds it, with this account unless it was taken over since. This lasts because rows are never
deleted, passwords and the addresses of devices never change, and an account is only taken off a user by one that
`taken` then records (`UsersLast`, `SubsLast`, `StillTrueLasts`); what does not last, that an address is free, is
caught by the unique key at the commit. `IdentityIsKept` is about the users answered and not taken;
`NoSessionBeforeUser` and `DeviceRowIsKept` carry each other. `EndedSessionsStayEnded`: a family without a live token
and without a refresh under way (`Over`) gets none, since a sign-in begins a family of its own (`SignInJoinsNone`) and
a refresh that commits had selected a token that was live (`RotationJoinsNone`).

**PageWorkflow** (`PageProofs`). `PageInvariance` proves `TypeOK`, `NamedRunsExist` and `Coherent`. A callback's
answer is harmless because the run it names was created (`NamedRunsExist`) and because each step that takes the page
to another run empties the panel or is one of the four situations `PanelAgrees` names. `ButtonIsBusy` says that the
button is loading while the Tailor callback creates, saves or watches a run, and at no other time unless that callback
raised (`stuck`), which ties those situations to what the user sees; `ShownRunIsRight`, `ButtonHasItsCallback` and
`NoRunIsMissing` follow. That calls may fail at any await costs a lemma for each way of failing (`AnswerFailsKeeps`,
`RaisesKeeps`). `TypedJobGetsScored` needs `ScoreIsOfTheField`: a score under way is of the text in the field, since
typing replaces the task.

Only model-checked: the liveness properties. The prover has no rules for fairness or ENABLED. What is safety in them is proved:

| Property | Proved part | Left to TLC |
|---|---|---|
| `GraphEnds` | every step of the graph counts down (`GraphIsFinite`) | a step is taken |
| `StartedAgainComesUp` | starts cannot throw each other back for ever (`StartsDoNotGoRound`), and one of those that race goes on (`OneStartGoesOn`) | each start is run, and somebody starts what exited |
| `ButtonComesBack` | a loading button has its callback or is stuck (`ButtonHasItsCallback`) | that callback is run and its run ends |
| `RunReachesEnd` | a run that is not over has its task (`NoRunIsAbandoned`), every step of which counts down (`RunIsFinite`) | the task is run |
| `WatcherIsReleased` | who waits for a run that is over has its end to read (`WaitersHaveAnEndToRead`), behind finitely many items | the queue is read |
| `PaidSessionOpensRun`, `PaidRunGetsShown` | a confirmation opens its run for good (`ConfirmationOpens`, `OpenStaysOpen`) | a confirmation is made, the page is shown |

No module of the project declares a RECURSIVE operator. Every invariant and every action property that a passing run
checks is also a theorem.

## 6. Findings

Three runs of the project end in a violation. `PROJECT.json` quotes what they contradict; the trace is TLC's output for the run.

1. *A checkout that completes unpaid opens the run* (`delayed_payment`). The webhook opens the run of any
   `checkout.session.completed` and never reads `payment_status` (`webhooks/stripe.py:58-90`); nothing restricts the payment
   methods (`stripe_client.py:51-58`), and a delayed one completes unpaid and may lapse. README.md:189 says
   "Stripe webhook (unlock after payment)".
2. *A second edit hides the first* (`hidden_edit`). The exports lose text the user typed, although it is recorded as an override
   (`run_editor.py:105-107`, `tests/unit/apps/test_run_editor.py:111`).
3. *A draft rejected twice is published* (`fail_closed`). `_after_validate` sends it to `format_output` (`graph.py:99-104`);
   the plan (lines 258, 699) says the graph ends there and fails closed.

The further configurations of section 3 show the following, each by one counterexample:

* *Paying the older of two checkouts* (MCPaywallWebhookOnly.cfg). The webhook gives the event to the newest Stripe row
  of the run and writes the session's id into it (`stripe.py:64-89`); the older row already holds that id, the unique
  key fails, every retry answers 500. README.md:189 promises that the webhook unlocks; only a verify call of an open
  page does (`paywall_polling`).
* *A crypto payment that never arrives* (MCPaywallIpn.cfg). All IPNs of one payment share the id that the handler
  deduplicates by (`crypto.py:29`), so an earlier notice makes it drop the finished one; the plan (line 520) says it unlocks.
* *A crypto payment nobody can name* (MCPaywallNoId.cfg). An answer without a `payment_id` leaves a row under a uuid of our own
  (`billing.py:163`), so the finished IPN finds none, is recorded and answered 200; the plan (line 520) again.
* *A second free run* (MCPaywallTrial.cfg). The trial flag is set by the last commit of a completed run and read from the user
  loaded at the start of a request (`service.py:98`), so each launch before the first run's end is free; README.md:170 says the
  first run is.
* *A failed run shown as complete* (MCRunLifecycleFailed.cfg). A fatal error ends the row as failed
  (`run_executor.py:99`) and is announced as done (`run_executor.py:121`); the page never reads the status
  (`app.py:737-808`). The docstring `app.py:811` has it show "one clean, human error state after a failed run".
* *Polling given up* (MCPageWorkflowPolls.cfg). One answer other than 200 while the bootstrap waits ends the polling of a locked
  run (`app.py:733-735`, `1129-1136`); `nicegui-paywall-polish.md:34` says it goes on until the run is unlocked.
* *An index that was never built* (MCServiceValid.cfg). An interrupted `CREATE INDEX CONCURRENTLY` is taken for built and
  recorded (`checkpointer.py:59-60`); the docstring (line 65) says the migrations are ensured.
* *A limit that others use up* (MCServiceShared.cfg). The limit is keyed by the peer address (`rate_limit.py:86-87`),
  which is the server's own for every call of the page; the plan (lines 573-576) gives it per user.

Where the code does something surprising, and nothing above refutes it, a property excuses it by name or none is stated:

* a restart, or a last commit that raises, leaves a run queued or running for ever (`run_executor.py:134`): the checkpoints are
  written and never read, although `docs/dev/plans/STATUS.md:80` has it as their goal that runs "survive container restarts".
  `RunReachesEnd` excuses both;
* a run has one queue, so of two watchers one misses the end (`runs.py:151`), as does a client that reopens its
  stream before the commit (`run_progress.py:23`); RunLifecycle's properties say for whom;
* edits that overlap overwrite each other, since each writes the whole document back (`run_editor.py:143`);
* an account that has verified a user's address takes the user over from the account it had (`dependencies.py:113`);
* two logins of a local user on a new device break every later one there (`auth.py:112`), and two refreshes with one token both
  succeed (`jwt.py:75`);
* a late answer shows another run, and a script the browser does not answer leaves the Tailor button loading over a run
  that is not executed (`app.py:737`, `1003`).

## 7. Plan

Order: what takes money and opens output first, then what a user waits for, what a user edits, the text itself, then
sign-in, the page, the scores and the processes. The modules above and their proofs are done. Next:

1. The upload's trial limit (`resumes.py:27`) and the export's object and row (`exports.py:66`), each two steps over
   S3 and the table.
2. The composition of Paywall and RunEditor: what an unlocked run serves and exports is the document the editor last wrote.

## 8. Not modelled, and why

Prompts, wording, HTML, DOCX and PDF layout, JSON repair, section splitting and ranking of words are string processing
that no property here is about: the models take their results as sets of outcomes. Providers' HTTP, signatures and
health checks are I/O. Migrations of the application's own tables run before the process. The changelog decides
nothing. The reads of the runs API change nothing. The other middlewares set headers. Three facts found on the way
have no property: a customer can start, and pay, a checkout for a run that is already open (`billing.py:86`); two
uploads of a new user both pass as the trial's (`resumes.py:27`); and with payments disabled every run is marked as a
free-trial run, so DOCX and PDF exports are refused (`exports.py:48`) although README.md:217 describes that mode as
unrestricted.
