# Anuvaad: TLA+ models and proofs

Anuvaad translates source code into explanations, and into other languages,
with large language models. It is a FastAPI backend (`app/`), Celery workers
that run the same code, PostgreSQL, Redis, and the programs a user runs: a
Next.js web client (`frontend/`) with a codemod engine that runs in the page, a
command line (`cli/`) and an editor extension (`vscode-extension/`). This
directory holds TLA+ modules for the parts whose correctness depends on
interleaving, failure or order, the TLC configurations that check small
instances of them, and TLAPS proofs about them for every value of their
constants.

    tlc -workers 2 -config Razorpay.cfg MCRazorpayWebhook
    tlapm RazorpayWebhookProofs.tla

`PROJECT.json` maps every definition to its lines of source, and lists the runs,
the mutants (one plausible bug for each property, which the property's run must
detect), the hazards and the theorems.

## 1. The system

### What runs concurrently

* Several API processes (uvicorn workers). In each, one event loop interleaves
  handlers at every `await`; handlers of different processes interleave freely.
* Celery workers, when `USE_CELERY` is set: `acks_late`, so a task whose worker
  died is delivered again, and retries on a database error. Without Celery
  `HybridTask` (`app/queue/tasks.py`) runs the same function in the API process
  and nothing retries it.
* Outside the system: payment providers that deliver a webhook any number of
  times and in any order, model providers that stop in the middle of an answer
  or never answer, clients that disconnect.

* In a browser, one event loop per tab interleaves handlers, effects, animation
  frames and the answers of calls; tabs share the session, local storage and the
  browser's database. The extension's host interleaves commands and hovers the
  same way. The command line is one process after another.

Shared by all server processes are PostgreSQL (unique constraints and row locks are the
only real guards) and Redis. `RedisCache` puts an L1 copy in every process in
front of Redis and a fallback for the time Redis is down.

### Components

| Component | State | Operations | What is hard | What makes it correct |
|---|---|---|---|---|
| Payment webhooks (`routers/billing.py`, `queue/tasks.py`) | rows of `payment_transactions` with a unique `event_id`, cache keys, the task | verify, look up, claim, mark, dispatch; apply in the task (Razorpay) or in the request (Stripe) | repeated and concurrent deliveries, a commit that fails, a death at any await, redelivery of the task | no event id applied twice; an event answered "received" is applied |
| Subscriptions (`repositories/subscription.py`) | one row per e-mail | upserts and updates by provider id | several writers | changes by whole events |
| Quotas (`core/quota.py`, `domain/quota/policy.py`) | the day's counter, cooldown key and platform usage in Redis; credits and history in the database | admission, increment, charge, record | a check long before its effect; a counter rebuilt from the history; a protection mode read through a stale copy | no more free translations than the limit; credits are conserved; protection tightens only |
| Cache (`core/cache.py`) | L1 and fallback per process, Redis | get, put, delete, increment | tiers that disagree; outages | an answer lags by a bounded time |
| Pro status (`core/auth.py`, `domain/billing/service.py`) | a cached answer about a row | query and cache; invalidate after a payment | a reader that overtakes the invalidation | the same bound; an upgrade becomes visible |
| Indexing (`services/indexing/pipeline.py`) | `index_runs`, materializations with one `is_current` per import | run, retry, publish | workers side by side, row locks and the partial unique index, a death between two commits | one searchable index, always a complete one, never taken away |
| Streaming (`services/ai.py`, the stream routes) | a semaphore of slots per process, response and AST caches, history, usage | acquire, try providers in turn, cache, answer, record | disconnect or timeout in the moment a slot is handed over; a provider that breaks off | slots conserved, no lost wakeup, whole answers, privacy, one count per answer |
| Synchronous translation (`routers/translate/`) | none of its own | admit, cache, complete, record | a history dispatch that falls back to a background task | as for streams |
| Rate limits | counters in the shared cache | count, compare | none beyond the cache | |
| Authentication, SSO | tokens, directory lookups | verify | external | |
| API keys (`repositories/api_key.py`) | rows | create, look up, revoke | count, then insert | ten active keys at most |
| In-process tasks (`queue/tasks.py`) | the set of running tasks | register, drain at shutdown | tasks dispatched during the drain | dispatched tasks end |
| History (`repositories/translation.py`) | rows | save, list, prune, delete | pruning while others save | |
| GitHub, e-mail, demo, workspaces, onboarding, infrastructure | one-statement tables, I/O | | | |
| Repository search, modernisation and sandbox | vectors, subprocesses | rank; repair in a bounded loop | | the loop ends |
| Translation page (`useTranslationStream.ts`, `useTranslationStore.ts`, `TranslateFeature.tsx`) | the store of the tab, the refs of each mount, the runs under way, the box that saves runs | start, stop, buffer, flush, finish, clear, change account, mount, reload | a callback that keeps an old `isStreaming`; runs that overlap; a `finally` that clears another run's flag; tabs that are hidden | a spinner has a run; a run is saved only for the account that asked; shown text is what was received |
| Its output (`OutputPanel`, `useTranslationSession.ts`, `ArtifactExportBar.tsx`) | blocks as list and index, original blocks, views, share dialog | edit, sync, inject, undo, share | edits against answers under way; ids the model chooses | blocks with ids of their own keep their own code and text in list and index |
| Its input (`useFileImport.ts`, `AstToolbar.tsx`, `Toolbar`) | input, its badges and languages, imports under way | drop, import, browse, paste, transform, undo | several sources race for one input | one import at a time |
| Session, sign-in and consent (`auth-context.tsx`, sign-in pages, `analytics.ts`) | session, Pro answer, onboarding mark, consent | sign in and out, check, guard a page, accept, refuse | answers for an account that has left; tabs | a Pro status that is shown is the session's |
| Dashboard (`app/dashboard`, `WorkspaceContext.tsx`) | a page's lists, the workspaces, calls under way | load, page, delete, share, create, invite, pay | answers in any order, pages that were left | a list is that of the active workspace |
| BYOK vault (`byok-vault.ts`, `ByokVaultModal.tsx`) | a sealed record, badges | set, purge, read | forms and badges on several pages; a derivation between record and answer | badges agree with the record |
| Codemod engine (`engine/`) | the class being rewritten | passes in a fixed order | hooks of several passes in one function; files that import react in other ways | a success imports the hooks it calls |
| Command line (`cli/`) | arguments, configuration file | translate, modernize, configure | a gate over several files | no gate passes on a failed file |
| Editor extension (`vscode-extension/`) | settings, secrets, the document | activate, set key, translate, hover | a death between two writes of a move; edits while it awaits | a key is never lost |
| Landing page, demonstrations, benchmark | none that outlives a page | | | |

### Interactions

A translation passes the quota's admission, waits for a slot, is answered from a
cache or by a provider, and is recorded: history through a task, the platform's
usage and the credit through `record_successful_completion`. Admission reads the
Pro status, which payments and webhooks change. Payments also buy credits, which
admission reads and recording charges. The quota's counter, when Redis has lost
it, is rebuilt from the history those tasks have written.

The programs of the user share no state with each other and only calls with the
server. Within the browser the session of the provider decides what the
translation page may save and which lists the dashboard asks for; the vault's key
goes into the translation request; the codemod engine and the AST tools rewrite the input of
the page.

## 2. The modules

| Module | Models | Builds on |
|---|---|---|
| `WebhookIntake` | the two idempotency layers both webhook routes share, one action per round trip | |
| `UserSubscriptions` | the table of subscriptions, as operators: the committed effect of each repository function | |
| `RazorpayWebhook` | the Razorpay route and the task it dispatches | the two above |
| `StripeWebhook` | the Stripe route, which applies the event itself | the two above |
| `AppliedOnce` | abstract: the table changes by whole events, no claimed id twice | |
| `QuotaPolicy` | the pure rules: protection mode, factors, floors and caps | |
| `PlatformDay` | a day of platform usage going through the modes | `QuotaPolicy` |
| `TranslationQuota` | one account's requests of a day from admission to record | `QuotaPolicy` |
| `TwoTierCache` | one key of `RedisCache` in several processes | |
| `ProStatus` | the cached Pro answer against payments and webhooks | `TwoTierCache` |
| `SearchableIndex` | abstract: one searchable index, replaced as a whole | |
| `IndexingPipeline` | the runs of an import's indexing tasks | |
| `TranslationStream` | the two streaming generators on one process's slots | |
| `TranslationClient` | the streaming hook, its store and the consent to save | |
| `TranslationOutput` | blocks, edits, sync, injection, sharing, the guest prompt | |
| `WorkbenchImport` | imports, the file browser and the tools on the input | |
| `BrowserAuth` | session, entitlement, sign-in, onboarding and consent of a tab beside others | |
| `DashboardPages` | the pages of the dashboard with their calls under way | |
| `ByokVault` | the vault's record, database operations, forms and badges | |
| `CodemodEngine` | the passes that turn a class into a function | |
| `CommandLine` | commands, their requests and exit codes | |
| `EditorExtension` | activation, commands, insertion and hover | |
| `Subscriptions` | composition: the Stripe webhook, or the readers of the status in one of the deployments | `StripeWebhook`, `ProStatus` |
| `UserPrograms` | composition: the programs of the user, one to a behaviour | `TranslationClient` and the eight that follow it above |
| `*Proofs` | theorems about the module they are named after | that module and TLAPS |
| `MC*` | the instances TLC checks | |

Three modules compose: `MCQuota` (a day of the platform, and the requests of an
account), `Subscriptions` (the Stripe webhook, and the reads of the status with
the handlers placed in one process or in several) and `UserPrograms` (the
programs of the user). Each has a variable (`part`, `deployed`, `surface`) chosen
in its initial states that says which component the behaviour is about; the
variables of the others are off and do not change. The components checked
together share no state, so this explores what separate runs of each would, and
no product of them. The last two are modules of their own, with their constants
and assumptions named, so that the theorems are about the specification the run
checks.

Definitions marked as mutants, each before the definition it replaces, are the
forms a plausible bug would give it; no specification uses them.

### How the state corresponds to the code

Each handler is a process with a program counter (`pc`) whose values are the
points where the code awaits; an action is the code between two awaits. What the
handler keeps in local variables across an await is a variable of the model
(`event`, `seen`, `held`, ...), because it may be stale when it is used. What the
database does in one statement or one committed transaction is one action, and
its unique constraints are guards with a second outcome, the `IntegrityError`.

* **Webhooks.** `txn` is `payment_transactions`, `cached` the set of ids whose
  `webhook:idempotency` key the cache holds; it may lose any of them at any
  time, which stands for expiry, a flush, and a key in another process's memory.
  `KeyOf` maps events to ids; `NoKey` is the empty id of a delivery without the
  header, which skips both layers of the route. A delivery may die at every await
  (`MayCrash`) and every database call may fail (`MayFail`). In
  `RazorpayWebhook`, `task` and `retries` are the task of each delivery, which
  claims the id (`NoKey` too: an empty string is unique as well) in the same
  table before it applies the event; a task that loses its worker is
  delivered again, unless it runs in the API process.
* **Quotas.** `TranslationQuota` has the day's counter (with `Absent` for a cold
  key), the credits, the platform's usage with the process's possibly older L1 copy
  of it, the rows of the history and those still to be written.
  `increment_today_usage_count` is three actions when the key is absent: count the history, put, increment.
  `own` are the requests made with a key of the user's own, which clears the charge
  after the admission; `again` those whose stream went on after the broker had
  refused the task of an answer from the AST cache, recorded and perhaps charged by
  then; `repeated` the rows that redelivered tasks inserted a second time.
* **Cache.** Time is a `Tick` that ages entries. `Ttl` and `L1Ttl` are the two
  times to live in ticks (30 s for the key, 600 s for L1 in the code; the model
  keeps their order, not their ratio). A client may be overtaken by the clock
  once per call: a call of Redis lasts less than a tick's worth of any time to
  live.
* **Indexing.** A run is a pair of task and attempt. The `UPDATE` that retires the
  current materialization takes its row lock (`held`); a second publisher waits
  and then meets the partial unique index.
* **Streams.** `asyncio.Semaphore` is modelled by what CPython's does: a counter,
  a queue of waiters, a wakeup handed to the first waiter, and what a cancelled
  or timed-out waiter does with a wakeup it already has. Text is the identity of
  the provider that wrote it and whether it is whole.

* **Browser.** A page has its own state and refs, which a mount makes anew; the
  store and calls under way outlive it. A memoised callback keeps what it
  captured (`page.held` in `TranslationClient`) until one of its listed
  dependencies changes. A call under way is an element of a set (`jobs`, `calls`)
  or of a queue where the code or the browser serves in order (`ops`), and is
  answered at any time; an answer writes what the code writes, guarded only by what
  the code looks at (a mounted flag, an aborted signal, nothing). What a parser,
  the service or the user chooses is chosen by `\E`.
* **Engine.** A tree is the names the function declares with the rule that declared
  each, the hooks it calls and imports, and whether a `this` is left; each action is
  one pass, in the order of `classToHooks.ts`.

Data the properties do not tell apart is left out: the text of prompts and
messages, HTTP formatting, logs, metrics and traces.

## 3. What TLC checks

| Run | Module | Properties | Instance, distinct states |
|---|---|---|---|
| `razorpay` | `MCRazorpayWebhook` | types, `AppliedAtMostOnce`, `QueuedNeverApplied`, `ClaimsAreFinal`, refinement of `AppliedOnce` | 3 deliveries of 4 events, one of them without an id, one retry; 455 000 |
| `subscriptions` | `MCSubscriptions` | `ClaimedAppliedOnce`, `VerifiedIsApplied` (liveness), refinement of `AppliedOnce`, `AnswersCatchUp` | 3 deliveries of 3 events; 2 handlers in one process and in two, one change; 404 000 |
| `quota` | `MCQuota` | types, `FreeWithinLimit`, `CreditsConserved`, `UnpaidLostARace`, `CounterCoversHistory`, `EmergencyBounds`, `Tightens` | 2 requests of a limit of 2, one of it used, cap 1, two purchases, one refusal of the broker, one redelivery; a day of up to 21 translations with 30 configured limits (3 daily, 5 sizes, 2 cooldowns) and caps 0 (none), 1, 7, 20; 2 737 000 |
| `indexing` | `MCIndexingPipeline` | types, `OnlyCompleteIsCurrent`, `CompletedRunsEnd`, `StaysSearchable`, refinement of `SearchableIndex` | 3 tasks, 2 attempts, 2 desired states; 1 300 000 |
| `stream` | `MCTranslationStream` | `SlotsConserved`, `NoLostWakeup`, `ResultsAreWhole`, `EphemeralLeavesNothing`, `OnlyValidCode`, `AnsweredOnce`, `WaitersAreAnswered` (liveness) | 3 streams (an explanation, an ephemeral one, a code translation), 1 slot, 2 providers, 2 refused dispatches; 807 000 |
| `web` | `MCWeb` | `SpinnerHasARun`, `SavedWithConsent`, `ShownTextIsReceived` (translation page), `BlocksStayApart` (output), `OneImport` (input), `ProIsTheSessions` (session), `LoadShowsTheActive` (dashboard), `BadgesSettle` (vault), `HooksAreImported` (engine), `GateCountsEveryFile` (command line), `KeyIsNeverLost` (extension) | one component to a behaviour, bounds below; 2 004 000 |

Six runs show that the code does not do what its documents or comments say:

| Run | Violated | What happens |
|---|---|---|
| `razorpay_delivery` | `ReceivedIsApplied` | Route and task claim the same id in the same unique column, so the task finds the route's own row, takes the event for a duplicate and drops it. One delivery and no fault suffice. `QueuedNeverApplied`, proved below, is the same fact as an invariant. |
| `quota_cold` | `CountedAtomically` | Two requests that find the day's counter cold both rebuild it and are both admitted on a limit of one. |
| `pro_status_visible` | `UpgradeIsVisible` | A reader that queried before the payment writes "not Pro" back after the invalidation. |
| `indexing_stale` | `PublishesDesired` | A run for an older desired state becomes searchable after the newer one was asked for. |
| `stream_depth` | `AnswersAtItsDepth` | The response cache's key leaves the depth out; a request at another depth gets the explanation of the first. |
| `stop` | `StopNeverStarts` | `isStreaming` is no dependency of `handleTranslate`, so the button that says "Stop translation" calls a callback that takes the page for idle: while the request of a cloud translation is under way, a click starts a second one. |

### Bounds, and why they are enough

* *Webhooks*: two deliveries race on a claim, a third arrives after both. Several
  deliveries may carry one event; the four events of the Razorpay run cover
  grants, revocations and an event without an id. One retry gives a task that has
  claimed, failed and come back. The proofs lift all these bounds.
* *Quotas*: of a limit of 2 one translation was used earlier, so two requests meet
  the boundary from both sides. Cap 1 takes the platform from NORMAL to EMERGENCY,
  which halves the limit under requests already admitted, puts both over it and
  leaves them to race for the credits bought meanwhile; the modes between are those
  of the day. One refused broker makes one request be charged twice, one
  redelivery writes one row twice. The proofs lift all these bounds.
* *Pro status*: the longest lag is a stale query, its entry in Redis, and an L1
  copy taken from it in another process just before it expires: two processes
  with a handler each; in one process the other handler pays or overtakes.
  One change ages to the end of the bound, and a webhook may make it at any time.
  `AnswersCatchUp` is about the sum of the two times to live, which `Ttl` 1 and `L1Ttl` 2 tell
  from either of them.
* *Indexing*: two tasks race and a third comes after; two attempts give a
  redelivery in every state; two desired states give an older and a newer.
* *Streams*: one slot and three streams put two waiters in the queue, so a wakeup
  can be handed to one that gives up while another waits behind it. Two
  providers give one that fails, in the middle or at once, and one that follows.
* *Translation page*: two runs overlap, in two mounts of the page, one chunk and
  one re-sent request each, two accounts and a guest, and one other turn of the user
  (an edit, a clear, a mode, an engine, an account, a mount or a reload) between
  them. One chunk tells a text that is lost or doubled, and nothing about the order of
  chunks: that rests on `ShownTextHolds`. The proofs lift all these bounds. The
  run `stop` has three runs of a guest or one user, and one turn between them.
* *Output and input*: two results of two blocks, whose ids are their own, one shared
  or missing, with an edit, an injection or a change of account between; three pages or imports and three moves of the user, which is an import
  that falls back while a folder answers late on a page that was left.
* *Browser*: two accounts, one of which pays, one tab with its session or none and one
  change of it, here or in another tab, two clicks; the tab may be loaded and answers
  may come any number of times. Two sealings of the vault (the browser before and
  after an update), three database operations under way and four presses.
* *Dashboard*: one shared workspace beside the personal one, two saved translations
  of each on pages of one, two calls under way and three presses: a change of
  workspace and back while the first list loads.
* *Engine*: two keys of the state, one property and three features found in a
  class, in a file that imports react in any of the ways the code tells apart.
* *Command line*: two commands over two files, with scores of 30 %, 79.6 % and
  95 %, or none, around the default threshold of 80 % and one of 90 %.
* *Extension*: keys old and new at three targets of the settings, and four events,
  among them the closing of the editor.

Symmetry is used over interchangeable identifiers and only where no liveness
property is checked. `CHECK_DEADLOCK FALSE` stands where a bounded set of
requests, tasks or streams is served to the end and the instance then stops.

### Fairness

* `RazorpayWebhook`'s and `StripeWebhook`'s `FairSpec`: weak fairness of the steps
  of a request the server has taken up and of a task a worker has taken up. The
  event loop and the worker run what they have; nothing makes the provider
  deliver, and nothing fails or dies out of fairness. `VerifiedIsApplied`
  therefore excuses an event only when a handler of it died, answered a failed
  commit as a duplicate, or failed to write.
* `TranslationStream`'s `Spec`: weak fairness of the timer of a waiting acquire
  (`asyncio.wait_for` with `STREAM_ACQUIRE_TIMEOUT`) and of a waiter that has been
  handed a slot (the event loop resumes it). A provider may hang for ever with
  its slot; `WaitersAreAnswered` holds in spite of it because the timer ends the
  wait.

No other module states fairness; their properties are safety properties.

## 4. What is proved

Every safety property that a passing run checks is a theorem, for every value
of the constants that satisfies the module's named assumptions (finite sets of
requests, streams, files or members of a class where the code has a count,
non-empty bounds, types of the constant functions; confidences and thresholds are
numbers). `PlatformDay` assumes that the configured limits are not below the
floors that protection itself guarantees; below them protection would *raise* a
limit. No theorem assumes fairness. Eight modules hold 43 theorems and 250
lemmas; for each property below stands what its inductive invariant adds and why
it is needed.

* **`RazorpayWebhookProofs`** - `TypeCorrect`, `ClaimsHold`, `AtMostOnce`,
  `QueuedIsNeverApplied`, `ClaimsStay`, `Implements`. `AppliedAtMostOnce` is not
  inductive: a second task could be about to write. `ClaimInv` adds that an
  applied id keeps the row its task wrote (status "pending"), that a task past its
  claim has that row and has not applied, and that no two tasks are past the claim
  of one id. `QueuedNeverApplied` and the refinement of `AppliedOnce` follow: the
  step that writes is `Apply`, every other step a stutter.
* **`SubscriptionsProofs`** - for the webhook `TypeCorrect`, `ClaimsApplyOnce`,
  `Implements`; for the readers `StatusCatchesUp`; `WebhookBesideReaders` says that
  the first hold in the composition. Stripe's route has no task: `ClaimInv` says that a
  delivery past its claim is the only one of its id, has the row, and has not
  applied it, so the upsert spends the claim. Its refinement maps an upsert to
  `Apply`, or to `ApplyUnguarded` where the lookup had failed and nothing was
  claimed. `AnswersCatchUp` bounds a sum of delays and needs a bound for each place a
  status can be: `LagInv` says that an entry with a wrong status satisfies
  *age + time left <= Ttl + 1* in Redis and in the fallback, and
  *<= Ttl + L1Ttl + 1* in an L1 copy, and that a reader that carries a wrong status
  read it at most the tick before (from the database), or at most `Ttl` and that
  tick before (from Redis). "Wrong" leaves out the free answer a failing query gives.
* **`PlatformDayProofs`** - `ProtectionTightens`, `EmergencyIsBounded`: every
  protection mode leaves free and Pro users at most what the one before it did.
  The lemmas are about the monotonicity of the integer percentages, floors and
  caps; the proof goes through the modes one at a time.
* **`TranslationQuotaProofs`** - `TypeCorrect`, `CreditsAreConserved`,
  `DailyLimitHolds`, `UnpaidLostTheRace`, `CounterCovers`. A request may be charged twice, so a charge is a
  pair of the request and whether its stream had gone on (`Charge`), and
  `CreditsConserved` balances the credits with the charges. `CreditInv` adds that a
  charge made before the stream goes on and one made after it are each past their
  deduction, and that what deducts is flagged and has no key of its own. `FreeInv` adds that the requests
  admitted freely are no more than the increments, and that every policy a request is
  held to has a limit between 1 and the configured one, whatever the protection
  mode; both hold as long as no request found the counter missing, so the step lemma
  assumes `~cold'`, and `cold` never returns to false. `UnpaidInv` follows a flagged
  request without a key of its own back to the credit it was admitted for: one had
  been bought, so a balance of zero at the deduction means that something was
  charged. `CoverInv` counts the requests on their way to a row with the rows
  written: what the counter covers is their sum, since a row changes place and not
  number, but for the rows that redelivered tasks wrote again (`repeated`).
* **`IndexingPipelineProofs`** - `TypeCorrect`, `CompleteIsCurrent`,
  `CompletedRunsAreOver`, `IndexStays`, `Implements`. `CompletedRunsEnd` carries the
  argument: what publishes was not complete before, so a publication adds a run to
  the abstract `published` and makes it the only current one (its `UPDATE` holds what
  was current, or the unique index refuses it); every other step leaves both alone
  (`OthersAreQuiet`).
* **`TranslationStreamProofs`** - `TypeCorrect`, `SlotsAreConserved`,
  `NoWakeupIsLost`, `AnswersAreWhole`, `EphemeralStaysPrivate`,
  `AnsweredCodeIsValid`, `StreamsAnswerOnce`. `SlotInv` says that the queue
  holds exactly the waiting streams, each once, and that free slots, holders and
  wakeups add up. The wholeness of answers needs where each text came from
  (`TextInv`), privacy that no ephemeral stream ever reaches a step that keeps
  something (`PrivateInv`). A code translation may be answered from the
  response cache, so `ValidInv` is about what the cache holds of them as well, and about
  the paths they never take (the AST cache). `AccountInv` balances last events,
  counts, saved rows and refused dispatches for every place of a stream, which is
  what the inequalities of `AnsweredOnce` come to at the places where it can stop.
* **`TranslationClientProofs`** - `TypeCorrect`, `ConsentHolds`, `SpinnerHolds`,
  `ShownTextHolds`, for any number of accounts, runs, chunks and mounts.
  `SavedWithConsent` needs `TickedByUser`: the box is empty or was ticked by the
  account signed in, unless the effect on the user id is still to come. `SpinnerHasARun` is
  inductive once every way a run ends is seen to clear the flag: `EndedStep` says so
  once for all of them, `MovingStep` that a run under way stays so, `PageStep` that
  no control sets it. What is shown is not inductive, because a run could start with
  something in the buffer of its mount: `ShownInv` adds that a run that is alone is
  the only one under way, and that a buffer that is not empty belongs to a stream.
* **`UserProgramsProofs`** - `BlocksAgree`, `HooksFollowTheirUse`,
  `LoaderStandsForOne`, `ProIsOfTheSession`, `LoadedIsTheActive`, `GateHoldsEveryFile`,
  `KeyIsKept`, `BadgesFollowTheVault`, `ClientBesidePrograms`. `OneProgram` splits a
  step of the composition into one of the program that runs; each program has its
  invariant:
  * engine (`EngineInv`): once the imports were written they cover all the hooks
    that were asked for, but those the file had imported from react already
    (`taken`), and every call was asked for, rule by rule (`Sound`);
  * input (`ImportInv`): the loader is off while the dialogue asks for an
    account, and every import under way belongs to this mount of the page or to one
    of before, so that an answer to a page that was left cannot be taken for
    the import the loader stands for;
  * session (`AuthInv`): a Pro status that is shown, and that no answer for another
    account or failed check has made unsure, is the session's or the check of the
    session is still to come;
  * output (`OutputInv`): texts are numbers of edits, so the next is new, and unless an
    id is shared every block is in its place in list and index;
  * dashboard (`DashInv`): a list under way was asked for
    the active workspace, and holds items of that one, because the change of
    workspace aborts the others. `LoadShowsTheActive` is an action property and is
    proved of each step with the invariant (`DashSteps`);
  * command line (`CliInv`): as many files passed as were processed only if each
    one evaluated meets the gate, with where in its run each command may be;
  * extension (`EditorInv`): what is being stored is a key, and the settings are
    cleared only once the store of secrets has one;
  * vault (`VaultInv`): a badge that says more than the record has its next read in
    the queue of the database, through every order of puts and deletions of two
    forms, and the newest of the selector's reads tells the truth unless another
    waits in the queue (`LastReadIsRight`), whichever derivations end when.
    `BadgesSettle` is the case of the empty queue.

The proofs found three places where a model said something else than was meant, and
TLC had read it as meant: overlapping arms of a `CASE` in `CommandLine` and
`StripeWebhook` (TLA+ leaves open which is taken, TLC takes the first; they are `IF` now),
and a missing pair of parentheses in `CodemodEngine!StateSources`. None changes the
states that are reached.

Only model-checked:

* liveness, `VerifiedIsApplied` and `WaitersAreAnswered`: fairness is out of the
  prover's reach;
* the six violations, which are counterexamples and need one instance;
* the properties listed at the end of section 5, which the code violates.

## 5. What is not modelled

The components marked `not_modelled` in `PROJECT.json`, each with its reason:
text and I/O (providers, prompts, e-mail, GitHub), cryptography and external
identity, one-statement tables, compilers and subprocesses, the landing page and
its animations, the benchmark script. Of the modelled pages, layout, filters,
charts and downloads are left out; of the engine, the trees themselves.
Code outside this repository enters by its effect alone: Redis' commands are
atomic and may fail or lose keys; PostgreSQL's unique constraints and row locks
are those the migrations declare; `asyncio.Semaphore` is CPython's.

One outcome is assumed away: in `IndexingPipeline` a commit of the publication that
raises has not taken effect. Had it (the connection breaks after the server
committed), `_fail` would write the run "failed" whose materialization is current
(`pipeline.py:173-177`), and `OnlyCompleteIsCurrent` would not hold. The webhooks'
commits that raise are modelled with both outcomes.

Behaviour met while modelling that no run states as a property, because no
document claims otherwise or because it is a design decision:

* a commit of the claim that fails for any reason is answered "duplicate"
  (`routers/billing.py:409`); a Stripe event whose process dies between the claim
  and the write is lost, and its retry is a duplicate; Stripe events take effect
  in the order their handlers finish;
* the cooldown is checked before the translation and set after it, so requests
  sent together all pass;
* an L1 copy outlives the entry of Redis it was taken from;
* when the broker refuses the history task after an answer from the AST cache,
  the stream goes on, answers, counts and charges a second time (`again` in
  `TranslationQuota`; `ai.py:708-726`); elsewhere an error event follows the last event;
* a request over the limit that was admitted for a credit is not charged when it
  comes with a key of the user's own (`ai.py:758-761`, `code_to_english.py:60-62`);
* the history task has no guard against its own redelivery (`acks_late`), which
  inserts a second row;
* a client that leaves after the last event, before the usage is counted, is not
  counted;
* the limits that `enforce_groq_limits` raises as an `HTTPException` in a stream
  break it off without a last event;
* code-to-code never finds anything in the AST cache: the payload has no
  `language`;
* `enforce_workspace_quota` is never called.

The modules of the user's programs state more properties than the runs check,
because the code violates them and one run is kept for each kind of disagreement; an instance of
the module alone, with the property as an invariant, shows each in a few steps:

* `TranslationClient!NoSilentResubmission`: `openWhenHidden` is not set, so the
  library sends the request of a running stream again when a hidden tab is shown;
* `TranslationOutput!BannerMeansEdits`: blocks are given line ranges when they are
  set, the originals are not, so the two differ without an edit and the banner stays
  (`e2e/real-translation.spec.ts:166` expects it gone);
  `SharedIsShown`: the entry of the history with the session's id is made public,
  which need not be the run on the screen;
* `CodemodEngine!NoThisLeft`: expressions copied before a pass keep their `this`
  (`codemodEngine.test.ts:131` says of a converted class that it has none);
* `WorkbenchImport!BrowserHasUrl`: a folder that answers after a file was imported
  opens the file browser again, with no address to ask;
* `TranslationClient!SavedWithConsentAlways`: a click between the render of a new
  account and the effect that unticks the box saves a run with the old tick
  (`TranslateFeature.tsx:71-73`); `SavedWithConsent` excepts these runs (`early`);
* `TranslationOutput!SharedIdsStayApart`: the model chooses the ids of blocks and
  nothing makes them unique (`ai.py:263`); of two blocks with one id the export bar
  shows the last twice, and an edit of one replaces both
  (`useTranslationStore.ts:57-62`, `:92-102`). `BlocksStayApart` is of other results;
* `CodemodEngine!HooksAreBound`: the check for an import compares the imported name
  and not the local one (`typeRules.ts:360-364`), so with
  `import { useState as useLocal }` a success calls a `useState` that is not bound;
* `BrowserAuth!ProIsNeverAnothers`: a Pro answer asked for by an account that has
  signed out is taken for that of the next one, and a check that fails leaves what
  was shown; `RefusalIsKept`: `posthog.reset()` at a sign-out wipes the refusal
  the library keeps (`analytics.ts:107-110`), and a tab that was started with consent
  captures again (it takes two tabs and five clicks);
* `DashboardPages!LoadEndsOnTheActive`: a load that fails after a change of workspace
  ends with the list of the former one on the page (`history/page.tsx:121`, `:147-153`);
* `CommandLine!GateHolds`: the gate compares the rounded confidence, so 79.6 %
  passes a threshold of 80 % (`index.ts:36` against `:241` and `:248`);
  `GateNeedsAScore`: an answer without a confidence makes it NaN, which is not below
  any threshold, so a single file passes (`index.ts:241-252`);
* `EditorExtension!InsertedAboveSelection`: the insertion uses the line of before the
  request; `NewestKeyIsUsed`: a key left in a target that could not be cleared
  replaces a newer one at the next activation;
* `ByokVault!ActiveMeansUsable` and `ByokHasAKey`: after an update of the browser
  the record cannot be opened, while badge and selection stay; `PurgedIsGone`: a purge
  that failed is silent, and the form says that the key is gone; `SelectorSettles`:
  nothing orders the derivations of two reads, so the selector may end on a key that
  was purged (`byok-vault.ts:127-145`, `EngineModeSelector.tsx:15-22`);
* a deletion of history that fails puts back the list of before it, with what was deleted and
  without what was loaded meanwhile (`history/page.tsx:207`).

## 6. Plan

Done, in this order: webhooks, quotas, cache and Pro status, indexing,
streams, the programs of the user, and the proofs of what the runs check of them.

What would come next:

1. *More proofs.* Types of the programs of the user and of the readers of the
   status as theorems of their own; that the two tiers of the cache alone keep the
   bound of `AnswersCatchUp` for any user of `RedisCache`; that a refused
   publication leaves the index as it was; an abstract specification of the
   semaphore that the streams implement, and of the vault as one register.
2. *More of the system.* In-process tasks and the drain at shutdown;
   `verify_credit_payment` and `add_credits` with repeated confirmations; the
   synchronous endpoints as a second user of `TranslationQuota`; pruning of the
   history, the bound on API keys, the sandbox's repair loop.
