# Clara confirms: specification, model checking and proofs

Clara confirms telephones, texts and e-mails the customers of field-service
companies to confirm visits. This directory holds TLA+ modules of the parts of
the backend whose correctness depends on the order in which concurrent actors
touch shared tables, configurations that model-check them with TLC, and proofs
checked by TLAPS. Paths are relative to the repository root (`src/db/...` is the
backend's own `src` directory); line numbers are of the commit this directory
stands beside.

    tlc -workers 2 -config queue_handover.cfg MCOperations.tla  # one run
    tlapm CallQueueProofs.tla                                   # some proofs

## 1. Inventory

The backend is an Express application on Vercel functions over one PostgreSQL
database. Nothing but the database is shared between invocations, an invocation
lives at most 300 s (`vercel.json:30-34`), and no handler named below wraps its
statements in a transaction. Hence the unit of atomicity is the single SQL
statement, and every `await` is a point where any other invocation may run or
this one may die.

| Component | State | Operations | Talks to | Hard behaviour | Correct when |
|---|---|---|---|---|---|
| **Call queue** `src/db/scheduled-calls.js` | `scheduled_calls`: status, attempt_number, scheduled_at, last_attempted_at | insert, claim (reap, plan, snapshot, write), dedupe, complete, fail or retry, postpone, cancel | every sweep, manual route, retry chain writes it; the dispatcher drains it | claims that overlap; writes by id; crash between contact and record; caps over all runs | one active row per slot, a claimed row belongs to one run, caps hold, no unexplained redial, everything is settled |
| **Dispatcher** `src/services/scheduler.js` (`runDispatcher`) | local list of claimed rows | gate by office hours, build variables, place call / send link by one or two legs, record | queue, Retell, mail and text providers, link shortener | cron every two minutes and a poke after "Call now" run at once; provider answers lost; one leg of two fails | as above; no leg is repeated without need |
| **Scheduling sweeps** `scheduler.js` (daily, quarter-hourly) | none of their own | follow up unopened links, find visits, insert rows | queue, chat links, todos | check-then-insert; death between two statements | contacting a customer comes to an end |
| **Manual calls** `src/services/manual-call.js` | none | cancel the active rows (force), insert, poke the dispatcher | queue | two statements | the slot index is never violated |
| **ServiceTrade webhook queue** `src/routes/servicetrade-webhooks.js`, `src/db/servicetrade-webhooks.js` | `servicetrade_webhook_events`: status, attempts, claimed_at | enqueue, claim, mark done / failed / skipped, purge | ServiceTrade, processor | duplicate and lost deliveries; crash with claimed rows | no event revived, attempts bounded, everything handled |
| **Webhook processor** `src/services/servicetrade-webhook-processor.js` | local batch | resolve events to jobs, targeted sync, normalize, mark | webhook queue, sync, normalizer | disconnection; partial failure of a batch; cron and button at once | done means applied |
| **ServiceTrade sync** `src/services/servicetrade-sync.js`, `src/db/servicetrade-sync.js` | raw tables; cursors | poll since cursor, targeted fetch, fan out to the records around a job, upsert, prune visits, stamp cursors | ServiceTrade API, raw tables | failed pages; changes during a run; overlapping runs; truncated lists | the cursor never passes a change we do not have; only deleted visits are pruned |
| **Normalizer** `src/services/crm/servicetrade/provider.js` | platform tables; `last_normalized_at` | read raw rows above the watermark, merge contacts, write platform rows and their references, move the watermark | raw and platform tables | raw rows written meanwhile; references to records that arrive later | the watermark never passes an unnormalized row; references find their rows |
| **Retell webhooks and escalation** `src/routes/retell.js` | call rows, todos, retry rows | call ended / analysed: todo, callback, retry, fallback to the other channel | queue, todos, chat links | repeated webhooks, any order, check-then-insert | analysis kept, somebody told, no endless chase |
| **Retell tools** `src/routes/retell-tools.js` | visits, service link rows | confirm, reschedule, create, cancel during a call; service link; callback | jobs, ServiceTrade write-back, queue | statements of several handlers interleave; write-back refused | status agrees with visits; consent is to the current time |
| **Jobs and visits** `src/db/jobs.js`, `src/services/job-confirmation-*.js`, `src/routes/jobs.js` | `jobs.status`, `appointments` | the office's changes, derive job status | normalizer, agents | recomputed after the write, in a later statement | derivation agrees with the visits |
| **Service link** `src/services/servicetrade-service-link.js`, `src/db/service-link-messages.js` | `service_link_messages` | record recipient, search or create contact, post message, mark | tools, Retell webhook, ServiceTrade | two conditions in any order, two senders | whichever comes last sends; nothing is lost silently |
| **Chat links, confirmation agent** `src/db/chat-links.js`, `src/services/chat-links.js`, `src/confirmation-agent/` | `chat_links`: sent, in_progress, ended, expired | create, open, converse, end, expire after 24 h | dispatcher, sweeps | open / end / expire races; turns of one chat that overlap; death between the ended mark and the comment; look-up-then-create | an ended chat stays ended; a visit the customer changed is reported to the CRM |
| **Workflow engine** `src/engines/core/` | `engine_runs` and the events in it, subscribers | start, emit, set status, reap silent runs, purge, replay and tail (SSE) | CRM sync, scheduler run | reaper against a run that wakes up; replay/subscribe gap | a closed stream has told the verdict; no run claims to be running for ever |
| **Daily report** `src/services/daily-report/`, `src/routes/reports.js` | `report_recipients`: hour, last_sent_for_date | sweep every 15 minutes, mail, stamp; staff add, edit, remove | mail | failures and late sweeps; weekends; settings changed meanwhile | every edition once |
| **Todos** `src/db/todos.js` | `todos` | create if none open, close | everybody | check-then-insert | something is open for whatever was not resolved |
| **ServiceTrade write-back and connection** `src/services/servicetrade-*.js` | credentials, webhook registration | comment, move, cancel, register | ServiceTrade | answers lost | comments not repeated |
| **Database layer** `src/db/index.js` | pool | query with one retry after a lost connection | everybody | a statement applied twice | |
| **Settings, copilot, accounts, analytics, CRUD** | own tables | single statements | | | out of scope |

`PROJECT.json` lists them all with their status, and under `hazards` the places
in this code that are hard to test, each at its line.

## 2. Modules

| Module | Models | Built on |
|---|---|---|
| `CallQueue` | call queue and dispatcher, with staff, sweeps, clock and office hours as environment | |
| `QueuePromise` | what the queue promises its users, without dispatchers: the abstract specification `CallQueue` implements | |
| `CallQueueProofs` | the theorems about both, the refinement included | `CallQueue` (which instantiates `QueuePromise`), TLAPS |
| `LinkDelivery` | how one row becomes messages on the channels web_chat and sms: chat link, short URL, legs | |
| `FollowUp` | the life of one job's confirmations: daily sweep, contacts, Retell webhooks, retries, callbacks, links, todos | |
| `Visits` | visits and status of one job under calls, chats, the office and the sync, and ServiceTrade's copy | |
| `ServiceLink` | the mail with the service link, its recipient and the ServiceTrade contact | |
| `ChatLink`, `ChatLinkProofs` | a chat from its link to the outcome comment: openings, turns and their checkpoints, ended mark, expiry sweep, catch-up | |
| `WebhookQueue`, `WebhookQueueProofs` | webhook receiver, event queue, drains; the refreshed jobs as a set of changes | |
| `CrmMirror` | runSync followed by normalizeAll: cursor, raw rows, watermark, platform rows | |
| `EntitySync` | the records around the jobs: fan-out, pruning, references, merged contacts | |
| `CrmMirrorProofs` | the theorems about `CrmMirror` | `CrmMirror`, TLAPS |
| `EntitySyncProofs` | the theorems about `EntitySync` and about both together | `MCCrmMirror`, `CrmMirrorProofs` |
| `EngineRun`, `EngineRunProofs` | a run of the workflow engine and the browsers that follow it | |
| `DailyReport` | who gets which edition of the report when | |
| `ConfirmProofs` | the theorems about `Visits`, `ServiceLink`, `FollowUp` and their composition | `MCConfirm`, TLAPS |
| `OperationProofs` | the theorems about `DailyReport`, `LinkDelivery` and the composition of the parts of `MCOperations` | the proofs of the other parts |
| `MCCallQueue`, `MCWebhookQueue`, `MCCrmMirror`, `MCChatLink`, `MCOperations`, `MCConfirm` | instances for TLC: the row contents, event contents and records used by the configurations, and parts checked by one run | |

Several parts that share no state are checked by one run: the initial value of
`part` decides which of them a behaviour is of, and the others never move. `MCOperations` puts the queue, the engine, the report and
the delivery side by side, `MCConfirm` visits, service link and follow-up,
`MCCrmMirror` the jobs and the other records. `MCWebhookQueue` divides the
behaviours of one module: rough ones have two drains, crashes and details that
fail for good, smooth ones only the cron's drain, outages and passing failures.

How the parts meet. The queue's row is a name in `CallQueue`; `FollowUp` says who
inserts rows and what follows one, `LinkDelivery` what sending one does. What a
tool does to the visits is `Visits`, to the service link `ServiceLink`, to the
conversation `ChatLink`. A webhook's targeted sync is a set of changes in
`WebhookQueue`, fetched and normalized in `CrmMirror` and `EntitySync`; the
normalizer's effect on statuses and consent is in `Visits`.

Operators whose name ends in a suffix and whose comment begins with "mutant:"
(`PhoneBusy_Never`, `Recent_None`, ...) are faulty variants of the definition
next to them. No specification uses them; exchanging one for its original shows
that a property can be violated (`PROJECT.json`, `mutants`).

### CallQueue

One action per statement or outside call. A dispatcher `d` goes through
`pc[d]`: idle → reaped → planned → claiming → claimed → running, and for each
row dialing → placed (or failing) → running.

| Action | Code |
|---|---|
| `StartRun` | `claimPending`'s reaper, `db/scheduled-calls.js:233-241` |
| `Plan` | steps A and B: open tenants, postponing the closed ones' due rows, `:253-303` |
| `ClaimSnapshot`, `ClaimApply` | the claim statement: what its CTEs read, and its UPDATE, `:304-367` |
| `Settle` | dedupe by phone in JavaScript and the write-back of the losers, `:369-399` |
| `Gate` | office hours of each row in the loop, `scheduler.js:149-179` |
| `ContactFails`, `PlaceCall`, `SendLink` | variables, Retell, mail and text, `scheduler.js:181-547` |
| `Complete`, `CompleteFails`, `FailOrRetry` | `markCompleted*`, the catch block, `markFailedOrRetry` |
| `FinishRun`, `Crash` | return; death of the invocation |
| `Insert`, `Cancel`, `ForceCancel`, `MarkUnopened` | the other writers of the table |
| `MakeDue`, `Lapse`, `OpenWindow`, `CloseWindow` | the clock |

Abstractions. Columns that never change are the constant `Row`; the recipient,
phone and job are names. `scheduled_at <= NOW()` is `due`, `last_attempted_at`
older than five minutes is `lapsed`. A claim picks the best rows by priority
rank with ties either way (the code breaks them by `scheduled_at`).
`attempt_number` starts at 0 and the row fails when the new count exceeds
`max_attempts`, as in the SQL. `dials` and `lost` are history variables.

Why the claim is two actions. `FOR UPDATE SKIP LOCKED` stands on
`SELECT ... FROM eligible`, where `eligible` is a WITH query; PostgreSQL does not
carry a locking clause into a WITH query, so no row is locked, and the UPDATE
selects by id and does not test the status again. `ClaimRaces` says whether the
instance lets others commit between the two halves. The claim of the webhook
queue selects from the table itself and is one action.

`Lapse` waits until no live run holds the row: the run stamps
`last_attempted_at` after it was started, it lives at most 300 s, and the reaper
looks for rows older than five minutes. The mutant `RunOver_Unknown` drops that
assumption and breaks `Custody` at once.

### QueuePromise

A call is absent, waiting, working or settled; `told` counts contacts, `unsure`
those that were not recorded. `Offer` refuses a call that competes with another
one about the same thing, `WorkOn` takes waiting calls that fit into the caps of
every tenant and of the system together with all that is being worked on,
`PutBack` and `Conclude` end that, `Reach` contacts the customer only if every
earlier contact went unrecorded, `LoseRecord` is the bookkeeping that fails.

`CallQueue` instantiates it with `stage[c] <- Stage(status[c])` (pending is
waiting, in_progress is working, completed, failed and cancelled are settled),
`told <- dials`, `unsure <- lost`, the rivals being the pairs of one slot
(`scheduled_calls_active_uniq`), the limits the caps. Claim, reaper, dedupe,
office hours, retries and the crash of a run are either one of its steps or
stutter. `PromiseKept` is the property of the run, `Refinement` the theorem;
together with `NumbersApart` they say what the queue is for: caps over all
runs, one call at a time about one thing, settled is settled, no unexplained
second call. Both need `~ClaimRaces` and `~CancelInFlight`; `queue_overlap` and
section 5 show what happens without.

### LinkDelivery

A sender is a row in the hands of a dispatcher, or a request of staff. It goes
looking → (making) → sending, by text also checking → minting → texting, and then
settling → closing.

| Action | Code |
|---|---|
| `AddNotice`, `BeginNotice`, `BeginClerk` | the row and its channel; the delivery method looked up at every attempt, `scheduler.js:285-547`; staff, `routes/chat-links.js` |
| `FindLink`, `MakeLink`, `ExpireLink` | `createChatLinkForAppointment`, two statements, `services/chat-links.js:80`; 24 hours |
| `MailLink`, `TextLink` | a leg: accepted, refused, or accepted and the answer lost |
| `ReadShort`, `CheckShort`, `CheckFails`, `MintShort`, `Divert` | `chat-link-sms.js`, `link-shortener.js`: the cached short URL, the look at where it leads, a new one |
| `RetryNotice`, `CompleteNotice`, `CompletionFails`, `CloseSend` | `markFailedOrRetry`, `markCompletedWithChatLink`, `markSent` and `setOrigin` |
| `SenderDies`, `RecoverNotice` | the invocation dies; the reaper of a later run |

`slips` counts the sends a row could not know had succeeded: a lost answer, a
completion that failed, a death after a leg. `LegOnce` says that nothing else
repeats a leg, in particular not the failure of the other one.

### FollowUp

One job, its customer and the contacts the company also writes to. `slot` is the
active row of a recipient, which the unique index makes a function; `sent` the
links sent and not followed up; `call` a call until its last webhook, `table`
the row of it that analytics keep. Days are relative.

| Action | Code |
|---|---|
| `StartDaily`, `FollowLink`, `MarkLinkFailed`, `SweepRecipient`, `SweepDies` | `runDailyJob`, `processUnopenedChatLinks` (insert, then mark), `processScheduledUnconfirmed` |
| `BulkSend`, `ManualSend`, `ResolveTodo` | `routes/jobs.js` bulk send, `manual-call.js`, `PATCH /todos/:id/status` |
| `Dial`, `Send`, `HangUp`, `ToolCallback` | what a dispatcher does to a due row; the call, its outcome and `schedule_callback` in it |
| `CallEnded`, `CallAnalyzed`, `LastWebhook` | `routes/retell.js`: in any order, repeated, or never |
| `CallTodo`, `CallFollowUp`, `HandlerDies` | todo; `handleRetryOrCallback`: retry, callback, fallback to a link; the handler dies between them |
| `NextDay` | windows open, links age, the cron fires |

### Visits

A handler is the sequence of its statements that change state, such as
`<<"move", "mirror move", "derive">>`, and handlers interleave between them.
`visit` is the platform row (status, start, customer_confirmed), `crm` and
`rows` what ServiceTrade and the raw tables have, `job` the stored status.

| Action | Code |
|---|---|
| `VoiceTool`, `VoiceToolJob` | confirm, reschedule, create, cancel of `routes/retell-tools.js`, for a visit or the job |
| `ChatTool`, `ChatToolJob` | the same tools of `confirmation-agent/tools/handlers`, with their own early returns |
| `DeskRequest`, `DeskJob` | `routes/jobs.js` |
| `StepConfirm`, `StepConfirmEach`, `StepMove`, `StepSetTime`, `StepCreate`, `StepCancel`, `StepJob` | the statements of `db/jobs.js` |
| `StepMirror` | `servicetrade-appointments.js`: accepted, refused (a todo), applied with the answer lost (a todo all the same), or switched off |
| `StartSync`, `StepRead`, `StepWriteJob`, `StepWriteVisits`, `StepInfer`, `StepConfirmAsked`, `StepAdvance` | `normalizeAll` as far as it touches statuses, `inferJobConfirmations` |
| `CrmEdit`, `Begins`, `Dies` | dispatchers in ServiceTrade, the time of a visit, the death of a handler |

`DerivedStatus` is `job-confirmation-status.js` and the tallies of its query.
`agreed` (the time the customer heard), `loose` (visits the office or
ServiceTrade moved) and `calledOff` (visits ServiceTrade agreed to cancel) are
history variables. `unsynced` is set by a status set by hand and by a handler
that died, until the next recomputation.

### ServiceLink

`links` are the rows of one conversation. A handler records a confirmation or
searches a contact, creates one, and writes the recipient; then it tries to send:
confirmed? → recipient? → read → post → mark. `blind` (a search failed, or missed a
contact being created), `crossed` (a recipient recorded while another
handler is between reading the row and marking it) and `lostLink` (a handler died) are history variables.

| Action | Code |
|---|---|
| `ConfirmTool`, `LinkConfirm`, `ResolveTool`, `PostCall` | the tools and `postCallServiceLink` of `routes/retell.js` |
| `Search`, `CreateContact`, `Lookup`, `RecordRecipient` | `resolve_service_link_contact`, `setRecipient` |
| `CheckConfirmed`, `CheckRecipient`, `ReadLink`, `PostMessage`, `MarkLink` | `maybeSendServiceLinkNow`, `sendRecordedServiceLink`, `markSent`, `markFailed` |
| `Unheard`, `LinkDies` | the only confirmed visit is moved; a handler dies |

### ChatLink

A turn is one GET or POST of the widget: idle → (greeting) → thinking → (acted →
answering) → saved → (closing → checking → posting) → done. A sweep is one call
of `runDispatcher`'s head, or of the administrator's catch-up, and goes idle →
visiting → checking → posting → stamping for each link.

| Action | Code |
|---|---|
| `Open`, `Greet` | GET: `resolveChatLink`, `markOpened`, `ensureOpened` |
| `Send` | POST: `sendChatMessage`; a turn takes up the latest checkpoint |
| `Act`, `SaveTools`, `Save` | a tool changes a visit; the checkpoint after the tools; the answer, `graph/build.js` |
| `ReadBack`, `MarkEnded`, `MarkFails` | `runGraph` after the graph: `endedNow`, summary, `markEnded` |
| `Skip`, `Check`, `CheckFails`, `Post`, `PostFails` | `postConfirmationAgentComment`: look for the marker, post |
| `Expire`, `List`, `Visit`, `Stamp`, `RowFails` | `expireStale`, `listExpiredAwaitingOutcomeComment`, `postExpiredOutcomeComment`, `markOutcomeCommentPosted` |
| `Lapse`, `TurnDies`, `SweepDies` | the link's day is over; an invocation dies |

The history of a thread is a sequence of coarse entries. LangGraph's checkpointer
is external: a checkpoint holds the whole history, and the latest one counts, so
of two overlapping turns the one that writes last replaces the other's entries
(`lost` notes "forked"). A turn changes at most one visit, and the visit is named
by the turn; a failed tool call changes nothing and is an answer. `Booking` says
which turns would book a new visit, which the sweep leaves out by decision
(`index.js:254-261`). `late` and `lost` are history variables: they name the ways
in which an outcome can go missing in this code, so `OutcomeKept` says that
there is no other. Links that appear in the model have been created already.

### WebhookQueue

An event stands for the change it reports; a copy of a job is the set of changes
that had reached it when it was fetched. `Deliver` has the outcomes stored and
acknowledged, stored but the answer lost (or the 503 after the INSERT), and not
stored. A drain goes idle → listed → claimed → resolving → marking → fetching →
written → normalized. `Affects` and `Known` stand for the five resolvers:
what an event is about, and whether the lookup needs ServiceTrade. `Crash` also
stands for a mark statement that throws, because nothing catches it.

### CrmMirror

A job's content is the number of changes made to it; its detail and its visits
are two raw rows, fetched one after the other. The cursor is modelled by what it
lists: `due` is the set of jobs changed after `last_jobs_updated_at` minus the
five minutes of overlap (`cursorParams`, `servicetrade-sync.js:1273-1276`).
Stamping it with "now" empties `due` except for what changed in the last five
minutes, which is at least everything that changed during a run that is still
active. The watermark is modelled likewise by `above`, the raw rows with
`updated_at` after `last_normalized_at`, and `newer`, those written since a
normalize took its `runStartedAt`.

### EntitySync

A record is a kind and a number; its content is the set of records it refers to.
A run executes the statements of `Program` one at a time, passing over the kinds
that have no record (`NextStatement`): the upserts of
`runSync` in their order, then the passes of `normalizeAll` in theirs. An upsert
keeps the references its columns and payload have (`JobRow`, `VisitRow`, ...), a
pass writes rows or junction rows from all raw rows or from those above the
watermark.

| Action | Code |
|---|---|
| `Begin`, `Detail`, `Embedded`, `People`, `VisitList`, `Comments` | the requests of `runSync`, each of which may be refused |
| `UpsertBatch`, `Prune`, `CancelMissing` | `db/servicetrade-sync.js`; `reconcileAppointmentsForJob`, two statements |
| `BeginNormalize` | `runStartedAt`, the watermark, `_countStrandedRefs` |
| `WriteRows`, `WriteLinks`, `FinishNormalize` | the passes, `dedupeContactsByEmail`, `replaceJunction`, the watermark |
| `Assign`, `DeleteVisit`, `RunDies` | edits in ServiceTrade; a run dies, and its jobs are fetched again |

### EngineRun

`engine` is the row with its history, whose indices are the seq numbers. What a
process appends and what it publishes are two steps, `outbox` between them, so a
stream that has asked for the history and not yet had the answer misses the
event (`slipped`).

| Action | Code |
|---|---|
| `CreateRun`, `CreateResent` | `createRun`; the statement sent twice by `db/index.js:81`, which leaves an orphan row |
| `EmitStarted`, `EmitProgress`, `EmitDone`, `EmitFailed`, `Publish` | `appendEvent`, `broker.publish` |
| `StoreVerdict`, `CloseStreams`, `StatementFails`, `ProcessDies` | `setStatus`, the `__close__` event, `Engine.fail`, a frozen instance |
| `Silence`, `Reap`, `Purge` | 30 minutes, `reapStaleRuns`, `gcOldRuns` |
| `OpenStream`, `AskEvents`, `Attach`, `DropStream` | `streamRun`: snapshot, replay, subscribe; the browser comes back with Last-Event-ID |

### DailyReport

A day has the moments 0 .. `Midnight`, an edition is the number of the day it
covers. `AddReader`, `EnableReader`, `EditReader`, `RemoveReader` are the routes;
`StartSweep` lists the rows, and for each `PassOver` or `MailReport` followed by
`StampReport`; `ReportFails`, `SweeperDies` are the faults, `Tick` the clock.
`excuse` counts what may make an edition go out again: a stamp lost after its
mail, an hour moved across closing time.

## 3. Runs

| Run | Instance | Properties | Shows |
|---|---|---|---|
| `queue_handover` | Queue: a text link of one tenant and a Call now row of another for one phone, a third row without a job for another phone; cron run and poke, caps 1 and 2, 1 retry, 1 crash, atomic claims. Engine: one run and an orphan row, one browser, 2 faults. Report: 2 readers, 2 days with a day off. Delivery: one row, one clerk, one fault | `OperationTypeOK` `NoParallelDial` `Custody` `NoUnexplainedRedial` `PromiseKept` `VerdictTold` `RunEnds` `SentOnce` `DayReported` `LegOnce` | hand-over of rows between runs, and the queue implements its promise; streams and runs end; editions and legs go out once |
| `queue_force` | sweep row, its Call now successor, another job's text link for the same phone; one run; staff cancel rows in flight, statements overlap; 1 retry, 1 crash or 1 closing | `OneActivePerSlot` `EventuallySettled` | every write back by id meets the unique index; every row is settled for good |
| `hook_queue` | 2 events about two jobs, 2 deliveries and 2 attempts each. Rough: cron and button, 1 crash, details and lookups fail. Smooth: cron only, 1 outage, lookups and syncs fail | `TypeOK` `EventCustody` `SettledStays` `SmoothDoneMeansApplied` `SmoothEventuallyHandled` | marking by id is safe; done means applied, and everything is handled |
| `mirror_cursor` | Jobs: one job with 2 changes, a poll and a targeted run whose normalizes overlap the next fetch, 1 fault. Records: one of every kind, 2 edits, 1 fault | `BothTypeOK` `JobsNotMissed` `RawNotMissed` `EventuallyMirrored` `RefsHeal` `VisitsPruned` `PhoneKept` | neither cursor nor watermark loses anything; references heal, pruning is exact |
| `chat_outcome` | 1 link, 2 turns that may overlap (the outcome of one a booking), the sweep and the catch-up, 1 death or failure | `TypeOK` `OutcomeKept` `QuietMeansReported` `EndedStays` | a changed visit is reported or in someone's hands; a closed chat stays closed |
| `confirm_visit` | Visits: 2 visits, of which one is booked in the run, 2 times, all four actors, 2 handlers in flight. Service link: 2 addresses, 2 handlers, 3 events. Follow-up: customer and an unreachable contact, one call, every outcome, 2 days, 2 faults | `ConfirmTypeOK` `JobInStep` `ConsentIsFresh` `MoveReported` `JobHeals` `LinkNotLost` `CorrectedIsMailed` `UnsentTold` `ContactOnce` `TodoTold` `AnalysisKept` `ChaseEnds` | status, consent and ServiceTrade agree with what the customer said; the link is sent by whichever condition comes last; contacting ends |

Six runs show a disagreement between the code and what its documents or
comments say; TLC finds the behaviour, and `PROJECT.json` (`findings`) quotes
the line.

| Run | Property | Behaviour found |
|---|---|---|
| `queue_overlap` | `NoParallelDial` | two claim statements overlap and two runs dial one number |
| `hook_stranded` | `StrandedReclaimed` | a drain dies with the company's only event; the cron asks only for companies with pending rows and never reclaims it |
| `mirror_visits` | `VisitsNotMissed` | a job's visit pages fail, the jobs cursor moves on, and the visits' own cursor is never read |
| `visit_cancelled` | `CancelledStays` | the agent cancels a visit, ServiceTrade stores `canceled_by_customer`, and the normalizer reads that as scheduled |
| `chase_endless` | `ChaseEnds` | without a due date, used-up voice retries end in a link, the unopened link in voice calls with a count of one, and so on |
| `contact_merged` | `RefsHeal` | two contacts with one e-mail address are merged, and a job below the watermark is not repointed |

### Bounds, and why they are enough

* Two dispatcher runs are the largest number that can differ in what they do to
  one row (holder and non-holder). Two rows of `queue_handover` have one phone
  and different tenants, the third has one tenant and another phone in common
  with them: the caps of 1 and 2 are met by two rows and exceeded by the third.
  The constraint `Bounded` lets the third row take part only in behaviours
  without a crash or a failed contact; neither changes what a cap counts. In
  `queue_force` the third row fills a slot while another is written back
  (`ForceNext`: a run dies or the offices close, not both, and the run that dies
  does so in behaviours without the third row). The
  theorems have none of these bounds.
* `MaxAttempts = 1` has both outcomes of `markFailedOrRetry`.
* `MaxCrashes = 1`: after a crash the dead run has no local state, so a second
  crash starts from states the first one already produces, except for `lost`,
  which only weakens `NoUnexplainedRedial` further.
* `MAX_ATTEMPTS = 2` and `MAX_TRIES = 2` (5 and 3 in production) reach first,
  middle and last attempt, and a duplicate. Two events, one of which affects both
  jobs, let a batch fail in part.
* In `CrmMirror` a job's detail and its visits are two rows, one of which can fail
  while the other arrives, and two changes let one fall before and one inside a
  run. Jobs share nothing but the cursor and the watermark, and the theorems are
  about any number of them.
* `OneOfEach` has a record of every kind and a second job of the same customer;
  `Shared` two contacts with one address. Each reference kind of the source is
  there once, so every pass has something to resolve; two edits let a reference
  be removed and given back.
* In `ChatLink` links share nothing but the list a sweep works through, so one is
  enough; two turns are the most that can differ in what they do to a history,
  and the second overlaps with the first, follows it, or comes after its end.
  `Faulty` leaves the catch-up out: it runs the same code as the sweep.
* `Visits`: with two visits a job can be partly confirmed; two handlers in flight
  (`MaxBusy`) have every overlap of a pair; two events let the second handler
  undo or precede what the first does. `SameVisit = FALSE`: two people do not
  work on one visit at the same moment (section 5 says what happens then).
* `FollowUp`: one call at a time has webhooks outstanding, while the sweep and the
  other recipient's row go on; two days
  reach the day of the visit, two faults a repeated webhook after a death. With
  `MaxRetries = 3` and a due date two days off the retries end by date; in
  `chase_endless` they end by count.
* `EngineRun`: one round of progress is an event between the first and the last;
  two faults give a death and a dropped stream. `DailyReport`: sending hours on
  both sides of closing time, a working day and a day off. `LinkDelivery`: one
  row, tried twice; the clerk is the second sender; one link and one short URL
  are enough for the cache to be right, wrong and missing.
* No run caps a variable other than by `MaxCrashes`, `MaxClosings`,
  `MaxAttempts`, `MAX_TRIES`, `MAX_ATTEMPTS`, `MaxOutages`, `MaxChanges`,
  `MaxFaults`, `Faulty`, `MaxEdits`, `MaxEntityFaults`, `MaxBusy`, `MaxEvents`,
  `MaxLinkEvents`, `MaxRetries`, `Ahead`, `MaxFollowFaults`, `MaxRounds`,
  `MaxEngineFaults`, `LastDay`, `MaxReportEvents`, `MaxLinks`, `MaxTries` and
  `MaxDeliveryFaults`, of which `MaxAttempts`, `MAX_TRIES`, `MAX_ATTEMPTS`,
  `MaxRetries` and `MaxTries` are limits of the code itself.

Deadlock is not checked: each system may come to rest, when no row, event or
change is left.

### Fairness

* `CallQueue!Fairness` (`queue_force`). The cron fires every two minutes
  (`vercel.json:42-45`), so a cron dispatcher that is idle is started: weak
  fairness of `StartRun` for `Cron` only; a poke is promised by nobody. A started
  invocation keeps executing: weak fairness of `Step`. The claim statement takes
  no lock that another claim could hold for ever, so it is executed even if others
  run at the same moment: strong fairness of `ClaimSnapshot` (in instances without
  `ClaimRaces` its guard `Quiet` is what may flicker). Clocks advance and offices
  open again: weak fairness of `MakeDue`, `Lapse`, `OpenWindow`. Inserting,
  cancelling, crashing and closing are never promised.
* `WebhookQueue!Fairness`. The drain cron fires every minute
  (`vercel.json:58-61`), under its guard that some row is pending. No
  redelivery, reconnect or button press is promised.
* `CrmMirror!Fairness`, and the same in `BothFairSpec`. The poll cron fires every
  second hour (`vercel.json:50-53`). It is strong because in an instance without
  overlapping runs a poll may have to wait for one targeted run after another, and
  so is the start of a normalize, which may have to wait for another's. No webhook
  is promised.
* `RunEnds`: weak fairness of the cron that reaps and of the time it waits for
  (`CronStep`). The process itself is promised nothing.
* `MCConfirm!FairSpec`. The sync cron starts (`StartSync`), and a handler that
  runs keeps executing (`Handling`); days pass, the daily cron fires and its sweep
  goes on (`SweepStep`, `vercel.json`); due rows are sent out by the dispatcher
  (`Contact`), a call that was placed ends and its handler runs, and Retell's
  webhooks come to an end (`Handle`, `LastWebhook`). Nothing is promised about
  people, and no webhook is promised to arrive.
* `ChatLink` and the others have none: `QuietMeansReported` and its like say what
  must hold once everything has come to rest.

## 4. Proofs

Everything in the `*Proofs` modules holds for every value of the constants that
satisfies the named assumptions of the module, in particular for any number of
rows, runs, tenants, events, jobs, records, visits, calls, handlers, readers,
links and browsers, and without the bounds of the runs (the bounds are arbitrary
natural numbers). The assumptions say what kind of value a constant is; the
only ones beyond that are that a name for "nobody" is not a somebody
(`"none" \notin Address`, `"none" \notin Reader`) and that there is a day
(`LastDay \in Nat \ {0}`).

| Theorem | Statement | Under |
|---|---|---|
| `CallQueueProofs!TypeCorrect` | `Spec => []TypeOK` | assumptions only |
| `CallQueueProofs!OneActive` | `Spec => []OneActivePerSlot` | assumptions only; overlapping claims and cancelling in flight included |
| `CallQueueProofs!CustodyKept` | `Spec => []Custody` | `~ClaimRaces` |
| `CallQueueProofs!RedialsExplained` | `Spec => []NoUnexplainedRedial` | `~ClaimRaces` |
| `CallQueueProofs!NumbersApart` | `Spec => []NoParallelDial` | `~ClaimRaces`, `~CancelInFlight` |
| `CallQueueProofs!Refinement` | `Spec => PromiseKept` | `~ClaimRaces`, `~CancelInFlight` |
| `WebhookQueueProofs!HookTypes`, `HookCustody`, `HookBudget`, `HookSettled` | `TypeOK`, `EventCustody`, `BudgetKept`, `SettledStays` | assumptions only |
| `WebhookQueueProofs!DoneIsApplied` | `SmoothDoneMeansApplied` | one cron; smooth behaviours: it drains alone, no drain dies, no detail fails for good |
| `CrmMirrorProofs!MirrorTypes` | `TypeOK` | assumptions only |
| `CrmMirrorProofs!MarkKept` | `RawNotMissed` | `~NormalizeOverlaps` |
| `CrmMirrorProofs!CursorKept` | `JobsNotMissed` | `~SyncOverlaps`, `~JobsLeave`; normalizes may overlap fetches |
| `EntitySyncProofs!EntityTyped` | `EntityTypeOK` | `~RunsOverlap` |
| `EntitySyncProofs!VisitsStayPruned` | `VisitsPruned` | `~RunsOverlap`, visits stay with their job |
| `EntitySyncProofs!RecordsFound` | `RefsHeal` | `~RunsOverlap`, `Fixed`, `WellBooked`, `OwnInboxes` |
| `EntitySyncProofs!PhoneStays` | `PhoneKept` | assumptions only; overlapping runs included |
| `EntitySyncProofs!BothTyped` | `BothTypeOK` | `~RunsOverlap` |
| `ChatLinkProofs!ChatTyped`, `ChatEndedStays` | `TypeOK`, `EndedStays` | assumptions only |
| `ChatLinkProofs!ChatOutcomeKept`, `ChatQuietReported` | `OutcomeKept`, `QuietMeansReported` | assumptions only; overlapping turns and sweeps included |
| `OperationProofs!DeliveryTyped`, `LegsOnce` | `DeliveryTypeOK`, `LegOnce` | assumptions only |
| `OperationProofs!OperationTyped` | `OperationTypeOK` | assumptions only |
| `EngineRunProofs!EngineTyped`, `VerdictsTold` | `EngineTypeOK`, `VerdictTold` | assumptions only |
| `OperationProofs!ReportTyped`, `NoDaySkipped` | `ReportTypeOK`, `DayReported` | assumptions only; overlapping sweeps included |
| `OperationProofs!EditionOnce` | `SentOnce` | `~SweepsOverlap` |
| `ConfirmProofs!VisitTyped`, `ConsentStays`, `JobStaysInStep`, `MoveIsReported` | `VisitTypes`, `ConsentIsFresh`, `JobInStep`, `MoveReported` | assumptions only |
| `ConfirmProofs!LinkTyped`, `LinkIsTried`, `CorrectionIsSent`, `UnsentIsTold`, `ContactIsOnce` | `LinkTypes`, `LinkNotLost`, `CorrectedIsMailed`, `UnsentTold`, `ContactOnce` | assumptions only |
| `ConfirmProofs!FollowTyped`, `CallIsTold`, `AnalysisStays` | `FollowTypes`, `TodoTold`, `AnalysisKept` | assumptions only |
| `ConfirmProofs!ConfirmTyped` | `ConfirmTypeOK` | assumptions only |

The hypotheses are the ones the code needs. Without them the property is false:
`queue_overlap` shows it for `ClaimRaces`, section 5 for the others. They are
values of constants, so the instance that satisfies them is the one the run
checks.

The hypotheses of `RecordsFound` are about the records (`EntitySync`). `Fixed`:
technicians, offices and people of a record change, the job a record is about,
the customer and the location stay. `WellBooked`: a visit and a comment are about
one job, a location's customer is its job's customer, the visits a job embeds are its
own, and a service request has the job of its visit and that job's location. `OwnInboxes`: no two contacts
share an e-mail address. `MCCrmMirror` has TLC evaluate all three on the records
of `mirror_cursor` (`OneOfEachIsWell`), and `contact_merged` shows what happens
without the last. Without `Fixed` a location may name a customer that its own
job does not: the customer comes with another job, the run dies after writing
it, and the location, which is below the watermark and not in the columns
`_countStrandedRefs` looks at, is never given it. TLC finds this when `Loose` of
`mirror_cursor` is `{"customer"}`; with offices, contacts or visits in `Loose` it
finds nothing, as the theorem says.

The argument.

* **Queue.** `OneActivePerSlot` is inductive together with `TypeOK`: every step
  that enlarges the set of active rows is guarded by the index, and the two that
  are not (reaper, gate) move rows between the two active statuses. `Custody` is
  the inductive invariant for what a run may assume between statements: held
  rows are in progress (or cancelled by staff), not lapsed and held once; the
  rows of an unfinished claim are pending; one claim is unfinished at a time.
  It needs `RunOver` (the 300 s limit) in `Lapse`, for otherwise the reaper takes
  rows from a live run, and atomic claims, for otherwise two runs claim a row.
  `NoUnexplainedRedial` is strengthened by where the contact of a row is: a
  pending row has at most `lost` contacts, a row at "placed" one more, held by
  exactly one run.
* **Promise.** `Firm`: when staff do not cancel rows in progress, what a run
  holds is in progress. `PhonesApart` extends `NoParallelDial` to the rows a
  claim under way has chosen, which the claim's own test of busy numbers makes
  inductive. `Capped`: what is in progress fits the caps together with an
  unfinished claim, because the claim counts what is in progress when it takes its
  snapshot and no other claim finishes before it. `Recorded` is the ledger of
  contacts and lost records, for `Reach` and `LoseRecord`. With these, every
  action of `CallQueue` maps to a step of `QueuePromise` or to a stutter
  (`OutsideRefines`, `RowsRefine`, `ContactsRefine`).
* **Webhooks.** `EventCustody` is the same idea and inductive with the guard
  `HolderGone`; `BudgetKept` and `SettledStays` follow from it, because a mark by
  id meets only rows that are still in processing. `DoneInv` carries
  `DoneMeansApplied` through a drain: a detail that was fetched contains every
  event that is done or about to be (`Ready`; an event that is stored has
  happened, `Sent`, so a later fetch sees it), and the copy contains the events
  before they are marked (`Applied`). What another drain fetched before and
  writes after would break `Ready`, hence one cron.
* **Mirror.** `RawNotMissed` needs what holds in the middle of a normalize: a
  row that differs is above the old watermark, or was written since
  `runStartedAt`, or is in the buffer about to be written. `JobsNotMissed` needs
  the same for a run: a job that is out of date is due, or changed since the run
  started, or is one the run has fetched and will write, or made it incomplete.
* **Records.** A run is a walk through `Program`. `ProgramShape` says where the
  visit list, the prune, the cancelling and the start and end of the normalize
  stand in it, and `Places` which statement a position can hold; they are
  derived from the concatenations by which the program is written. `EntityTypes`
  then says of a run what it holds at its position (`RunOK`): before the visit
  list the customers whose rosters are whole, after it the jobs whose lists are,
  in the normalize only stored rows. `PruneInv` says that the book never names
  more of a visit than it did at the start and keeps its job (`Faithful`), that
  what a whole list lacks was deleted (`ListsAreWhole`), and that a visit without
  its raw row is cancelled, about to be, or was cut off by a death
  (`PrunedTold`). With two runs an older list contradicts `ListsAreWhole`, and a
  visit that moves to another job is absent from a whole list without having
  been deleted.
* **References.** `RefsHeal` looks at the state of rest, so its invariant
  `RefsInv` has to say for every position in the program what is still to come.
  `Held`: a run that fetches has in hand, with a record, what the record refers to;
  the record's raw row is written when the last upsert of its kind is done.
  `Closed`: what a raw row refers to has a raw row too, unless a job it is the
  business of is owed (`InDebt`), or the run that just stored it is bringing it
  (`Bringing`). `Reading`: a normalizing run has taken all rows above the
  watermark. `Linked`: a raw row has its platform row and its foreign keys are the
  ones its payload names, or it is above the watermark and the last pass that
  writes them is ahead of whoever is at work (`HasRow`, `HasRefs`); and a row
  below the watermark refers to nothing that is stored and not on the platform.
  `Honest` keeps the hypotheses true of what was read. One lemma per action shows
  that it keeps the five; `PassKeeps` is shared by all passes. Where a pass stands
  in the program, and that no later pass writes what it needs, is read from
  `Listing`, the 49 statements written out, which `ProgramListed` proves equal to
  `Program`. TLC checked `RefsInv` on the records of `mirror_cursor` and on two
  other books before it was proved.
* **Chat.** `EndedStays` needs no more than the kind of the status column.
  `OutcomeKept` follows from `ChatInv`. Its centre is `Traced`: as long as an
  outcome is neither reported nor excused, it is in the history, in what a turn
  that is about to end the link has read, and, once the link is over, with a
  worker that will write it or on the list of a sweep. This is stronger than
  `OutcomeKept`, which only wants one of these places. It rests on
  `SweepsInOrder` (a sweep works on links that are over and in its list, a
  stamped link is over) and `ActsOnce` (a turn changes its visit once, on its own
  link). Each step is looked at in two halves, the link it works on and the
  others (`Undisturbed`).
* **Delivery.** `LegInv` adds where a row is (`RowsPlaced`: nobody works on a
  completed row, an idle sender has nothing in hand) and the `Ledger`: a leg has
  gone out at most `slips` times, and once more if its success is in the sender's
  hand or has completed the row.
* **Engine.** `RunsOK`: the verdict is in the history before it is in the row,
  unless the cron failed the run; what is appended and not published is at the
  end. `WatchesOK`: a browser has every event up to its last, unless one slipped
  by, and what was published while it was attached or had been listed for it.
  Hence a stream that is closed, by the sentinel or because the run was over when
  it attached, has been sent the verdict.
* **Report.** `ReportBase`: a stamp, in the row or in the list a sweep took
  earlier, is of an edition that went out (`RowOK`, `ListOK`), and so is a letter
  that is not stamped yet (`LetterOK`); this gives `DayReported`, because a reader
  is passed over only if the stamp says today's edition. `OnceInv` looks ahead:
  every edition from the reader's current one on is paid for, but the current one
  if its stamp or its letter is there (`RowPaid`), and an edition that a list
  will send is paid for before it is sent (`ListPaid`). An hour moved across
  closing time changes which edition is current, and is paid by the excuse; a
  second sweep with an older list is not, hence `~SweepsOverlap`.
* **Visits.** A handler is a list of statements to come, so what it still owes
  can be read from the list. `PlanOK`: a statement that disturbs the status is
  followed by one that derives it, a move by its mirror; it is kept when a
  handler goes on, because it speaks of what follows. `Settled`: the status is
  right, or a handler is still to derive it, or `unsynced`. It is `JobInStep`
  without "nobody at work". `MoveInv` is the same for the other side:
  a time ServiceTrade does not have is excused by a todo, the office, rows the
  sync has not read or written, or a mirror still to come (`Excused`); it needs that
  the rows last read are ServiceTrade's unless they are behind (`CopyOK`), for when
  the normalizer writes them. `ConsentIsFresh` is inductive with the types.
* **Service link.** `Chased`: a confirmed visit and a recipient whose row is
  pending have a handler that is still to check both, or is posting that very
  row. `Honest`: a row marked sent, and the mail of a handler about to mark it, was to the row's
  address, unless `crossed`. `Answered` and `Alone` are the like for
  `UnsentTold` and `ContactOnce`.
* **Follow-up.** `Handled`: nothing is stored of a call before it is over, the
  stored analysis is the call's, and a handler that is past the todo has told.
  Repeated and reordered webhooks keep it because the analysis is what the
  first of them stored.
* **Compositions.** A behaviour of `MCOperations`, `MCCrmMirror` or `MCConfirm` is a
  behaviour of each of its parts (`OperationParts`, `BothParts`), so the theorems
  about the parts hold in it.

Only model-checked. The liveness properties (`EventuallySettled`,
`SmoothEventuallyHandled`, `EventuallyMirrored`, `JobHeals`, `ChaseEnds`, `RunEnds`)
are beyond the prover (fairness and ENABLED); every other property of a passing
run is a theorem. `RefsHeal` where contacts do share an address is checked by
`contact_merged` alone, which refutes it. The model has no recursive definition.


## 5. Deviations traced while modelling

Besides the six findings that have a run.

The queue and its dispatcher:

* The caps fail like `NoParallelDial` when claims overlap.
* A Call now row that bypasses office hours is claimed and then postponed by the
  loop's own check (`scheduler.js:167`), against `scheduling-architecture.md:287-292`
  ("The call dials.").
* A row staff cancel while a run holds it is put back to pending by the run's
  late write (`markFailedOrRetry`, `advanceToNextWindow`, losers of the dedupe).
* Caps and busy numbers count rows, and a row is completed when the call is
  placed (`scheduler.js:545`); calls on the line are not counted, contrary to
  `scheduling-architecture.md:16`, `:47` and `:137`.
* A tenant without business hours is neither postponed nor dispatched.
* Two senders that look for a link and find none make two live links for one
  visit (`services/chat-links.js:80`).
* A lost answer of a provider, or a `markCompletedWithChatLink` that failed, sends
  a link again (`slips`).
* `link-shortener.js:95-98` and `chat-link-sms.js:75-77` say only /c/<code> is
  handed to the shortener; `chat-link-sms.js:103-113` hands it the chat URL.
  `link-shortener.js:118-121` says a resend never looks again;
  `chat-link-sms.js:84-101` does. `generateShortCode`, `claimShortCode` and
  `getByShortCode` have no callers. `setRecipient` runs before the legs and
  records an address that may never be reached.

What follows a contact:

* `retell_chat_id` is never set (`claimRetellChatId` has no caller), so a link
  that was opened counts as unopened.
* A repeated `call_analyzed` makes a second todo and a second follow-up, although
  `retell.js:132-133` says the handler is idempotent. A stub that arrives after the
  analysis overwrites `in_voicemail`.
* A callback is lost when the recipient has an active row.
* `fallbackToLink` does not look at the due date.
* Retry and callback rows that are pending stay when the customer confirms.
* The follow-up of an unopened link goes to the customer's slot, without
  `recipientContactId`.
* `deriveTodoType`'s set of unanswered outcomes lacks "sms_no_reply"
  (`retell.js:46-49`); a todo list filter omits that reason
  (`todos.js:106` against `retell.js:42-46`).
* The technician trigger deduplicates per job; the comment of `existsForJob`
  (`scheduled-calls.js:437`) speaks of visits.

Visits, consent, service link:

* The office's `PATCH /appointments/:id` (`routes/jobs.js:427`) and the normalizer's
  upsert move a visit and keep `customer_confirmed`; the reason for clearing it
  is given at `retell-tools.js:382-384`.
* When the office cancels a visit and another one is rescheduled, the job goes
  back to open (`routes/jobs.js:441-451`).
* `updateJob`'s status "rescheduled" (`db/jobs.js:579-586`) is not one the
  derivation owns, so it stays until somebody changes it.
* A visit created in ServiceTrade whose id could not be stored, or that a sync
  fetches before it is, becomes a second row.
* Two handlers that move one visit at the same moment (`SameVisit = TRUE`) may
  leave ServiceTrade and the platform with different times and no todo.
* With `agent_can_make_changes` off the tools of a chat still change visits;
  only the mirror is off.
* Cancelling the entire job leaves its other visits scheduled on the platform.
* Service link: overlapping senders mail twice; a new recipient in the middle of
  a send is marked sent without having been written to (`crossed`); a search that
  fails, or two searches at once, make a second contact (`blind`).

ServiceTrade:

* Two drains for one job: the one that fetched first may write last, and the
  event of the newer change is already done.
* A job detail that fails for good is filtered out, the targeted run reports
  success, and its events are marked done.
* A refused appointment lookup makes an event "skipped".
* Drains during a disconnection spend the attempts of the company's events.
* An indirect event that touches more than 25 jobs is cut off and marked done.
* Two normalizes that overlap may leave older rows in the platform tables below
  the watermark.
* A job that is closed, or leaves the polled dates, while its webhook is lost
  stays open on the platform: the poll does not list it.
* With overlapping runs (`RunsOverlap`) an older visit list prunes a live visit
  (`db/servicetrade-sync.js:916`), and references may be lost for good, because
  `_countStrandedRefs` (`provider.js:886`) looks at two columns only. A run that
  dies between deleting the raw visit and cancelling its platform row leaves the
  visit scheduled.
* A failed `/company` lookup overwrites the e-mail address and the street of a
  customer with null; only the phone number is kept (`COALESCE`), while the comment
  at `servicetrade-sync.js:853-855` says the stub is merely kept. A roster that
  broke off takes contact links away.
* The contacts pass writes only canonical rows above the watermark.
* A run that dies between storing a visit and its technician leaves a reference
  that only a run with the whole visit list of that job mends; a list that breaks
  off does not hold the jobs cursor back (`mirror_visits`), so that may be long
  after. In `EntitySync` the job stays `owed` until then.

Engine and report:

* An event published between `getEventsSince` and the subscription (`sse.js:52-66`)
  is missed, and a reconnect after a later event does not recover it; when it is
  the `__close__` event the stream stays open, against `engine.js:10-13`.
* `setStatus` looks at nothing but the id: a run the reaper has failed is set
  to done by its slow process; a status update whose answer was lost makes
  a finished run failed. The reaper writes no event.
* A `createRun` that is sent twice leaves an orphan row that only the reaper ends.
* `routes/servicetrade.js` calls the gc cron daily; `vercel.json` runs it hourly.
* `last_sent_for_date` is compared by equality: an hour moved across closing time
  sends an edition again (migration 096 says it is immune). So does a death between
  mail and stamp. Sweeps that overlap mail twice. An outage over local midnight
  loses the edition. `db/report-recipients.js:13` speaks of UTC midnight; pg gives
  midnight of the host.

Chats, in the terms of `ChatLink`:

* The outcome of a visit that was changed is not reported to the CRM when two
  turns of one thread overlap and the later checkpoint lacks it; when the request
  dies after the ended mark (`index.js:326`) and before the comment, because the
  sweep passes an ended link over; when the comment is declined or write-back is
  off, because the link is stamped all the same (`index.js:473`) and the catch-up
  passes it over, although `db/chat-links.js:207` says "when an expired link's
  outcome comment has been written"; when the turn that ends the chat finds the
  marker of the sweep's narrower comment; and when the customer goes on in a chat
  that was closed, without closing it again. The sweep and the catch-up may post
  one comment twice when they overlap (look, then post).
* After a link has lapsed in the middle of a turn, `resolveChatLink` and
  `sendChatMessage` read `fresh.state` of a row `getByToken` now hides
  (`services/chat-links.js:323`, `:362`): the turn is saved and answered with an
  error.

## 6. Not modelled

* Authentication and parsing of requests; the contents of messages; language-model
  conversations (what the model says is a choice); provider configuration; reads.
* Queue: tenants without `business_hours`; the development bypass of office hours;
  e-mail alerts before a run. The retry of a statement in `db/index.js:81` is modelled
  for engine runs only.
* Sync: full syncs, reading raw rows in chunks of 50, JavaScript clock against
  database clock; completed visits, recurrences, deficiencies, change orders, notes,
  scheduling comments, service opportunities, roles of contacts, the merged fields of
  contacts, `deleteAllSyncData` (no caller). `visit.technician_id` and
  `job.assigned_office` go with the junction of the same record.
* Visits: the ledger of confirmation events; more than one job.
* Follow-up: the technician trigger and the quarter-hourly windows, `call_started`,
  transcripts, the deprecated text-message events.
* Engine and report: the signature of a stream's token; the workbook and its
  queries; sending by hand, which changes no row.
* Delivery: `setRecipient` and the log of sends. The legacy text-message channel is
  a row with one leg.
* `ChatLink`: `chat_links.state` and the input hint, phases of the conversation
  other than the opening turn, more than one changed visit in a turn, the limit of
  200 rows of the catch-up, repeated comments with the same content (`crm` is a
  set).
* Registration of the webhook at ServiceTrade, the Retell client, staff copilot,
  accounts, settings, analytics: request-at-a-time, no protocol of their own.

## 7. Plan

Done, in this order: `CallQueue` (the core: everything a customer experiences
goes through it) and its proofs; `WebhookQueue`, `CrmMirror`, `ChatLink` and
theirs; `QueuePromise` and the refinement; `LinkDelivery`, `EngineRun` and their
proofs; `DailyReport`, `Visits`, `ServiceLink`, `FollowUp`, `EntitySync`; the
proofs of these five, of `DoneMeansApplied`, of the outcomes of chats, and of the
types of the compositions, of `RefsHeal`.

Left:

1. `DoneIsApplied` for several drains of which no two touch one job; `RefsHeal`
   with merged contacts, for jobs above the watermark.
2. `FollowUp` composed with `CallQueue`: the active row of a recipient as the
   queue's row, so that the caps and the follow-ups are seen together.
3. The retry of a statement in the database layer as a parameter of `CallQueue` and
   `WebhookQueue`.
4. Pure algorithms: the window computation of the office hours, the priority of a
   call, the channel resolver with all its settings, checked against reference
   definitions.
5. The technician trigger and the windows of the quarter-hourly sweep; webhook
   registration.
