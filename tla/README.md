# Ruach in TLA+

Ruach is a multi-tenant web application for churches: it imports sermons and
other content, lets AI categorize it and staff approve it, and answers visitors'
questions from what has been approved; around that it has a prayer wall, a
sermon library, widgets for a church's own site, billing and team management.
It is a Next.js dashboard on serverless functions over one Postgres database,
with no queue and no worker processes: whatever takes long runs behind `after()`
in a web request, in cron routes, or as a chain of requests a function sends to
itself. This directory holds TLA+ models of the parts where that makes ordering,
failure and time matter, the TLC runs that check them, and TLAPS proofs of what
matters most.

Paths below are relative to `src/`; `PROJECT.json` maps every modelled
definition to the lines it stands for.

## 1. The system's parts

**Bulk job engine** (`apps/dashboard/lib/resource-pipeline.ts`,
`packages/database/src/services/bulk-job-service.ts`,
`app/api/bulk-jobs/[jobId]/continue/route.ts`). State: one `BulkJob` row
(status, `processedResourceIds`, counters, `createdAt`, `updatedAt`) and the local
variables of each invocation. Operations: enqueue, mark running, a pool of
workers over the items, progress writes fired without awaiting them, the
hand-off to the next invocation when the four-minute budget is over, complete,
fail, and `reapIfStale`, which any reader runs. Hard: the hand-off's answer can
be lost after its effect; the platform kills an invocation at `maxDuration`;
un-awaited writes land late and out of order; nobody but a reader ever ends a
job whose invocation is dead. Correct when the chain is never run by two
invocations at once, COMPLETED means every item was worked, no chain goes on for
ever, and every job gets a verdict at last.

**Resources page** (`app/(dashboard)/resources/page.tsx`, `ResourcesTable.tsx`,
`ImportTabs.tsx`, `ImportResourceForm.tsx`, `BulkImportForm.tsx`,
`ContentSourceList.tsx`, `OrganizationalLinkList.tsx`, `GET api/bulk-jobs/[jobId]`).
State of a tab: the table's React state (selection, delete dialog, `isEnqueuing`,
`activeJob`, result line), the interval and the fetches under way; the address
with its filters and the uncontrolled fields beside it; the panels' pending
flags and errors. Hard: polls are sent on a timer without waiting for one
another; component state and uncontrolled fields outlive the list they were
rendered with; a switch sends the opposite of what an old page showed. Correct
when the verdict on the screen is the job's own, nobody waits for a job nobody
asks about, the list is of what was chosen, and a settled panel shows the rows.

**Resource row** (`resource-service.ts`, `packages/ai/src/CategorizationService.ts`,
`packages/ai/src/SpeakerService.ts`, `api/cron/speakers`, `import-service.ts`,
`resources/[resourceId]/page.tsx`). State: a resource's status, speaker,
`speakerCheckedAt`, `searchDocument`, transcript, source documents, message
types. Writers: staff, bulk jobs, categorization with the speaker detection at
its end, the speakers cron, a content sync, link discovery. Hard: each AI flow
reads the row, waits seconds for a model, and writes; the transcript is stored
twice; links wait for staff while they are found again. Correct when no flow
replaces a speaker somebody gave, the document only names somebody who was the
speaker, an analysis reads the shown transcript and only links staff asked for,
a message type stays until somebody takes it off, and every resource is asked
about at last.

**Catalogue, import and content sync** (`import-service.ts`,
`lib/content-sync.ts`, `api/cron/sync`, `capToRemainingResourceSlots`). State: an
organization's rows by external id, their status against the plan's
`maxIndexedResources`, the `ImportJob` and the `ContentSource`. Hard: the cap is
computed when an approval is enqueued and used item by item later; two imports
of one channel overlap; one item's failure is swallowed and the loop goes on;
a sync is killed halfway. Correct when approvals that do not overlap stay within
the cap, a COMPLETED import has imported, and the sync catches up.

**Billing, signup and access codes** (`api/stripe/webhook/route.ts`,
`lib/stripe-subscription.ts`, `organization-service.ts`, `access-code-service.ts`,
the billing and signup pages, `api/signup/status`). State: an organization's
plan, status and Stripe ids, against Stripe's subscription. Hard: events are
repeated, reordered and, because a handler that throws still answers 200, lost;
the billing page changes Stripe first and the row afterwards. Correct when an
account has at most one organization, on a plan that was bought, and its row is
at last what Stripe says.

**Chat** (`ChatPipeline.ts`, `api/widget/chat`, `api/widget/forward`,
`conversation-service.ts`, `ChatWidget.tsx`). State: a tab's log and wait, the
request under way, conversations and messages. Hard: the search is cut before
its candidates are validated; staff withdraw meanwhile; find-or-create of a
conversation is not atomic; the mailed transcript is the last thirty messages.
The dashboard's log of conversations and its analytics page read the same rows.

**Embeds and sermon library** (`public/widget-loader.js`, `SermonLibrary.tsx`,
`packages/shared-types/src/library.ts`, `lib/sermon-library.ts`). State: the host
page's layers and scroll; a catalogue in a data cache; the visitor's filters.
Hard: several shells share the body's overflow, a stylesheet overrides inline
styles on phones, a cache fill overlaps the edit that invalidates it, dropdowns
count under each other's filters. Correct when closing gives the page back,
counts are what the choice then shows, and edits reach the catalogue.

**Prayer wall and testimonies** (`prayer-service.ts`, `testimony-service.ts`,
`app/prayer/...`, `PrayerModerationList.tsx`). State: requests, testimonies and
what visitors see of them. Hard: the safety classifier is one awaited call among
others that may throw; staff, author and visitors write at the same time.
Correct when what reads as a crisis is not shown unreviewed, and a pressed
switch is what the row has.

**Accounts, team, settings, setup** (`user-service.ts`,
`prayer-participant-service.ts`, `team-service.ts`, `SetupWizard.tsx`, the settings
forms). Hard: each is several awaited reads and writes with no transaction.
Correct when one reset link is good at a time, an owner remains, a form keeps
what it does not show, and the wizard leads on whatever answers were lost.

**Usage warnings, rate limiter, arranged lists** (`lib/usage-warnings.ts`,
`lib/rate-limit.ts`, `action-link-service.ts`, the featured testimonies). Mail
first and record afterwards; a sweep with the window of whoever triggers it;
rows that share numbers.

**Tenant guard** (`tenant-guard.ts`), **providers, storage, e-mail**, **marketing
pages**: see *Not modelled*.

How they meet: the table enqueues a `BulkJob` and polls its row; an ANALYZE or
APPROVE item of a job is one flow over a resource's row; a sync runs the same
flows without a job; the plan that billing maintains sets the cap; the chat and
the library read what approval has published. The models cut the system where
those meetings are a read of one status: `ResourceRow` and `Catalogue` have the
approval that a bulk job performs, `Chat` and `SermonLibrary` have staff's edits
as actions of their own.

## 2. Modules

| Module | What it is | Run |
|---|---|---|
| `JobContract` | what a job's row promises its readers | refined by `BulkJob` |
| `BulkJob` | the chain of invocations, its writes, its reapers, time | `bulk_*` |
| `ResourcesTable` | the table in one tab and the jobs it follows | `table` |
| `ResourceRow` | one resource's status, speaker and document, all writers | `resource_row` |
| `Catalogue` | imports, sync and approvals against the cap | `catalogue` |
| `Billing` | signup, Stripe's events, the billing page | `billing` |
| `Chat` | tab, request, pipeline, forwarding | `chat` |
| `HostPage`, `SermonLibrary` | the loader on a page; the library and its cache | through `VisitorPage` |
| `VisitorPage` | the two pages, and the library's growing frame | `visitor_page`, `host_page_covered` |
| `Team`, `UsageWarnings`, `RateLimit`, `OrderedList`, `PrayerWall`, `Setup`, `SettingsForms`, `SourceDocuments`, `Accounts`, `Moderation`, `Insights`, `ConversationLog`, `ResourceListing`, `ResourcePanels`, `MessageTypes` | parts of the dashboard with rows of their own | through `Church` |
| `Church` | all of these, one per behaviour | `church` |
| `Selection` | what `Array.filter` keeps, defined so that it can be proved about | through `Chat` |
| `BulkJobProofs`, `ResourceRowProofs`, `ResourcesTableProofs`, `BillingProofs`, `CatalogueProofs`, `VisitorProofs` (of `Chat` and `VisitorPage`), `ChurchProofs` | theorems | TLAPS |
| `ListLemmas` | facts about numbers and sequences they share | TLAPS |
| `MC...` | the constants TLC needs | |

Each module contains an operator or two commented as a *slip*
(`StaleRunningOnly`, `CountManagers`, `LoadPageAsItIs`, ...). They are not part of
any specification: each is a mistake somebody could make in that code, and
putting it in the place of the operator that follows makes the property
`PROJECT.json` names with it fail. They show that the property says something
about the code.

Common to all: there is one action per awaited call, since everything between
two awaits is one step of a JavaScript event loop; where a module takes several
awaited reads as one step, it says so. A call that throws, a request that is
killed and an answer that is lost are actions or disjuncts of their own.
Variables commented *history* are read by properties only, *frozen* ones are
chosen by Init.

### BulkJob and JobContract

A job's row is `status`, `progress` (the four columns `recordProgress` writes together)
and `rowAge`, the time since `updatedAt`. Invocation `c` of the chain is `pc[c]` with
its local variables: `todo` and `busy` are the array's unclaimed and claimed items of
`mapWithConcurrency`, `tally` the cumulative ids and counters, `flying` the
`recordProgress` calls that nothing awaits.

`scheduled` -MarkRunning-> `marked` -Load-> `loaded` -StartPool-> `working`
-FinishItem...JoinPool-> `flushing` -FinalFlush-> `handingOff` or `finalizing`;
then HandOff, HandOffAnswered, or CompleteBulkJob, RecordAudit; the catch block
is `failing`, FailBulkJob. REJECT and DELETE go from `loaded` through RunBatch.

- *Failures.* An awaited database call may throw without effect (DatabaseError)
  or after it (the choice of `failing` in MarkRunning, RunBatch, FinalFlush and
  CompleteBulkJob). A hand-off's fetch may throw before or after the next
  invocation was scheduled (HandOffThrows, which also stands for a missing
  CRON_SECRET) or return an error status that nothing looks at (HandOffAnswered
  before HandOff). An invocation dies at any point (Die), or by the clock (Tick).
- *The un-awaited writes* land one by one (LandFlush) or fail (LoseFlush), even after
  their invocation is gone, and in any order: nothing in the code orders them
  (`void flush()`), and no property or theorem assumes that something does.
- *Time* is counted in ticks. The real limits are 3 minutes to be stale, 4 of
  budget, 5 of `maxDuration` and 120 of job age; the runs use 1, 2, 3 and 3, which
  keep their order (stale before the budget, the budget before the kill) and let
  a chain reach its age limit in a few chunks. Within a tick any real time may
  have passed, so the 500 ms between flushes are a choice within the same tick
  and a certainty in a later one.
- *Left out.* `errorMessage`, `extraCount` and wording; an organization that has gone;
  deletion of the row; what an item does to its resource, which is ResourceRow's
  subject. Whether an item succeeds is free. The `getBulkJob` inside `markRunning`
  reaps in two statements; Load takes both at once, and its reader cannot tell.
  The ids of a job are distinct, as the table sends them.

JobContract: items are only added to what is worked; COMPLETED is written once
all are; a COMPLETED job never runs again. FAILED is weak on purpose: the code
may write it over anything, COMPLETED included, and a FAILED job may still be
running. `BulkJob!ImplementsContract` is the refinement, by the two variables of
the same name.

### ResourcesTable, ResourceListing, ResourcePanels

*ResourcesTable.* The server is the sequence of statuses a job's row may take.
The tab is `selected`, the delete dialog, `enqueuing`, `shown` (`activeJob`), the
result line, `polling` (the job whose `useEffect` interval is running), `reply` (the
server action under way) and `calls`, the polls under way in the order they were
sent, each asked and then answered, with what the row said at that moment.
Deliver is the whole `poll` callback. FollowLink changes the props only: page
tabs, Previous and Next are `<Link>`s of the same route and `ResourcesTable` has no
key, so React keeps its state. Load is a new component. A server action whose
tab is gone still creates its job. `orderly` is chosen once by Init: TRUE, answers
arrive in the order the polls were sent and a verdict stays put; FALSE, neither,
so that a reaped job may run on and a slow answer may arrive last.

*ResourceListing.* The address (`params`), what it renders (`listed`) and what the
uncontrolled fields hold (`form`). Links keep the fields; forms load the page with
what the fields hold; the search submits itself on a timer (`pending`); others add
and remove resources. *ResourcePanels.* A table of tracked sources or of
organizational links, the tab's calls in the order the router sends them, with
what each panel says while one is under way, and colleagues who write meanwhile.

### ResourceRow, SourceDocuments, MessageTypes

*ResourceRow.* A row is `status`, `speaker`, `checked`, `document` (has it been
analysed, and whom its SPEAKER line names), with `owner` and `spoken` as history.
A flow is a worker (a bulk job's item or a cron run, again and again) or the sync
that created the row. `seen[f]` is the row as `getResource` returned it to that flow.
StartCategorize reads, ApplyCategorization writes what the model made of it (and
REVIEW_REQUIRED over any status), DetectAfterwards goes on to detection;
CronLists, CronAsks and SetDetectedSpeaker are the cron's `backfill`, `detect` and the
conditional update. Fails is any call of a flow that throws and is logged.

*SourceDocuments.* The documents of one resource in the order they were stored,
and the calls under way: import, link discovery, include (one or all), dismiss,
paste and refresh of the transcript, backfill. Evidence rows are left out.

*MessageTypes.* The lists of several resources, and a tab with one resource's
page: the boxes it was rendered with, which took any spelling in use for each
type (`findMany` has no order). Saving takes the first of each key up to the
maximum. Colleagues save other lists meanwhile.

### Catalogue

One source of a channel or feed, its items' rows by external id (a status that
tells ACTIVE from all others), the tracked source, and the work of each
invocation: manual imports and approvals, and the cron's sync. Listing, then
per item find, create and, at the end, the job row, the analyses and the
approvals, each a step that may fail (ItemFails) or be the last (Die). The cap
is counted at the step the code counts it in.

### Billing

The account, its code, member and organization rows; Stripe's subscriptions with
their checkout; `mail`, the events Stripe has not had answered; `hook`, two webhook
invocations at a time, each Receive, Decide and Handle; `desk`, the billing page's
action between Stripe's answer and its own write. `smooth` is frozen: with it
nothing throws and events come one by one in order. Invariants hold without it;
the liveness properties are about behaviours with it, since nothing in the code
repairs a row after a handler has thrown, and an older event applied later stays.
With it a webhook still may be handled at any moment of the billing page's action,
also between Stripe's answer (billing/page.tsx:90) and the page's write of it (:97),
and that write then undoes the webhook's: the code's defect. The history variable
`crossed` records it, and `EventuallyInSync` leaves out the row that such a write
was the last to touch, and nothing else: the next event brings it right.

### Chat

Tabs of one session, requests with their stage (stored, retrieved, validated,
answered), the conversations, and the forward requests. The language model is a
choice among its verdicts, the rate limiter between admitting and refusing. Staff
publish, withdraw and change the addresses at any moment. The log of a tab is a
sequence, because an answer is appended wherever the log ends by then; and so is
the widget's note that a conversation was forwarded (`ShowForwarded`), which comes
with the forward's answer, also while a new question waits. It is the one message
that may stand between a question and its answer.

### HostPage, SermonLibrary, VisitorPage

*HostPage*: ten shells with what decides whether a panel covers the page (its
class's stylesheet on phones, inline display, transform), which of them lock the
body's scroll, and a screen that may turn. *SermonLibrary*: the data cache with a
fill under way, staff's edits in two steps (write, invalidate), and the filter
algorithm itself with its counts, checked against `Left`, the messages a choice
leaves. A label that an item has in two spellings, or a verse it has twice, is two
labels, as `buildLibraryFacets` dedupes them before `normalizeKey`; the run has both.
*VisitorPage* composes them: a page has one or the other, and the library's
frame grows and shrinks by the height messages it posts.

### The parts in Church

| Module | State and actions | Left out |
|---|---|---|
| `Team` | `role` and two server actions, each authorise, read, count, write, audit | passwords, mails' text |
| `UsageWarnings` | percent used per month, the stamps, the daily run: mail, record, next | the mail's text |
| `RateLimit` | buckets of one process, sweep, restart | how an address is found |
| `OrderedList` | rows with an order number; create from a count, delete, move, hide | labels, urls |
| `PrayerWall` | a member's requests through validation, classifier, store, forward; publishing, praying, replying | categories' names, campuses |
| `Moderation` | one item on a staff tab: the row as rendered, the category's uncontrolled Select, drafts, the queue of calls, dialog; the author's and colleagues' writes | how a reply is mailed (PrayerWall); which category |
| `Setup` | the wizard's step, its queued actions, websites and widgets under the cap, a colleague | names, branding |
| `SettingsForms` | the columns of a wall, of an organization's contact and forwarding, of a campus's forwarding, of a widget; each form with those it shows, passes on or empties | uploads' bytes, colours |
| `Accounts` | one account, reset links, sessions, two browsers' calls | e-mail changes in settings |
| `Insights` | the message log, requests under way; the page's statements, each with a moment of its own, their counts, pairing, grouping, gaps | sorting of equal counts |
| `ConversationLog` | conversations by creation, a tab with filter, page and search, the page asked for; its rows and its number of pages, two statements with a moment each | the transcript page, read by one query |
| `ResourceListing`, `ResourcePanels`, `MessageTypes` | above | |

In `Church` these share no variable. That is a statement about the code only so
far: their rows are different tables or different columns, and where one part
reads another's (the wall's settings, the plan's caps), the module has that
value as an action of its own or as a constant. Init chooses one part, the
*scene*, and only that part moves, so the run explores the sum of the parts and
not their product. Nothing is claimed about two parts at once.

## 3. Runs

| Run | Question | Bounds |
|---|---|---|
| `bulk_chain` | one invocation at a time, and exact counters | 3 items, 2 workers, 3 invocations, all job types, 1 reader |
| `bulk_fair` | the contract, and a verdict at last | 3 items, 2 workers, 3 invocations, 1 reader |
| `bulk_long` | does the age limit end a chain whose progress is taken back? | 3 items, 1 worker, 4 invocations |
| `bulk_reap_live` | is a stale row always a dead worker? **No** | 2 items, 1 worker, 2 invocations |
| `table` | verdicts on the screen are the job's own; progress bar ends | 2 jobs, 2 polls under way, 3 rows, 2 lists |
| `resource_row` | speakers kept, documents attested, everything asked about | 1 worker and the sync, 2 names |
| `catalogue` | the cap, completed imports, catching up | 2 items, cap 1, 2 requests and the cron, 2 tasks, 1 edit, 1 fault |
| `billing` | one organization, bought plans, ready and in sync at last | 2 checkouts, 2 webhook invocations, 2 plans, 2 changes (1 when rough) |
| `chat` | only what is published; answers under questions; waits end | 1 tab, 3 resources, 2 requests, 1 forward, 1 edit |
| `visitor_page` | scroll, dropdowns, currency of the catalogue, frame | 2 widgets of 10 shells; 3 messages, 2 edits |
| `host_page_covered` | does a closed widget leave the page alone? **No** | 1 widget, 2 shells |
| `church` | fourteen properties, one or two per part | below |

Why these are enough. *Bulk jobs*: three items over two workers leave one item
unclaimed while two are busy, and a budget that passes splits them over two
chunks. In `bulk_long` writes in any order take back what was processed, and four
invocations are one more than the age limit lets a chain reach
(`(MaxJobAge \div ChunkBudget) + 2` = 3): it is the limit that ends it, not the
bound. In `bulk_chain` and `bulk_fair` three invocations let a write of the first land after
the second has resumed and the third completes. REJECT and FIND_LINKS take the
same paths as DELETE and ANALYZE, and the types a run leaves out differ from one
it has in nothing that its properties look at. The proofs cover every value of
these constants. *Table*: two jobs are one shown and one to replace it, two
polls one to overtake the other. *Row*: a worker and the sync are two
overlapping read-then-write flows, with staff as a third. *Catalogue*: cap 1
with two items is one too many, and two requests beside the cron are two counts
before either approval. *Billing*: two checkouts give an upgrade its old
subscription, two invocations give a delivery its duplicate. *Chat*: three
resources against a search of two leave one out, and a transcript of two (thirty
in the code) does not hold two questions with their answers. *Visitor page*: two
widgets are one over the other; three messages, a video, a Short and an article, share a
topic in two spellings and a verse, one of them is of two books, one has its topic
in two spellings and one lists its verse twice.

*Church*: three people on a team of two; two organizations, each with an owner to
write to or without, over two months; an hourly and a daily key; three links; one
request with one forwarding address, prayed for and replied to once, and its
author's and staff's edits; one website and one widget under caps of one, where
a lost answer fills the cap; three documents of which one link and the
transcript are two; two reset links and two browsers; two calls at most on the
moderation desk and two on the panels; four messages in two conversations over two days,
two of which may come while the page is rendered; pages of one conversation out of
three, any of which may start between the count of a page and its rows; three resources in pages of one or two, with the
go-to-page form after one page (three in the code), one organizational link
(twenty), and two message types of three, in four spellings (ten). Each small
limit is there so that it is reached and exceeded.

**Fairness.** `BulkJob`: only time and the readers; an invocation may stop
anywhere, since the platform promises nothing, so EventuallySettles rests on
`reapIfStale` alone, and on somebody looking: no cron reaps. `ResourcesTable`: the
interval keeps firing, and polls sent over and over are answered and delivered
over and over, whatever is lost between (strong fairness, as a network that
loses messages needs). The user does nothing. `ResourceRow`: the cron comes round,
a flow that has started ends (its platform limit sees to it), and a model asked
again and again answers once. One row is modelled: that a cron run takes the
newest 150 rows, so that as many newer ones which always fail could keep it from
an older one, is outside the model. `Catalogue`: invocations go on, and the cron
comes again every hour; an invocation that keeps being killed is bounded by
MaxFaults. `Billing`: Stripe delivers an event again until it is answered, which
it is when a handler that keeps being started and killed comes through once
(strong fairness), and the billing page's request ends. `Chat`: a request ends, if
only at the platform's limit, and its answer or the browser's error comes; the
visitor does nothing. `VisitorPage`: the sermon page has visitors, reads end,
cached data expire after ten minutes, and messages between frame and page
arrive. `Church`: in the wizard somebody goes on and reloads after an error, and
the server goes through its actions; everything else there is safety.

**Deadlock** is checked except in `resource_row`, `billing`, `chat`, `catalogue` and
`church`, where the bounds, a deleted row or a closed tab leave nothing to happen.

### What disagrees with the documentation

Two runs show one each:

1. *A live job can be reaped* (`bulk_reap_live`). The comment on the stale threshold
   says a row only goes stale when its worker died; the row is written only as
   items settle, so one slow resource is enough. The job is FAILED, goes on, and
   may complete afterwards.
2. *A closed widget covers the page* (`host_page_covered`). A comment in the loader
   says the phone stylesheet hides a closed panel; the rule lacks `!important`
   where six shells set an inline `display`.

Met while modelling and recorded without a run. Where a module has the
property, its name is given; it is false there.

- *Resources.* The selection survives a change of list (`SelectionIsListed`). A
  cleared speaker comes back, although "clearing it keeps it clear"
  (`ClearedStaysClear`). Auto-approve publishes what has no analysis
  (`AutoApprovesAnalysed`). An entry without guid or link is known by its place in
  the feed, and a newer entry takes the place and with it the id
  (`SkipsOnlyImported`). An auto-approving sync, and approvals that overlap, exceed
  the plan's cap. INCLUDE_LINKS counts failed links beside its resources, so that
  its counters exceed the total. A late RUNNING answer can bring the progress bar
  back after the interval has been cleared; a late duplicate verdict can clear a
  new selection and put the old result line over the next job.
- *Resource page.* A transcript write killed between row and document is never
  repaired: refresh answers "unchanged". Pasting in two tabs leaves two
  TRANSCRIPT documents, both read. "Include all" approves links discovered
  after the click; a dismissed link comes back with the next discovery. An
  import broken off after `createResource` never gets its metadata document. More
  than ten message types are cut without a word, perhaps by one that was there;
  saving from an older page undoes a colleague's types.
- *Listing and panels.* The sidebar's review link leaves the status and size
  fields at their old values, and the next form leaves the queue again. Tab
  counts ignore the search. Going to a page within the search's delay loses what
  was typed. Two organizational links added at once exceed the twenty.
- *Billing.* A handler that throws is answered with 200, and nothing repairs the
  row. The page after a paid signup has no time limit. A webhook handled while the
  billing page waits for Stripe or has just had its answer is overwritten by that
  older answer: a payment that fails in between leaves an ACTIVE row until the next
  event (`EventuallyInSync` fails without `crossed = "over"`).
- *Chat, log, analytics.* Two first questions at once create two conversations.
  The log's order is `updatedAt`, which nothing updates, although a comment says
  "most-recently-active first"; the search survives Next; a page beyond the last
  says there are no conversations. A conversation started after a page was counted
  and before its rows were read (one `Promise.all`) moves an older one off the last
  page, where nothing leads to it (`PagingMeetsAll` allows one for each of these). An
  unanswered question is given the next reply's outcome; the no-match rate can
  exceed 100% at the window's edge, and by the questions asked between its two counts; the
  chart drops part of its oldest day; top resources are cut before deleted ones
  are left out. A message with a topic in two spellings, or a verse listed twice, is
  counted twice.
- *Library and loader.* Choosing a verse first filters by its book only. A phone
  turned while a panel is open keeps the page's scroll locked.
- *Wall and testimonies.* The member's own switch publishes a crisis without
  review. A failed audit after a reply was recorded invites a second one. Note
  drafts overwrite a colleague's; the category's Select and the note's field keep
  what they were mounted with, so that a colleague's choice, or the failure of one's
  own, does not show before a reload. Saving a featured testimony's text clears its
  video. A settings form rendered while the wall was off turns the testimonies
  off when it is saved.
- *Team, accounts, setup.* Two overlapping demotions can leave no owner. A refused
  role stays displayed. Two overlapping reset requests leave two good links; a
  link can be used twice at once, although the schema says single-use; sessions
  survive a reset. The wizard's Continue is not disabled while pending; a retry
  after a lost answer is refused at the cap until a reload. Below the plan,
  saving a widget clears its prompts.
- *Limiter, warnings.* A sweep by a short-window caller erases a long window's
  bucket. One mail that throws leaves the organizations behind it for the next
  day; 90% can be mailed before 75%.

## 4. Proofs

For every value of the constants that satisfies the named assumptions:
`SizesAssumption` and `TimesAssumption` of BulkJob, `NamesAssumption` of
ResourceRow, `ListsAssumption` of ResourcesTable, `BillingAssumption` (no plan that
is sold is called free), `CatalogueAssumption` (a feed is finite, and a guid is
not taken for a place in it: such an id is made as `item-N`, RSSProvider.ts:70),
`ChatAssumption` (there is a tab; a question's matches are distinct resources; a
widget recommends at least one resource: `maxRecommendations` is 3 unless set, and
no form sets it), `VisitorPageAssumption` (a library has finitely many items, each
with finitely many labels),
`ChurchAssumption` (bounds, limits, windows and page sizes are numbers, months are
numbered from one, the default page size is one of those offered, a source is not
a link, an address is not the lack of one, nor is a text; lists of message types
are lists of spellings, those colleagues save with each key once, as the action
they come from leaves them). The theorems of the team have a
hypothesis of their own, that People is finite and the founder among them.

None of the invariants below is inductive as the runs check it. Each section
names what had to be added. The additions that describe copies and calls under
way were checked by TLC on the instances of the runs before they were proved.

**BulkJobProofs.** "COMPLETED means worked" needs to know that the ids an
invocation counts were worked, wherever they are: on the row, in an invocation,
or in a write still on its way, whose order is not known (`Ledger`). That nothing
runs after completion needs to know that only the newest invocation is ever
beyond a hand-off (`Chain`), where it stands once the row is COMPLETED (`Verdict`),
and that the audit is its last act (`AuditIsLast`). `IInv` is the conjunction with
TypeOK. One lemma per part (`TypeStep`, `ChainStep`, `LedgerStep`, `VerdictStep`,
`AuditStep`) goes through the actions that can disturb it; `Invariance` combines
them. From it follow `TypeCorrect`, `CompletedIsComplete`, `NeverRunTwice`,
`AuditOnce`, and over steps `CompletedStaysDown` and `Refinement` (every step is a
step of JobContract or a stutter). Writes may land in any order in all of them.

`ChainIsBounded`: a chain of `c` invocations is at least `c - 1` budgets old, because
a pool only stops early when its budget is over (`PoolStops`), and an invocation
past Load was requested within the allowed age (`Paced`). `CompletedIsCounted`, over
steps: each invocation's tally counts an item once and none that is still
unclaimed or being worked (`TallyOf`); whatever is on its way, from however old an
invocation, counts rightly too (`FlightOf`), and so does the row whenever somebody
may still start from it (`RowCounted`). So completing writes the right total, and
a late write that lands on it afterwards still counts each item it lists once
(`CompletionCounts`).

**ResourceRowProofs.** A detection writes the document it read before the model
answered, so the invariant is about copies: no name in the row, in its document
or in what any flow has read is of somebody who never was its speaker
(`Attested`). `LineAdded` says what `withSpeakerLine` can do to a document. From the
invariant: `DocumentIsAttested`, for any number of flows; `GivenSpeakerStays` is over
single steps.

**ResourcesTableProofs.** A verdict on the screen came from a poll that was
answered earlier, about a row that has moved since. `TableInv` says of a verdict,
wherever it is, that the job has been COMPLETED if it says so, and that in an
orderly behaviour it still is what the verdict says: on the row (`RowsHold`), in
each poll under way (`CallsHold`), on the screen and in the result line
(`ShownHolds`). Every step of the server lets a verdict outlive it (`Lasting`).
`Known` adds that only jobs that exist are asked about, so that an answer is one of
the statuses the tab knows. `VerdictHolds` is its conjunct for the screen.

**BillingProofs.** Events come late, twice, out of order, or after a handler has
thrown, so what makes a plan "bought" is followed wherever it is mentioned:
`PlansAreSold` says that Stripe's own record, every event on its way, every
handler and the billing page speak of a subscription that was paid and a plan
that was bought; `NothingBefore` that none of these exist before the account does,
so that a payment cannot meet an account without a user; `RowIsSold` that the
row's plan is then bought or free, and free only by an access code. From
`BillingInvariance`: `OrganizationIsOne` and `PlanIsBought`.

**CatalogueProofs.** `CapIsKept` is about approvals under way: the cap is counted
when they are queued and used item by item, so `Fits` bounds what is public
*and* what a queue has already been granted (`Reserved`), until two approvals
overlap (`raced`). `CompletedIsImported`: what an invocation has listed and no longer
has to do has its row or was counted as failed (`OnTrack`), ids that are in two
listings are the same item's (`Named`, `RowsAreNamed`), so that what one import
skips the other has stored.

**VisitorProofs.** *Chat.* `ShownWasPublished` and `NothingWasMissed` are about lists
that wait between two reads of the database, so `FoundInv` says of each request
what its list still is: what was searched holds every match that has been
published all along, up to the search's limit; what was validated holds only what
was published since. That needs what `Where`, the filter of the pipeline, keeps
and in which order (`RetrievalFinds`, `ValidationFinds`). `AnswersInPlace` needs that
a question that is waited for is the last message of its tab but for notes of
what was forwarded, and that its request was never made before (`LogInv`); a tab sends nothing while it waits, and a
reload empties it. `QuestionIsMailed` needs that the conversation of a request
holds its question from the moment it is stored (`StoredInv`), that conversations
only grow (`Grown`), and that forms and forwarding requests are about answered
requests (`OffersInv`); then the last messages of a conversation either hold the
question or leave it further back than they go (`LastsAreIn`). *VisitorPage.* A
locked page, unless the screen has turned, is a phone's with a panel open
(`ScrollInv`): closing means unlocking only where opening meant locking.
`OptionsAreReached` is a statement about the filter algorithm in every state
(`CountedIsReached`): a dropdown counts pairs of an item and a label, at least one
for each item that is left and just one where it has the label in one spelling,
and choosing a value changes no other filter.

**ChurchProofs.** The team, the wall and the parts with theorems below are proved
by themselves, and then of the church: every step of `Church` is a step of the
part or leaves it alone.

- *Team* (`OwnerRemains`, `ChurchHasOwner`). A demotion counts the owners and writes in
  a later step. `TeamInv` adds what a call may rely on between the two: as long as
  nothing has written while another call was under way, a call about to take an
  owner away still has another one to leave (`LeavesAnOwner`). A write either finds
  no other call under way, which keeps it true, or sets the history variable
  that ends the claim.
- *PrayerWall* (`CrisisIsHeld`, `ChurchHoldsCrises`). What a visitor's tab lists was
  public when it was opened. `HeldInv` goes back along the way a request takes: a
  submission about to store a public request has classified it as ordinary
  (`FoundOrdinary`), a public row that reads as a crisis has been asked for
  (`AskedFor`), and so what a tab listed had been.
- *Accounts* (`OneLinkIsLive`). A reset clears the old links in one call and stores
  the new one in another. Of two requests for one, whichever came later knows of
  the earlier or has cleared its link (`LaterKnow`), and the earlier is known to be
  under way while it may still store one (`EarlierKnown`): two links are only good
  together when their requests overlapped.
- *UsageWarnings* (`ThresholdsMailOnce`). A mail goes out before it is recorded. What
  a run has read is what is recorded (`AsRead`), no record is of a month to come
  (`NotAhead`), a mail under way has no record yet (`Unrecorded`); so the mails without
  a record are those of runs that were cut, and the one of a run about to record
  it (`MailsAreKnown`).
- *SourceDocuments* (`OnlyChosenIsRead`, `ShownIsRead`). What was approved was asked
  for, and so is what a call is about to approve (`ApprovedIsChosen`); a search that
  runs alone looks for what no document has (`SearchesApart`). For the transcript,
  each way of writing it has something to rely on that depends on how far it is
  (`ReliesOn`): nothing is stored yet, or what is shown is what is stored, or there
  is at most one document and the row has the new text. As long as writes of it
  neither overlapped nor broke off halfway, one call writes, it has what it
  relies on, and when none does the two agree (`WritesApart`).
- *SettingsForms* (`FormsKeepChoices`). A save under way that none has crossed still
  passes on what is there, and no form of the code empties what it is not known
  to (`SavesAsRead`). It is the first half of the run's `ChoicesKept`.
- *MessageTypes* (`ChoicesStay`, with the half above). There is a box for each key the
  resource has, and no two boxes share one (`BoxesShow`); so what stays ticked has
  the keys there were, less what was taken off, with what was put on. The dedupe by
  lower case keeps the first of each key (`AllAreCollected`) and the cut only drops
  (`CappedKeeps`).
- *RateLimit* (`LimitIsKept`). A bucket drops what its own window no longer holds, and
  a sweep drops what the caller's window no longer holds, which may be a shorter
  one. `Accounts` says of a key that what was let through after a moment is in its
  bucket or forgotten; to survive the clock it must say so of *every* moment from
  the window's beginning on, not of the beginning alone. The rest is counting with
  `Where`: what a filter keeps and what it drops are all (`ListLemmas`).
- *Moderation* and *ResourcePanels* (`SwitchIsTruthful`). A page may be older than the
  row its buttons speak of, and the calls of one tab are served one by one. `InSync` and
  `PanelInSync` say that what the tab was rendered with is the row until a call has
  written, `DeskInv` and `PanelsInv` that what waits in the queue is something the
  server can carry out. The category's Select is ahead of the row while its call
  waits, so `SelectTrue` compares it with what that call will write, and needs that a
  request's tab has one call at most (`OneAtATime`). The panels' half also bounds the
  organization's links (`LinksFit`): one about to be created has room unless a
  colleague's has come.
- *ResourceListing* (`ListIsChosen`). While something is being typed the address may
  already differ from what is wanted, in all but the type: forms carry it in a
  hidden field. `ChosenStays` says so, and that nothing else differs once nothing is
  pending and no form was sent with a field that nobody had chosen. That a page has
  rows where anything matches is arithmetic of the division (`PageBegins`).
- *ConversationLog* (`NoneIsPassedOver`). Pages are cut by offset out of a list that
  grows in front. `StillAhead` says where a conversation is that the reader has not
  met yet: at least as many newer ones stand in front of it as the pages gone
  through have rows; `NextAhead` says the same of the moment the next page was asked
  for, from which both its statements run. New ones only add to those in front
  (`StillBehind`); a message changes no conversation's place. That the list really
  has each conversation behind exactly the newer ones is `WhereRanks`, that it then is
  on the next page or behind it `PageOfLog`, and that those behind the last page
  counted are no more than had not been counted `UnmetAreLate`.
- *Insights* (`PairsAreRight`). The page pairs by time what no column pairs. A
  reply answers one question, later, and a question has one reply (`RepliesAnswer`);
  where questions waited, the reply to one comes before the next (`RepliesBetween`);
  so the earliest reply after a question is its own (`EarliestIsOwn`) and the latest
  question before a reply is the one it answers (`LatestIsAnswered`), at whatever moment
  the second statement sees the log (`SeenUpTo`: a moment is a beginning of it). That
  replies without a match are no more than the questions, but for those asked
  between the two counts, is an injection of the ones into the others
  (`QuestionsOfReplies`).
- *OrderedList* (`MovesAreSwaps`, an action property). What a transaction has read is
  still the list unless another write crossed it (`ReadStill`). Rows that share
  a number are told apart by creation, so that the list has every row once
  (`ListingEnumerates`) and any list in which each row precedes the next ones is the
  list (`ListedInOrder`): whoever numbers the rows by a list gets that list back
  (`Renumbered`), whatever their numbers were.

**Induction over data.** The library's induction theorems take an operator as
their parameter, which the installed provers cannot instantiate. `Least`
(a set of numbers has a least one) takes its place where it is needed: it is
well-foundedness of the numbers as a statement about a set, and the least event of a
kind in the mailbox (`BillingProofs`) and the first item still to claim
(`BulkJobProofs`) come from it. `Where` is a recursive function for the same reason:
the prover has nothing on `SelectSeq`, but of a recursive function it can be
shown that there is one (`FilteringExists`) and, for the least beginning of a
sequence that is a counterexample, that there is none (`WhereKeeps`, `WhereSplits`);
so is `FirstOfEachKey`. Rows are sorted by rank (`Listing`) for want of anything known
about `SetToSortSeq`.

**Model-checked only.** Every invariant and every action property of the runs has a
theorem, and so has the refinement. What is left to TLC is all liveness
(EventuallySettles, ProgressBarEnds, EventuallyChecked, EventuallyImported,
EventuallyReady, EventuallyInSync, EveryQuestionAnswered, EventuallyCurrent,
WizardGoesOn): temporal reasoning under fairness is beyond the prover. Modules
hold further properties that are true of the instances but not among the runs'
(`PrayingIsCounted`, `MailedBeforeRecorded`, `TeamCapHolds`).

## 5. Not modelled

- *Tenant guard* (`tenant-guard.ts`): a pure test of a query's arguments. What it
  protects is a statement about the text of every query in the services, not
  about states.
- *Providers, storage, e-mail, prompts*: network calls and parsing. The modules
  have them as calls that return one of a few results or throw.
- *Marketing pages and presentation*: no state.
- *Settings*: changing one's name and e-mail address, a resource's campus and
  content priority, collections: single statements on single rows, which nothing
  here reads twice. Uploads: one request, one row.
- *Evidence rows* of an analysis: written after the status; a document deleted
  meanwhile makes `addEvidence` throw after `applyCategorization` has been stored,
  which is the flow's Fails in ResourceRow.
- *Dates, wording, sorting among equals*, audit events' contents.

## 6. Plan

1. Proofs: type correctness of the parts of `Church`, of which the invariants only say
   as much as they use.
2. An abstract specification of the catalogue ("what is published was approved
   within the plan") refined by `Catalogue`, and of a cached view refined by
   `SermonLibrary`.
3. Composition where two parts do meet: the table's enqueue with `BulkJob`, and a
   bulk job's items with `ResourceRow`.
