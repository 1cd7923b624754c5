# codereviewer: specifications and proofs

TLA+ models of the code review bot in `src/`, the TLC runs that check them on
small instances, and TLAPS proofs of the main results for every instance. The
modules are translated from the Go sources; `PROJECT.json` maps each definition
to the lines it stands for.

## 1. The system

A webhook gateway turns events of a code host (GitHub or Bitbucket) into jobs
on a message bus. Workers take the jobs: `review-worker` reviews the head of a
pull request with a language model and posts comments and a check run;
`feedback-worker` records what people make of the comments and may answer them;
`indexer-worker` keeps an index of the code for retrieval. An admin UI, a
backfill and a rules command act on the same Postgres database.

| component | state | operations | interacts through |
|---|---|---|---|
| webhook gateway (`cmd/webhook-gateway`) | rate limiter buckets | pull_request, push, comment, reaction events; `/review`, `/context` | publishes review, index and feedback jobs |
| message bus (`adapters/busnats`; `busmem` in tests) | stream, duplicate window, deliveries, consumers | Publish, Consume, Ack, Nack | every queue |
| review worker (`core/pipelines/review`, `cmd/review-worker`) | none of its own | Handle, process, failOpen, postNoChanges, postBudgetExceeded | store, code host, model |
| `pr_runs`, cost caps (`adapters/storepostgres`, `core/budgets`) | one row per (pull request, head); a cap per tenant or repository | Begin, Finish, GetRecent, TodaySpend, GetEffective | shared by the review workers, the conversation mode and the admin UI |
| comments, feedback (`storepostgres/comments.go`, `feedback.go`) | bot and human comments with outcomes; events | Upsert, UpdateOutcome, Append, Tombstone | review, feedback, backfill, admin UI |
| feedback worker, conversation mode (`core/pipelines/feedback`) | none of its own | Handle, maybeReply | comments, model, code host |
| indexer (`core/pipelines/indexer`) | none of its own | full and incremental index runs | code chunks, embedding cache |
| backfill, rules sync (`core/pipelines/backfill`, `rulessync`) | none of its own | one run each | comments; rules |
| model calls (`core/llm`, `adapters/llmlitellm`) | none | ChatWithRetry over tiers, ParseOutput | review pipeline |
| prompt (`core/prompt`) | none | Assemble with a token budget | review pipeline |
| code host adapters (`vcsgithub`, `vcsbitbucket`) | tokens | diffs, reviews, checks, replies, listings | review, feedback, index, backfill, gateway |
| context providers, retrieval | none | best-effort queries | review pipeline |
| admin UI (`internal/admin`) | sessions, rate limit buckets, scheduler | toggle repositories, retry runs, settings, export, import | database, bus |
| janitor, scheduler (`internal/admin`) | timers | retention sweeps, automatic exports | database |
| configuration overlay, reloader (`internal/config`, `internal/boot`) | current configuration | apply rows, reload | every worker |
| observability, secrets, clock, parser, migrations | - | - | no state the program reads back |

What is hard here: several worker processes share one table without locks; the
bus delivers again after five minutes while a handler may run for ten; a worker
is stopped without its handler being waited for; every call to the store, the
code host or the model may fail after it had its effect; `failOpen` runs after
any of them, in the same ten minutes, which may be over; a paid attempt of the
model that fails is made again; Bitbucket takes a review comment by comment;
the budget is checked before and charged after a call; two heads
of one pull request are reviewed at the same time, each relative to an earlier
head. `PROJECT.json` lists these hazards, line by line, with the properties that
would catch each, or why none does.

What makes each component correct:

* bus: no acked message comes back; every message is settled; the delivery
  count bounds the callbacks of a message; in memory, a key is handled once;
* review pipeline: one review per head whatever is redelivered, and no more paid
  attempts than one `ChatWithRetry` makes; checks agree with what is up on the
  code host; a row stays pending only for a reason that the log or a stop of its
  worker tells; recorded costs are those of posted reviews; chains of
  incremental reviews reach a full one; finished runs never change; comments
  are on lines of the diff; the prompt keeps what fits;
* the composition: no acked job is gone without a trace, and every job is
  decided or given up with a line in the log;
* gateway: what is answered 202 is on its queue;
* feedback: a signal for a known comment is recorded, at least once and no more
  often than delivered; every outcome has its event, and the rows are written as
  retrieval expects; the limits of the conversation mode hold up to the races
  between workers;
* indexer: a push reaches the index or the error log, but for what GitHub's page
  leaves out; no vector is stored with another text; the copies of a chunk are
  bounded by the deliveries;
* rules sync, backfill: no commit in part, no outcome without a cause;
* export: what is exported can be imported, with the exceptions known;
* code host adapters: no call with a dead token, ids of comments paired
  rightly, listings complete while nothing moves, up to the end of a search;
* settings: only valid values in effect, and in the end in every process that
  reads them live.

## 2. The modules

| module | models |
|---|---|
| `JobBus` | one queue of the bus: stream, duplicate window, deliveries, AckWait, MaxDeliver, MaxAge |
| `ReviewLedger` | abstract specification of what the pipeline promises for a head: claimed once, findings once, closed for good, blocked only by findings |
| `ReviewPipeline` | the review pipeline run by several workers over `pr_runs` and the code host |
| `ReviewPrompt` | what one review sends the model: retrieval, context providers, sections dropped, tries in two tiers |
| `DiffLines` | the parser of the diff, line by line, beside what the diff shows |
| `ReviewPosting` | a review's comments on the code host, the ids returned, the rows stored |
| `ReviewSystem` | gateway, `JobBus` and `ReviewPipeline` together |
| `FeedbackLoop` | feedback workers and conversation mode over `JobBus`, the comment tables and the code host |
| `Indexing` | pushes, the index queue (`JobBus`), indexers, embedding cache, `code_chunks`, eviction |
| `RulesSync` | overlapping runs of rules-sync over the table `rules` |
| `CommentHistory` | the three writers of `review_comments`: review worker, feedback worker, backfill |
| `Snapshots` | export table by table, rotation of the files, import into another database |
| `LiveSettings` | `app_settings`, the overlay at start and in the reloader of every process |
| `PrContext` | instruction sets, their assignments, ad-hoc notes |
| `HostToken` | the cached access token of Bitbucket |
| `HostListing` | paged listings of a code host that changes meanwhile |
| `RateLimits` | the limiters of login and gateway |
| `Intake` | the gateway from request to answer |
| `MemBus` | the in-memory bus |
| `MCReviewPipeline`, `MCReviewSystem`, `MCFeedbackLoop`, `MCKnowledge`, `MCServices` | instances for TLC |
| `JobBusProofs`, `ReviewPipelineProofs`, `ReviewSystemProofs`, `FeedbackProofs`, `IndexProofs`, `KnowledgeProofs`, `ServiceProofs`, `ReviewStepProofs` | theorems: the bus; the pipeline and the ledger; their composition; the feedback loop; the index; `RulesSync`, `CommentHistory` and `Snapshots`; `Intake`, `RateLimits`, `MemBus`, `LiveSettings` and `PrContext`; `DiffLines`, `ReviewPrompt`, `HostToken`, `ReviewPosting` and `HostListing` |

`ReviewSystem`, `FeedbackLoop` and `Indexing` each instantiate `JobBus` for
their queue. The other modules are parts that meet only through a table or the
code host; each models, as steps of its environment, what the others do to the
state it shares.

**JobBus.** `stream` holds every message ever stored with its key, its state and
its delivery count; `window` is the duplicate window; `holding[w]` is the
message worker w's callback runs for. `Publish` is `Bus.Publish` with the
server's answer to a repeated id; `Deliver`, `Ack`, `Nak` and `Abandon` are the
callback of `Consume` and the three ways it can end; `AckWaitExpires`,
`WindowExpires` and `AgeOut` are the server's timers, with the durations
abstracted away: each may fire at any time. `BusSafety` is the bus without its
fairness, which is what the theorems need. The server itself is not in the
repository; it is modelled from the settings the adapter gives it.

**ReviewPipeline.** `pc[w]` is the call of `process` worker w is about to make.
One action per call: `CheckRepo`, `Begin`, `CheckBudget`, `FindBase`,
`FetchDiff`, `Chat`, `PostReview` on GitHub and `PostComments` with `PostSummary`
on Bitbucket, `SaveComments`, `UpdateCheck`, `Finish`, and `PostNeutral` and
`PassCheck` for the three closing functions. If `Faults` allows it each call may
fail, with its effect or without (a call that only reads simply fails). The
database is `status`, `cost`, `rank`, `since` (the columns of a `pr_runs` row;
`since` is a history variable, the head the diff of the run starts from),
`saved` and `enabled`; the code host is `reviews`, `neutrals`, `found`,
`headline` and `check`. Jobs are handed to idle workers arbitrarily often: the
pipeline is specified for any bus.

* The handler's context. `busnats/bus.go:108` gives a handler ten minutes, and
  every call of the run, those of `failOpen` and `Finish` included, uses that
  context (`pipeline.go:570-590`). With the fault `deadline` the context may
  expire in any call (`Fails`); its worker is then in `late`, and each of its
  later calls fails (`InTime`) without having an effect.
* Attempts. `Chat` is one attempt of `ChatWithRetry`: `Answered`, `Unreadable`
  (paid, but `ParseOutput` refuses it), or `AttemptFails`, paid for or not, after
  which up to `MaxCalls` attempts are made on both tiers together (six in the
  code). `answers` counts what was paid. Tiers, backoff and cancellation in detail
  are in `ReviewPrompt`.
* Two code hosts. GitHub takes a review in one call. Bitbucket takes a call per
  comment, goes on after a failed one and reports success
  (`vcsbitbucket/source.go:310-345`): `PostComments` puts up some of the comments,
  `PostSummary` the rest, which may fail too, and the summary, whose failure alone
  is the call's. `found` is the worst comment that is up, `headline` what the
  summary says.
* `logged` and `stopped` are history: the jobs given up with a line in the log,
  and those of stopped workers.

What is abstracted: the diff and the prompt (retrieval, rules and context only
feed the model) become the model's choice of a verdict; a review's comments
become that verdict, "nothing", "harmless" or "blocking"; money is counted in
calls, a recorded run being of cost one; one day and one repository.
`validRightLines` drops comments outside the diff before the verdict is taken, so
it is part of the choice. `rank` is the order of the inserts: `started_at` is
read just before the insert, so two rows may be ordered differently by the two;
the chain theorem does not use the order. Retention (`DeleteBefore`, a year)
is not modelled: a row that is swept can be reviewed again.

**ReviewSystem.** A message carries a job; `HandleJob` is the callback of the
bus starting `Handle`, `AckJob` its end, `WorkerStops` a process that dies or is
told to stop. The gateway's publish is one step: if it fails the code host sees
an error, and no job exists.

**FeedbackLoop.** A second use of `JobBus`, for the feedback queue; a key is a
comment and a kind of signal. `pc[w]` is the call of `Handle` or `maybeReply`
worker w is about to make: `Lookup`, `AppendEvent`, `UpdateOutcome`, then for a
reply that matches a trigger `CountReplies`, `CheckCap`, `Chat`, `PostReply`,
`StoreReply`; `End` is the ack or the Nak. `rows`, `outcome` and `counted` are
what `review_comments` holds of one pull request, `events` counts the rows of
`feedback_events` per message, `answers` and `answered` are on the code host.
`unsaved` are the comments of a posted review that the review worker has yet to
store: a signal may overtake its comment. `Tombstone` deletes the rows in one
transaction and fails while an event references one of them, as the foreign key
in `001_init.sql:98` has no cascade. `echo` is the bot's own answer coming back
as a reply, as it does where the code host does not report the bot's account as
one (`vcsbitbucket/events.go:219` takes only teams for bots). A lost ack looks
like a stopped worker. Conversation mode is taken to be switched on; with it
off the loop ends at `UpdateOutcome`. `WritesHistory` says that all this writes
`review_comments` and `feedback_events` as `CommentHistory` allows: it is that
module's specification under the mapping in `History`. `Faults` also says
whether the day's budget turns (`spend`).

**ReviewPrompt.** `step` follows one run from retrieval to the model's answer.
`Retrieve` leaves sections empty as failing searches do. `FetchFrom` adds one
item a provider resolves: the providers are asked in turn, each for its
references in turn, and what fails is passed over, so items appear in the order
of `Earlier` and any may be missing. `SortItem` is one round of the insertion
sort: the next item goes to the place where the inner loop leaves it. At least
one try per tier is assumed (`DefaultRetryPolicy` has three): the type invariant
does not hold without. `DropSection` and `Send` are the rounds of `Assemble`.
`StartCall`, `CallFails`, `WaitIsOver`, `WaitIsCut` and `NextTier` are
`ChatWithRetry` and `tryTier`; `Cancel` may come at any time, and a wait that
ends together with it counts as ended first. A section is its number of tokens.

**DiffLines.** Every action is a line as git writes it; the primed variables on
the right (`path`, `line`, `valid`, `paths`) are the parser's. The two meet in
`AnchorsAreInDiff`. An added line whose text starts with `++` gives `+++`, which
no case takes, or, with a blank after it, a header: the actions `AddedPlusPlus`
and `AddedHeaderText` do what the parser does, and the property names them as
the exceptions.

**ReviewPosting.** Bitbucket posts comment by comment and goes on after an
error, GitHub posts all at once and reports no ids; `PersistComments` pairs the
i-th id with the i-th comment, as the pipeline does.

**Indexing.** A file is one chunk and is its content; hash and embedding of a
content are that content, so that a vector in the wrong place shows. `trees` is
the history of the default branch. `Collect` is `ListChangedFiles` and the loop
over the files, of which those not in `Parsed` have no parser; `GetMany`,
`Embed`, `PutMany` and `UpsertMany` are the calls that follow, `AckIndexed` the
ack that `Handle` gives whatever happened. `provider` is the repository's host:
Bitbucket's diffstat is read to its last page, of GitHub's comparison only the
one page that `CompareCommits` returns, `CompareLimit` files (300 at GitHub); which
files are on it is open. `Unlisted(n)` is how many changed files of commit n are
left out. Chunks are only added: no caller of `SoftDeleteMissing` exists, so rows
of removed files stay, and a job handled again adds every row again. `EvictToMax`
is the janitor's statement with its order. The hashes that have to be embedded
come in any order (`Orders`), as iterating over the Go map gives them. `failed`
records what the error log says. The stream drops a push that has waited for its
MaxAge (`AgeOut`, of the bus).

**RulesSync.** `Fits` are the ids the column `rules.rule_id` takes: its type is
UUID while the code writes paths, so on the migrated schema no path fits and
every upsert fails; with `Fits` a subset of the paths, the module covers that
and a schema with a text column. `TombstoneMissing` compares the stored commit
with the one just upserted, so it finds no removed rule; `CommitIsTakenWhole`
is about the rules a commit has and claims nothing of those it no longer has.

**CommentHistory.** `said` is history: what reactions ever meant for a comment.
`recorded` is, too: the meanings of the events the feedback pipeline appended;
`referenced` are the comments an event still refers to, which the janitor's
`DeleteOldFeedback` makes fewer. `AppendFeedback` and `StoreOutcome` are two
steps, as they are in `Handle`; `Tombstone` needs that no event is left.
`Meanings` are the outcomes feedback may have. A text is a comment's body with
its hunk as listed; the column `diff_hunk`, which an update does not write, and
the comment's place are not modelled. A listing names the comments in
any order and is of any length; `PlaceIn` counts a comment's place among those
whose text is sent. `UpsertListed` overwrites outcome and vector of a row but
not its source; `StoreBotComment` starts with a pending outcome.

**Snapshots.** Rows have identities and the columns that a constraint looks at:
the repository of a chunk, the host's id and the presence of an embedding of a
comment. `exportDir` holds, for each of the two kinds of files, their
timestamps, which grow from export to export. `lateRepos` and `exportBroken` are
history. The import is one transaction; it is refused by the foreign key, by the
unique index, or because `vectorLiteral` writes `[]` where there was no
embedding. A snapshot of a failed export is not imported.

**LiveSettings.** Values are good, zero, unparsable or unknown, which is what
`applyOne` and `Validate` tell apart. A process applies the overlay twice: in
`StartProcess` and, over the result, in `StartReloader`, whose bootstrap is
`boot[p]`. Which value a process works with depends on how it reads the key:
`BootKeys[p]` are those it captures when it starts (those of
`RestartRequiredKeys`, and in indexer, rules-sync and backfill the embeddings
model, `cmd/indexer-worker/main.go:96`, which goes before the live one),
`LiveKeys[p]` those it asks its reloader for; the default of the daily cap is
read by nobody. `SettingReachesProcess` is about the live keys: a row is in
effect in the end, and a key without one has the value of the process's start,
which for a deleted row is the row's.

**PrContext.** The transaction that deletes a set is two steps with the rows it
has deleted `locked`; a note is blank or not.

**HostToken.** Time goes in steps of 30 seconds, the timeout of the HTTP client,
so that an exchange or a call sees one step at most. `tok.left` is the life the
host gives the token, `tok.counted` what the cache counts: the lifetime in the
answer, or `DefaultLife` if it names none (two hours, which are Bitbucket's).

**HostListing.** `FetchPage` follows the link to the next page while `Added` and
`Removed` change what is listed; `squeezed` counts items that came in before
others. With `search` the listing is GitHub's `SearchClosedPrs`: a search names no
page after `SearchPages` (ten of a hundred results), and `CutOff` is what lies
beyond. GitHub's `ListChangedFiles` asks for one page only; it is in `Indexing`.

**RateLimits.** `passedLogins[a][i]` and `passedHooks[a][i]` count the requests
of an address let through in the last i steps of time; the windows of the code
are what `age` measures.

**Intake.** `QueueOf`, `Refused` and `Describes` classify an event as the
adapters and `route` do; `EnsureRepo` and `PublishJob` may fail, the latter with
or without effect. One row per owner and name: an event of the other host
takes the row over.

**MemBus.** `Dedup` is what `Publish` does under its lock, `CallHandler` what it
does outside.

## 3. The runs

| run | instance | checks |
|---|---|---|
| `pipeline_faults` | 3 workers, 1 head, either code host, 3 attempts, cap 1; all calls fail, the deadline passes, workers crash, operator | types; `AtMostOnce`; `OneWorkerPerJob`; `CheckMatchesReview`; `PendingRowsExplained`; `FinishedRunsAreFinal`; `ImplementsLedger` |
| `pipeline_races` | 2 workers, 3 heads, cap 1, GetRecent limit 2; the store fails | `ReviewChainsGrounded`; `RecordedCostIsReal`; `SpendOvershootBounded` |
| `system_faults` | 2 workers, 1 job, either code host, 1 message, MaxDeliver 3, 2 attempts; every fault: all calls fail, acks are lost, the deadline passes, workers stop, operator | types; `AckedJobIsAccounted` |
| `system_live` | 2 workers, 1 job, 1 message, MaxDeliver 2, 2 attempts; store, code host and model fail, the deadline passes, operator | `EveryJobIsDecided`; `NoJobWearsOut` |
| `feedback_faults` | 2 workers, 1 comment, 3 kinds, 2 messages, MaxDeliver 2, limit 1; all calls fail, crashes, operator | types; `EventsWithinDeliveries`; `ReplyOvershootBounded`; `WritesHistory` |
| `feedback_live` | 2 workers, 1 comment, 2 kinds, 1 message, MaxDeliver 3; all calls fail, crashes, operator | `KnownSignalIsRecorded` |
| `knowledge` | `Indexing`: 3 files, 2 of them parsed, 2 contents, 2 indexers, 1 push, MaxDeliver 2, a page of 1 file, a cache of 1, either host; `JobBus`: 2 keys, 2 workers, 2 messages, MaxDeliver 3; `RulesSync`: 3 paths, 2 runs, 2 commits; `CommentHistory`: a bot's and a human's comment, 2 texts; `Snapshots`: 2 rows of each table, 2 exports, 1 file kept | types; `IndexIsSound`; `PushIsIndexed`; `NeverRevived`; `EveryMessageSettles`; `CommitIsTakenWhole`; `RowsAreTrue`; `ExportIsUsable` |
| `services` | 1 process and 2 keys of settings, one live; 2 sets and 2 repositories, 4 notes; 2 callers of a token of 4 steps, default 3; 3 inline comments; 5 items in pages of 2, a search of 2 pages; 2 addresses; 2 requests of 6 kinds; 2 publishers; 4 providers, 2 tries; diffs of 7 lines over 2 files | types; `OnlyValidInEffect`; `SettingReachesProcess`; `ContextIsKept`; `TokenOutlivesCall`; `MispairedOnlyAfterLoss`; `ListingMissesFew`; `TwiceTheLimitAtMost`; `AcceptedIsPublished`; `HandledOnce`; `PromptKeepsWhatFits`; `CancelStopsTheCalls`; `AnchorsAreInDiff` |
| `pipeline_check` | 1 worker, 1 job | `PostedBlockerNeverPasses`, violated |
| `system_restart` | 2 workers, 1 job, crashes | `RestartLosesNoJob`, violated |
| `cache_eviction` | 1 push, a cache of 1 | `EvictionTakesOldest`, violated |
| `posted_ids` | 3 inline comments, both hosts | `PostedCommentIsFound`, violated |

`knowledge` and `services` check several independent parts. A variable `focus`,
chosen at the start, says which part moves; the others stay in their initial
states, so the states of the run are the sum and not the product of those of its
parts, and every part is explored in full. The fairness of a part is asked for
where it is the one that moves.

Bounds. Two workers are the least that race; `pipeline_faults` has a third for
the one row they all want. Of heads one suffices for the claim and its records,
and three with a cap of one and a GetRecent limit of two let the history outgrow
both. `MaxCalls` of three, two or one (six in the code) makes paid attempts that
fail precede the one that counts; where the attempts are not the question it is
one. Two messages with one key, a redelivery after the duplicate window, are in
the pipeline's runs, which take any delivery, and in those of the feedback loop;
the composed runs have one message, which AckWait hands to a second worker while
the first is at work, and again after a stop. MaxDeliver of two or three (five
in the code) is reached within the run. One comment with several kinds of signal
is what races: two comments share only the count of replies, which two questions
under one comment share too. The limit of one reply with two workers is the
smallest that can be overshot. `MaxMessages` is the model's own bound on
publishes; the stream stops accepting messages there. In `knowledge` one push of
two parsed files gives a job with a cached and an uncached content, which is
what can be confused, and two deliveries by two indexers overlap; a page of one
file leaves out up to two, and the third file, which no parser takes, may fill
the page. To keep the run small that file has one content (`PlainTrees`), the
branch starts with one file, and the cache has just been swept when the first
push comes (`KnowledgeInit`); two rule commits are the least that two runs can
mix up, and three paths, one of which the column refuses, leave one that an
upsert could keep alone; two comments of one pull request are enough for a
repeated text; two rows of each table are one read before and one read after a
change. In `services` the token's four steps are two inside and two outside the
margin; the default life is shorter than the real one; three comments leave one
before and one after a failed post; five items fill two pages and begin a third,
which a search of two pages cuts off; the window is two steps so that requests
fall on both sides of its boundary; seven lines of diff are two headers and two
hunks with lines between them. The six kinds of events take each way through the
gateway; the proof covers all kinds. The runs do not check for deadlock: with
every message settled and every worker idle the system does stop.

Fairness. A running handler goes on to its next call: every call is bounded by
the handler's context, whose end is itself a fault that may or may not come. The
client library hands a waiting message to an idle worker, and the server's
AckWait timer fires. Each is weak fairness on a step that stays enabled until it
is taken. Nothing is assumed of publishers, of crashes, of the operator, of the
model's or the code host's success, nor of the duplicate window and MaxAge. The
indexers and their queue have the same fairness. A process is started again
after it exits, as its supervisor does, and its reloader's ticker ticks; nothing
else of `LiveSettings` is fair, and the operator need not settle.

### What the violated properties show

* `pipeline_check`: PostReview succeeds with a blocking comment and UpdateCheck
  fails; `failOpen` posts a second, neutral review and passes the check.
  `docs/design.md:306` lets the check succeed unless blocking comments were
  posted.
* `system_restart`: a worker stopped after `Begin` leaves a pending row; the
  redelivered job is taken for a duplicate and acked. `docs/design.md:437`: no
  event is lost during a planned worker restart.
* `cache_eviction`: `embedding_cache.go:47-49` says the oldest rows go; the
  subquery `ORDER BY created_at ASC OFFSET max` names the newest. Once the cache
  is full every sweep throws away what was just computed.
* `posted_ids`: `ports/vcs.go:179` promises the ids of the posted comments in
  order. GitHub's adapter returns none, so feedback on GitHub finds no row;
  Bitbucket's leaves out the ids of failed posts, so that every later id is
  stored with an earlier comment. `MispairedOnlyAfterLoss` is what does hold.

Other disagreements between the code and its documents that have no run:

* an answer of the model that cannot be used is paid for and never recorded, nor
  is a paid attempt that fails and is made again (`retry.go:55-73`,
  `gateway.go:114-116`), so `TodaySpend` does not see them, while
  `core/budgets/cost_cap.go:1-2` says the caps are enforced before any model
  call. `AtMostOnce` bounds what is paid for a head;
* on Bitbucket a failed inline comment is passed over
  (`vcsbitbucket/source.go:299-302`): a check can fail with no blocking comment
  up, only the summary saying so, although `docs/design.md:306` ties the failing
  check to comments. `CheckMatchesReview` states what holds on each host;
* the handler's ten minutes cover `failOpen` and `Finish` too
  (`pipeline.go:570-590`): six attempts of 90 seconds with their waits leave
  little, and when they are over the status is not written, the job is acked and
  its row stays pending for good, with a healthy database, while
  `docs/design.md:439` counts on failing open when the model is gone.
  `PendingRowsExplained` and `AckedJobIsAccounted` say what is left of such a
  job, a line in the log;
* a diff that exceeds the token cap by itself is sent as it is, with a warning
  (`pipeline.go:255-258`), while `core/prompt/budget.go:60-62,74-76` says that the
  caller must chunk it, and `docs/design.md:297` that it is chunked by file.
  `PromptKeepsWhatFits` claims nothing of such a prompt;
* of a push that changed more than 300 files GitHub's `ListChangedFiles`
  (`vcsgithub/source.go:315-332`) returns those on one page, and nothing tells that
  the others are not indexed; `SearchClosedPrs` stops at 1000 pull requests, and
  `vcsgithub/source.go:350-353` asks the caller to narrow the window, which
  `backfill/pipeline.go:56` does not;
* `config/overlay.go:50-57` says that every key but those of
  `RestartRequiredKeys` is reloaded: `llm.embeddings_url` is captured at the start
  of `indexer-worker` (`main.go:96`), `rules-sync` (`:86`) and `backfill-cli`
  (`:113`) and goes before the live value (`gateway.go:134-137`), and
  `cost.daily_usd_cap_default` is read by nobody (`storepostgres/pool.go:64`). A
  deleted row keeps its value until the process restarts, although
  `overlay.go:78-80` says that absent settings leave the TOML default in place;
* `/review` and the retry button publish the key of a finished job, which the
  worker drops as a duplicate; `docs/design.md:308`: `/review` re-runs the
  review;
* replies are counted before an answer and recorded after it, and nothing marks
  a reply as answered: two workers that count together, or a reply delivered
  again, go past `max_replies_per_pr`, which `README.md:116` calls a hard
  guarantee. `ReplyOvershootBounded` is what holds of the recorded rows;
* an event Bitbucket's adapter does not know, or a push to another branch, is
  answered 401, while `vcsbitbucket/events.go:15-18` says the gateway can ack
  and ignore it;
* `TombstoneMissing` never disables a rule, since every row of the commit just
  upserted is among its rules: a rule removed from the repository stays in force,
  while `rulessync/pipeline.go:3-5` and `docs/design.md:284` say it is tombstoned.

## 4. What is proved

All theorems hold for every set of jobs, every cap, delivery limit and bound,
and every set of faults, but for the three that delimit a violation below; the
set of workers is finite (it is counted). The assumptions are the named ASSUMEs
of the modules, which TLC evaluates in the runs.

Every invariant and every action property that a passing run checks is the
statement of a theorem or a conjunct of one. Three of the four properties that
the code violates are proved for the rest of the cases, which says what exactly
breaks them:

* `OnlyFailedCallsPassBlockers`: without failing calls to the code host no
  posted blocking comment goes with a passing check. The invariant
  (`BlockersFail`) says that a worker with a blocking verdict will fail the
  check, for only a call that fails leads to `failOpen` past the review;
* `NothingElseLosesJobs`: if no worker is stopped, the store answers and the
  handler's ten minutes do not pass, every pending row is in the hands of a worker
  (`PendingInHand`), whatever the code host, the model, the bus and the operator
  do. The three are the ways of `PendingRowsExplained` to leave a row pending;
* `OnlyLossesHideComments`: on Bitbucket, without a failed post the k-th id is
  that of the k-th comment (`IdsInOrder`), so each posted comment is found.

The fourth, `EvictionTakesOldest`, is wrong whenever something is evicted and
something stays.

* `JobBusProofs`: `BusTypeCorrect`, `HoldersCounted`, `GoneForGood`. The
  inductive invariant is the type invariant with `HoldersWithinDeliveries`; the
  argument is that a delivery adds one holder and one to the count, and every
  other step can only remove holders.
* `ReviewPipelineProofs`: the inductive invariant `IInv` ties each row to the
  worker that inserted it. `JobOK(j)` says what the code host and the row may
  show for an absent, a pending and a finished job; `WorkerOK(w)` says what a
  worker past `Begin` has already done at each of its places, and that its row
  is still pending; `OneWorkerPerJob` makes it the only one. None of the safety
  properties is inductive alone: that a second review cannot appear needs that
  a worker about to post has not posted yet and that no other worker is there,
  that the check agrees needs what may be up on each host at each place, and that
  a head is paid for in one `ChatWithRetry` needs that what was paid is within the
  attempts counted so far (`Traces`, `TriesCounted`).
  From it follow `ReviewedOnce`, `ClaimsExclude`, `ChecksMatchReviews`,
  `CostsAreReal` and `FinishedForGood`. `PendingIsExplained` follows a pending row
  through every step of its worker: it is still in hand, or the step has logged it
  or stopped the worker. `ChainsEnd` adds that the base a worker
  has chosen is posted and that its own row is not, so a run is added to a
  set of finished chains and nothing points to it yet; `OvershootIsBounded`
  adds that spend plus the workers between the check and the charge stays
  below the cap plus the workers. `LedgerImplemented` is the refinement of
  `ReviewLedger`, action by action.
* `ReviewSystemProofs`: a lemma shows that each step of the system is one of the
  pipeline under arbitrary delivery or leaves it alone, so the pipeline's theorems
  carry over: `SystemReviewsOnce`, `SystemImplementsLedger` and
  `SystemKeepsPromises`. Of the composition itself are `SystemTyped` and
  `AckedMeansAccounted`: a worker about to return, and an acked message, have a row
  for their job or a line in the log (`ReturnsKnown`, `AckedKnown`), for rows never
  go and `CheckRepo` and `Begin` log what they give up; and a row is decided or
  explained. Another lemma takes the queue for the bus's, so that the theorems of
  the bus can be had from an instance of `JobBusProofs` (`SystemBusIsSafe`).
* `FeedbackProofs`: the inductive invariant `FeedbackInv` has three parts beside
  the types. `EventsPaid`: the events of a message and the workers that have
  taken it and not yet appended (`Fresh`) are together within its deliveries, so
  a delivery pays for the event that follows it; `OutcomesEvidenced`: a worker
  that writes an outcome has appended its event; `RepliesCounted`: recorded
  answers and workers past the count (`Answering`) stay together below limit and
  workers. They give `DeliveriesPayEvents`, `OutcomesHaveEvents` and
  `RepliesAreBounded`; `FeedbackTypeCorrect` is the type invariant, for which
  every step of the bus is shown to keep keys and never to lower a delivery
  count. `FeedbackWritesHistory` is the refinement of `CommentHistory`: deleting
  the rows maps to `Tombstone` since no event is there, the append of an event
  to `AppendFeedback`, an outcome to `StoreOutcome` because the worker's event
  is among those appended (`OutcomesEvidenced`), and the queue, the answers and
  the counts to stutters. `FeedbackBusIsSafe` is as for the system.
* `IndexProofs`: `VectorsStayWithTheirContents`, for any number of indexers,
  pushes, files and contents and any size of the cache. `IndexInv` has, beside
  the types: every key on the queue is a commit that exists (`KeysPushed`); what
  a worker knows of a hash is its vector, and once it has embedded it knows all
  it has collected (`VectorsTrue`), also when the cache's rows were evicted
  since; what it has collected is in its commit (`GroupsInCommit`); and the rows
  of a chunk with the workers that may still insert it (`Working`) are within
  the deliveries of the commit's jobs (`InsertionsPaid`), so again a delivery
  pays for one insertion. That an acked push is in the index or in the error log
  is an invariant of its own (`WorkAccounted`): of every file its commit changed,
  a worker at any place has the content in hand, or its rows are there, or the
  job has been logged as failed, but for as many files as the listing it works
  on leaves out (`Unlisted`). `IndexBusIsSafe` is as above.
* `KnowledgeProofs`, for any number of rows, runs and texts. `KnowledgeIsKept`
  puts the theorems of the parts together for the run's specification: a step of
  one part leaves the others alone. `CommitsAreWhole`: the invariant is the
  property with, for a run about to tombstone, that its clone has been upserted
  whole and nothing stands against it. `LearnedRowsAreTrue`: an outcome needs a
  reaction that was said or, in a row of the bot, an event that was appended,
  and a source never changes; the listing a backfill works on carries only what
  was said, and each comment its own vector (`ListedTruly`). That the vectors
  come out right is a lemma of its own: among the places of the texts to embed
  each has one number and each number one place (`PlacesDiffer`, by counting),
  so the k-th result is the vector of the k-th text. `ExportsAreUsable`:
  `SnapshotIsOrdered` says which repositories an export in progress must have
  read or know as late, so a chunk that is read after its repository has a
  parent; `SameExports` that the files left of both kinds are the newest of the
  same exports, but for the one in progress.
* `ServiceProofs`. `AcceptedHaveJobs`, for any requests and all kinds of events:
  a request past `ensure` has its repository's row, and rows and jobs are never
  taken away. `LimitersHold`, for any limit, window and number of addresses:
  what passed since a bucket began is what it counts, and what passed before it
  within a window is one limit at most (`Accounts`); the collection of old
  buckets takes only those whose requests have left every window.
  `MemBusHandlesOnce`: attempts of a key and publishers past the lock with it
  are together one at most. `SettingsStayValid`, without fairness
  (`SettingsSafety`): every configuration in force, and the one kept from the
  start, is good, and an overlay that applies keeps it so.
  `OperatorContextKept`: step by step, from the notes being a sequence.
  `ServicesAreKept` joins these and the next module's theorems for the
  specification of the run `services`, with the types of every part.
* `ReviewStepProofs`, the steps of one review. `KeptCommentsAreOnDiff`, for
  diffs of any length: until a text that looks like a header is met, the parser
  has the file that the diff shows and a line no greater than the diff's, and
  what it took for valid was shown. `CancelledJobCallsTwice`, by counting what
  each tier may still begin. `PromptHoldsWhatFits`, for any number of providers
  and references: what has been dropped did not fit beside what is worth more;
  the sorted part of the context is in order, the rest stands as it was
  gathered, also relative to the sorted part, which makes the sort stable.
  `TokenSuffices`, for any lifetime of more than 60 seconds: the cache counts
  one step more than the host at most, a token still in exchange has lost one
  step at most, and a call which has waited no step yet has two left, so the
  margin of two steps covers both. `LossesExplainMispairing`, for reviews of any
  length: an id names a comment at or after its place, further on only if a post
  before that comment was lost, and no two ids name the same one.
  `ListingsMissFew`, for listings and pages of any size: beside the repeats so
  far, `ListingInv` counts what the pages to come may give again (`Again`) and,
  against removals and insertions, the items behind the cursor that were never
  seen (`Missing`) with the places that are empty there (`Vacant`); what a search
  cuts off is what stands behind its last page (`BehindTheLastPage`).

Several of these count: cardinalities are taken apart one element at a time, and
that a nonempty set of numbers has a least or a largest element, which would
otherwise be an induction, comes from the library's well-foundedness of the
naturals (`LeastExists`).

Only model-checked: the liveness properties `EveryMessageSettles`,
`EveryJobIsDecided`, `NoJobWearsOut`, `KnownSignalIsRecorded`, `PushIsIndexed`
and `SettingReachesProcess`. The prover handles neither fairness nor ENABLED.

## 5. What is not modelled

`PROJECT.json` gives every component's status.

* The NATS client's prefetch buffer: a message's AckWait may pass before its
  callback starts. Every delivery that reaches the buffer ends in a callback
  that acks, so while workers are not stopped the buffer only wastes deliveries;
  `JobBus` starts a delivery with its callback.
* A job whose payload cannot be decoded: this program publishes none.
* The janitor's retention of `pr_runs`: a run is swept after a year, when its
  head may be reviewed again. Disabling a repository deletes its `code_chunks`,
  which `Indexing` does not follow: its rows only grow.
* Answers of the database's vector search, prices, token counts, prompts and
  other text: data without control. Of an answer of the model the verdict is
  kept.
* Sessions and OAuth of the admin UI: signed cookies, no state in the process.
* Observability, the tree-sitter parser, the migration command, secrets and the
  clock: no state the program reads back. Fakes and harness are test code.
