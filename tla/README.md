# TLA+ models of skkuverse-crawler

Specifications of the parts of the crawler whose correctness depends on order,
on concurrency or on what fails when; TLC configurations that check them on
small instances; and TLAPS proofs of the main safety properties for every value
of the constants. The paths below are relative to
`py/src/skkuverse_crawler/` in the repository.

## The system

The crawler is one asyncio process. A scheduler (APScheduler) starts *modules*
on cron or interval triggers; each module reads remote sites and writes MongoDB
collections; other services read those collections.

| part | state it keeps | operations | interacts with |
|---|---|---|---|
| notices crawl (`modules/notices/orchestrator.py`, `core/runner.py`) | per-source `SourceResult`; a semaphore | `run_crawl`, `_crawl_department`, `iter_source`, `run_events` | strategies (await), sink and seen index (await), health hook (call) |
| Mongo sink (`plugins/mongo/sink.py`) | touch buffer `_touches`, shared by all sources of a run; the `notices` collection | `prepare`, `accept`, `flush` | called by `run_events` |
| crawl policy (`modules/notices/policy.py`) | none | `has_changed`, `views_refresh_due`, `should_continue`, `page_below_floor` | called by `iter_source` |
| crawl health (`plugins/health/`) | `crawl_health` collection: failure count and alert latch of every source | `record_and_alert`, `decide_transitions`, daily summary | called after a notices run; sends Discord messages |
| update checker (`plugins/mongo/update_checker.py`) | a snapshot per pass; `notices` | `run_update_check`, `_check_department` | races the crawl on `notices` |
| AI summaries (`plugins/ai_summary/`) | summary fields of `notices` | `run_summary_batch` | races both on `notices` |
| bus pollers (`modules/bus/`) | cached snapshot documents, no-data counters | `run` of each poller | snapshot sink, health |
| scheduler (`plugins/scheduler/runner.py`) | jobs, shutdown event | `run_scheduler` | starts every module |
| fetcher (`shared/fetcher.py`) | time of the last request | `fetch`, retries, rate limit | shared by five crawl tasks |
| dispatch (`plugins/dispatch/client.py`) | none | `notify_cycle_complete` | webhook of another service |
| content pipeline (`modules/notices/stages.py`, `normalizer.py`) | one document in flight | stages, `derive_content_fields` | both writers of `notices` |
| repair and audit (`plugins/mongo/repair*.py`, `audit.py`) | none | batch rewrites of `notices` | race the crawl and the checker on `notices` |
| wiring (`wiring.py`, `env.py`) | configuration | selection, refusals, factories | builds all of the above |
| strategies (`modules/notices/strategies/`) | Webflow token, WordPress body cache | `crawl_list`, `crawl_detail` | called by crawl and checker |
| HTML cleaning (`shared/html_cleaner.py`) | none | `clean_html`, `normalize_content_urls` | called by the pipeline |

What is hard in it: five sources share one buffer and flush it at any await;
boards change between two list fetches of a walk whose early stop assumes they
did not; three writers update the same document from snapshots of different
ages; every write can fail in part; and the process is redeployed at any moment,
between two writes that belong together. `PROJECT.json` lists these hazards at
their lines.

Per component, what makes it correct:

* **crawl run**: every touch is written once or lost with a write that failed;
  a source that returns leaves none behind; counters count what happened; the
  run settles whatever raises.
* **board walk**: stopping early loses nothing; a full sweep heals any gap. (That
  a run finishes is another question: `Site` and `CrawlRun` speak of it.)
* **health**: one alert message per outage, never before the threshold; the latch
  follows what lasts.
* **update checker**: stored content is never blanked by a broken page; both
  writers settle on the page; a deletion needs three misses, and what is gone
  should be deleted, which under the bundled strategies it is not.
* **summaries**: a summary that looks fresh is of the current body;
  every notice ends summarised or given up.
* **bus pollers**: an up report accounts for every document; a quiet night is no
  outage; dwell clocks survive failures and the end of service is shown.
* **scheduler and wiring**: a process runs what its configuration asked for or
  refuses to start; no module overlaps itself while the process serves; a stop
  request ends it and leaves nothing open.
* **fetcher and strategies**: the requests of a source keep their distance; a
  walk reads every row before it ends, and ends.
* **content pipeline and repair**: the fields derived from a body describe the
  body that is stored; no writer loses what another could restore.
* **HTML cleaning**: the words of a notice come out once and in order, and
  nothing disallowed with them.

## Modules

### TouchDelivery and CrawlRun

`TouchDelivery` is the abstract promise of the touch buffer: a touch is pending
until one bulk write settles it, and is dropped only by one that failed.

`CrawlRun` is one call of `run_crawl`. `phase[s]` is the await at which the
coroutine of source *s* stands: `queued` (the semaphore), `backfill`
(`iter_source` before its page loop), `listing` (`crawl_list`), `page`
(`_emit_page`), `flushing` and `closing` (the two calls of `flush`), `paged`
(after a page), `finished` (after the stream). `buffer` is
`MongoSink._touches`; `inflight[s]` is the local `items` of a `flush` that
awaits its bulk write; `written` and `lost` are what the collection received
and did not; `result[s]` is the `SourceResult` that `run_events` mutates. One
action stands for one event: what the sink's `accept` does with it and what the
runner counts. `TouchUnchanged`, for instance, is `ItemUnchanged` with fields,
appended to the buffer and counted as skipped. `Drain` is the swap in the first
line of `flush`, atomic because no await precedes it. `FlushFails` applies any
part of the batch, because the bulk write is unordered. `Raise` is every
exception outside the per-item `try`; a write it interrupts may have reached
the server. What a page holds is not modelled here, so any sequence of events is
possible; `BoardCrawl` models that. Nor is what comes before the tasks: a
`prepare` that raises (`modules/notices/orchestrator.py:131-132`) ends the run
before any of them starts.

`ImplementsDelivery` states that `CrawlRun` implements `TouchDelivery` with
`pending <- buffer \cup InFlight`.

### BoardCrawl

One board, run after run. `live`, `pinned` and `title` are the board;
`Listing(p)` is what `crawl_list` answers: the pinned rows, and the window of
page *p* in the order `Precedes` of the regular ones; a page is a set of rows,
because `iter_source` treats those of a page alike. Every row has a date: of one
whose date did not parse, `page_below_floor` (`modules/notices/policy.py:148`)
and `_emit_page` would say nothing. `store` is the collection.
`stage`, `page`, `rows`, `seen`, `allKnown`, `belowFloor` are the locals of
`iter_source`, which vanish with the generator (`Finish`). `ListPage` and
`ListEnds` are the part of the loop body up to the last stop before processing;
`Item` is one turn of `_emit_page`; `BatchCompleted` is the rest of the loop
body. The board moves at any point: `Post` shifts rows to later pages, `Move`
(withdrawal, pin, unpin) pulls them to earlier ones, `Edit` changes a title. The
history variable `runClean` records that nothing disturbed the present run,
`intact` that no run so far was cut short.

### CrawlHealth

The post-crawl hook. `stage` is the await of `record_and_alert`; `health` is
the collection; `prev` what `load_states` read; `alerts` and `recoveries` are the
sources named in the message that is being posted. `SaveFails` stores any part of
the states. `Compose` is the message: `Fitting` is the sets of sources whose lines
may come before the cut at 2000 characters (`plugins/discord/webhook.py:53`), at
least `LinesThatFit` of them, the alerts before the recoveries; `cut` records the
others. `PostOk`, `Retry` and `GiveUp` are one attempt of `send_discord` each: it
was answered; it ended in an error that may pass, and the same message is posted
again, up to `MaxAttempts` times, though the channel may have taken it (a read
that times out is retried, `plugins/discord/webhook.py:38-40`); or the notifier
returns False, as it does at once without a webhook URL. `Abandon` is a read that
raised or a process that was replaced before the message. A source whose
coroutine raised is reported `absent`. The history variables `seen`, `copies`,
`told` and `streak` say how often a source was alerted in its outage, how often
the present message arrived, whom the operator last heard to be failing, and how
long a source has been down.

### TierTwo

The two writers of a notice: the crawl (`CrawlPending`, `CrawlRow`,
`CrawlDetail`, then `CrawlRefresh` or `CrawlStore`) and the update checker
(`TierStart` takes the snapshot, `TierFetch` fetches one page, one of the four
outcome actions writes, `TierSecondPass` and `TierMiss` handle the pages that
answered 404). A body is a version number, `Blank` (it sanitises to nothing),
`Huge` (the size guard drops it) or no detail; the hash of a body is its
version. `SwallowsErrors` tells the bundled strategies, whose `crawl_detail`
turns every error into `None`, from one that lets the 404 through. The checker is
written for the second kind, so that is what its safety is checked and proved of;
what becomes of it under the first is the run `TierTwoSwallowed`. `MCTierTwo` joins
two scenarios in one run, chosen by the initial state: two notices with one edit
and one failure, and one notice with three edits and none.

### AiSummary

`content[n]` is the stored `contentText` with its hash, `summary[n]` the text a
summary was made of with its `summaryContentHash`, `recent[n]` the place of a
notice by `crawledAt`, the newest at 0. `Query` is the sort and the limit: a notice
is taken if fewer than `BatchSize` of those found are newer (`Ahead`), and that
number is its place in the list. A batch is `idle`, in its first list (`new`) or in its second
(`stale`); `todo` is what is left of the list it read, and the loop is at the
document of the first place. There are two: the
scheduler's, and the one `run_scheduler` awaits at start-up, which
`max_instances` does not count. `SummarizeOk`, `SummarizeFails` and `StoreFails`
are the ends of `_summarize_one`. `Rewrite` is either writer of contents, or a
touch; `BackfillHash` is the branch of the update checker that stores the hash of
the body it fetched and nothing else of it. The history variable `foreign` keeps
the hashes a notice was given in that way.

### BusPoller

One of the three pollers, chosen by the initial state. A poller is the sequence
of its documents; the shuttle has one, a route of the city bus two, the ETA one
that needs two fetches. `stage`, `at`, `leg`, `answered` and `errors` are the
locals of a tick; `remembered` is `_previous` or the entry of `_dwell`;
`stored` the ages published. `Timely` drops the stale rows and keeps the order of
the others. `AnswerData`, `AnswerRest` and `AnswerFails` are
what an upstream can say; `Abort` is the broad `except` of `run`. The rows an
upstream reports, and time, are its environment.

### Process

The process from its start to its end, and the supervisor that starts it again.
`deploy` is an environment and a command line; `Refused` and `Built` are what
`settings_from_env` and `build_runtime` make of them: the refusals in their
order, and the modules of the families whose requirements are met. `Boot`
connects and creates the jobs, `StartUpRun` and its two ends are the runs
`run_scheduler` awaits itself while the timer already ticks, `Serve` installs the
signal handlers. `TickDue`, `RunTick` and `DropTick` are APScheduler with
coalescing and `max_instances = 1`; `pending[m]` counts its runs of a module.
`StopServing` is a signal that finds the handlers, `StopTooEarly` one that does
not; `ModuleShutdown` and `Exit` are the shutdown with its time limit, `Kill` and
`Restart` the supervisor's part. A module in `hanging` ends neither its runs nor
its shutdown. `MCProcess` gives the families of `wiring.py` with their real
requirements, the nine modules cut down to four. That families share no module
name and build what they declare is checked by the code when it starts, and is
an `ASSUME` here.

### Site

A run's tasks over the shared `Fetcher`. `since` is the fetcher's
`_last_request_time`; `work[t].request` is `waiting` (asleep in `_rate_limit` or
between two attempts) or `open`. `Fetch`, `SendAfterWait`, `Retry` and `Raising`
are `_fetch_with_retry`. Each strategy has an operator from a page number to the
rows it returns (`SkkuStandardList` ... `WebflowList`), over boards whose rows
may be pinned, without a link or a title, or short; it takes what a task crawls
as one record (strategy, board, page size, skin, token). `Addressable` is what
such a strategy could read of the board at all, and `PagesHoldArticles` says that
no page before its last readable row is without one. `ListFails` and `DetailFails` say which
errors a strategy lets through, `ListIsNone` what it makes of an answer with
status 200 that holds no list, and `Discovers` whether the first page of a Webflow
board shows its page token. Some of these end a walk as the end of the board
would: `PassForTheEnd` lists them by strategy, and `read[t].failed` keeps what came
up in a walk. The page loop is that of `BoardCrawl`, reduced
to: read a page, fetch at most one detail, go on until a page is empty.

### Content

One notice and its four writers: the crawl (`CrawlItem`, `CrawlPending`,
`CrawlStore`), the update checker (`TierCheck`, `TierStore`) and the two repair
commands (`RepairRead`/`RepairWrite`, `LinksRead`/`LinksWrite`), each with its
read and its write apart. The stages of `DEFAULT_PIPELINE` are one operator each
and `Derive` runs them in order; `Updated` is what the crawl and the checker
store, `Patch` the repair, which writes only the fields that differ. A body is its words, one image with the size
its markup gives, and its bulk. `Probes` is what `verify_notice_images` may
bring back. The history variable `blame` records the three ways in which the
stored fields may disagree: an old document not repaired yet, a repair that
wrote over a newer body, and a hash filled in for a body that was not stored.

### Html

`clean_html` on a small document tree, one action a stage. `Sweep` walks a
forest in document order as `find_all` does over the list it took, with one rule
a stage for what becomes of a node (`RemoveSelectors` ... `StripPunctuation`);
`StripSoleBold` and `MergeAdjacent` are rules on a row of siblings. `Round` is a
loop with its limit of rounds. Text is a sequence of tokens (words, digits,
punctuation, three kinds of white space), and attributes are reduced to the
declarations some stage looks at. `nh3.clean` is external: what is outside the
allow-list is unwrapped or removed. `Raise` is the `except` around everything.
`WordsSurvive` is claimed in full of `Regular` pages only; see below for the
stages that move or repeat words on others. `NothingLeftOver` speaks of what is
returned after a pass without an exception: no sanitising stage, nor the removal
of empty spans, chained divs, images and lone punctuation, nor the merge of
neighbours would change it again, unless empty elements are stacked higher than
there are rounds. It does not speak of runs of bold blocks, which a merge may
complete after they were looked for.

### Proof modules

`CrawlRunProofs`, `BoardCrawlProofs`, `TierTwoProofs`, `BusPollerProofs`,
`ProcessProofs`, `SiteProofs` and `ContentProofs` hold the theorems of the module
they are named after. `PluginProofs` holds those of `CrawlHealth`, which it
extends, and of `AiSummary`, which it extends too: that is why the names of
`AiSummary` begin with `Summary` where the other modules say `Init` or `TypeOK`. See
"Proofs".

## Runs

| run | module | checks | shows |
|---|---|---|---|
| `CrawlRun` | `MCCrawlRun` | `NoStrandedTouch`, `ImplementsDelivery`, `RunSettles` | Two sources of two pages interleave their events, flushes and failures over the shared touch buffer, one at a time and both at once: a source that returns leaves no touch behind, the buffer with its swap and its bulk writes implements the abstract TouchDelivery, and the run settles whichever of them raise. |
| `CrawlHealth` | `MCCrawlHealth` | `LatchIsWhatOperatorKnows`, `OneMessagePerOutage`, `LatchFollowsSource` | Two sources of which one fits a message, two faults of any kind at any point of a tick: an outage is alerted by one message, which may be delivered as often as it is posted; until something fails the latch counts the outage and is what the operator was told, but for what was cut off the message; and whatever fails the latch follows an outage or a recovery that lasts. |
| `BoardCrawl` | `MCBoardCrawl` | `TypeOK`, `IntactRunIsComplete`, `FullSweepIsComplete`, `FirstPageIsFresh` | Runs of either mode over a board that changes under them, with one fault of any kind: stopping early loses nothing as long as no run was cut short, an undisturbed full sweep heals every gap, and an undisturbed run stores every row its first page showed at the title it showed. |
| `TierTwo` | `MCTierTwo` | `TypeOK`, `SoftDeleteNeedsThreeMisses`, `OutageDeletesNothing`, `VanishedBodyIsKept`, `BodyConverges` | Under a strategy that lets a 404 through. Two notices under both writers, with an edit of any kind, pages that disappear one at a time or with their whole site, and one failure: the checker never blanks a stored body, a soft delete needs three misses that no check of a found page interrupts, and a site that moves, even in the middle of a pass, deletes nothing. And one notice that always has a text, every fetch answered: three edits racing both writers leave the stored body equal to the page. |
| `AiSummary` | `MCAiSummary` | `SummaryTypeOK`, `FreshSummaryIsCurrent`, `EveryNoticeSettles` | Two batches overlap over snapshots while contents are rewritten, answers fail and the process restarts: a summary that looks fresh is of the stored text, unless the checker gave the notice that hash without its text, and every notice ends summarised or given up. |
| `BusPoller` | `MCBusPoller` | `TypeOK`, `UpMeansAccountedFor`, `DwellOutlivesOutages`, `ServiceEndIsPublished` | Each of the three pollers, over an upstream that answers as it likes, with failing writes, exceptions and restarts: no document goes stale unless the source is down, a quiet night is not an outage, dwell clocks survive outages, and the end of service is published. |
| `Process` | `MCProcess` | `TypeOK`, `StartedMeansAsked`, `OnlyStartUpOverlaps`, `StopIsClean`, `HangStarvesOnlyItself`, `StopEnds` | Every configuration of four modules is wired or refused, started, ticked, stopped at any moment and started again, with a store that comes and goes and runs that hang: what runs was asked for and can work, only the run at start-up overlaps a tick, a stop leaves no run behind and no connection open, a run that hangs holds up no other module, and every stop ends. |
| `Site` | `MCSite` | `TypeOK`, `EmptyPageIsTheEnd`, `RequestsAreSpaced`, `WalkEnds` | Each of the nine list strategies over a board of two pages with every kind of row, under answers that fail in every way or hold no list, and two tasks over the one fetcher they share: a walk ends at an empty page only behind the last one, unless by a failure that its strategy is listed to take for the end; the requests of one task keep their distance, retries included; and every walk ends. |
| `Content` | `MCContent` | `TypeOK`, `FieldsAgree`, `RepairRestores`, `TierTwoKeepsSizes` | The crawl, the update checker and both repair commands write the content of one notice while its page is edited and image probes, fetches and parses fail: text, markdown and hash describe the stored body unless a known race or a damaged document explains it, a repair restores the size it found, and the checker loses no size. |
| `Html` | `MCHtml` | `TypeOK`, `WordsSurvive`, `NothingLeftOver` | Pairs of inline fragments and of blocks of every kind the stages of clean_html look for, and runs of bold blocks: no stage loses, doubles or moves a word of a regular page, no disallowed tag is returned even when a stage raises, and no sanitising stage, nor the removal of spans, divs, images and lone punctuation, nor the merge of neighbours would change a returned body again. |

### Bounds, and why they are enough

* `CrawlRun`: two sources suffice for every race on the buffer, which is
  between a flush and one sibling; two events of a source let it buffer before
  and after a flush; two pages let a failure be on the first page or a later
  one. With one slot, one source queues behind the other's failure.
* `BoardCrawl`: pages of two rows, boards of up to five articles and three
  pages have a first, a middle and a last page, a page across the floor and a
  page of pinned rows only. `MaxShift = 2` lets a whole page of posts arrive
  between two fetches. One fault and one move can fall anywhere.
* `CrawlHealth`: the threshold is the code's own 3. Counters saturate one past
  it, where the code compares with `>=` only. Two faults let a partial write be
  followed by a lost message or a second redeploy, and one message arrive three
  times. One line fits a message, so that two alerts of a tick can be cut apart.
* `TierTwo`: notices are independent but for the mass-404 ratio, so one notice
  is enough for convergence and two for the ratio. Two disappearances let a
  failure count be carried over a recovery. `MassMin` is the code's 5, but 1 in
  the run `TierTwo`, which makes a pass of two notices large enough to judge; the
  theorem about outages is for any value.
* `AiSummary`: two notices and batches of one make notices compete for a batch
  and let two batches hold the same notice. Three rewrites let a text come, go
  and come back while a batch holds a snapshot. The failures before giving up are the
  code's 3.
* `BusPoller`: one stop, because neither clock relates two of them; two buses
  there share its clock. The window is three units of time, so that a clock can
  be fresh, old, just valid and stale. Two faults let a failed write be followed
  by a restart.

* `Process`: four modules: two of one family, one that runs at start-up behind
  each gate, one with settings of its own. The environments and command lines
  are those on which two refusals or selections differ. The shutdown limit is
  one unit and the supervisor's patience two, ordered as the code's 5 seconds and
  the 10 that Docker grants by default.
* `Site`: boards of up to four rows and pages of two: a full, a partial and an
  empty page, with a pinned row, and one odd row of each kind; one board with a page of
  nothing readable before its end. `MaxRetries` is
  the code's 3. Two tasks suffice for the shared clock, whose readings are
  pairwise.
* `Content`: pages that differ in one thing at a time; one edit, one failure and
  two repairs may fall between any read and its write.
* `Html`: every pair of the inline fragments and of the blocks that some stage
  looks for, and rows of up to four bold blocks. Two rounds instead of ten put
  rows of four siblings and stacks of two empty elements exactly at the limit.

### Fairness

`CrawlRun` and the two writers of `TierTwo` assume weak fairness of each
coroutine: every await ends, because the HTTP client and the Mongo driver have
timeouts, and the event loop runs a ready task. `BoardCrawl` and `CrawlHealth`
assume that runs keep starting, which is the scheduler's cron trigger, itself modelled in `Process`;
`AiSummary` assumes the same of its batches and nothing of the AI service, which
may fail every time. Strong
fairness of `CrawlPending` and `CrawlRow` says that each run of the crawl
visits every pending notice and every row of the first page: it is not
conditional on luck, but on the loop over all of them. `BusPoller` assumes that ticks go on and
that time passes; the answers it needs are a premise of the property. `Process`
assumes that its own awaits end but for modules that hang, that ticks keep
coming and are not all dropped (strong fairness of `RunTick`: APScheduler drops
a tick only while a run of the module is going or the loop is late), and that
the supervisor kills and restarts. `Site` assumes that time passes and that
every await of a task ends, by an answer or by the request's timeout. `Html` and
`Content` state safety only. No fairness is assumed
of failures, of sites or of the board.

### Where the code and its documentation differ

These runs check a documented claim each, and TLC refutes it.

* `CrawlHealthRedeploy` refutes `LastingOutageIsAlerted` (`plugins/health/store.py:63`). record_and_alert stores alerted=True (store.py:63) before it sends the message (store.py:78), so a process replaced in between, or a notifier that gives up, suppresses the alert of that outage for good. The comment at plugins/health/logic.py:68-69 says: "`>= and not alerted` (not `==`) so a redeploy that loses a tick or a raised threshold can't permanently suppress the alert."
* `TierTwoSwallowed` refutes `GoneIsSoftDeleted` (`modules/notices/strategies/gnuboard.py:195`). crawl_detail answers every error of its fetch, the 404 included, with None (gnuboard.py:195-197, and likewise in the other eight strategies), so the checker's branch for a 404 (update_checker.py:193-196) is never taken: a missing page is one fetch error of every pass (update_checker.py:215-217) and its notice is never marked deleted. src/docs/api-design-reference.md:53 says of isDeleted: "원본에서 사라지면 soft delete" (a notice that disappears from its origin is soft-deleted); :131 and src/docs/notice-schema.md:30 say the same.

Seen while modelling, by reading the code, and not given a run of their own.
The crawl and its store:

* After a run was cut short behind page 0, every later incremental run meets a
  page of known rows and stops there, so the rows behind it are stored only by
  a full sweep. `docs/crawl-flow-guide.md:105-106` says that there is no need to
  go further back. This is why `IntactRunIsComplete` asks for intact runs.
* A notice crawled with a body that sanitises to nothing has content but no
  hash; when the page is filled in, tier-2 takes the hash-backfill branch
  (`plugins/mongo/update_checker.py:271`) and stores the hash of a body it does
  not store. `docs/api-design-reference.md:49` calls `contentHash` the SHA256 of
  `cleanHtml`. From then on every pass finds the page unchanged, and the crawl takes
  the notice for complete: its body stays blank until its title or page changes.
* If the crawl stores that body after all, a summary that was made of the old text
  with the backfilled hash looks fresh for ever: the exception of
  `FreshSummaryIsCurrent`. `find_stale_summaries` (`plugins/ai_summary/query.py:50`)
  compares the hashes alone.
* The library board answers an outage with an empty page
  (`modules/notices/strategies/pyxis_api.py:36-38`), so it is never reported down
  and a walk of it ends as if complete. WordPress does the same with any 400
  (`modules/notices/strategies/wordpress_api.py:95-96`), a Webflow board without a
  page token (`modules/notices/strategies/webflow_skku.py:67-69`), and every
  strategy with an answer of status 200 that holds no list: the exceptions in
  `EmptyPageIsTheEnd` (`PassForTheEnd`).
* A page whose rows all lack what the strategy reads (no link, say) is taken for
  the end of the board, and what stands behind it is not crawled: the premise
  `PagesHoldArticles` of that property.
* The delay between requests (`docs/cli-usage.md:78`) is kept between the
  requests of one source; those of different sources may coincide, because
  `_rate_limit` reads the clock before it sleeps (`shared/fetcher.py:47`).
* A crawl that refetches a retitled notice passes no known dimensions, so a slow
  image host takes a size away that had been measured, which
  `modules/notices/stages.py:127-132` keeps tier-2 from doing.
* The repair of dimensions writes the fields that differ from what it read and
  does not check that the document is still that one
  (`plugins/mongo/repair.py:117`): with a crawl in between, fields of two bodies
  end up in one document (`blame = "repair"` in `Content`).
* The repair of attachments takes an answer that parses to nothing for an empty
  list, if the strategy returns one, and overwrites the stored links with it;
  `plugins/mongo/repair_attachments.py:62-64` says that such an answer is
  "counted, never written". An empty detail of a retitled notice does the same
  in the crawl, until it is refreshed.
* A body at the size limit changes between stored and dropped with the outcome
  of the image probes.

HTML:

* `_convert_pre_to_paragraphs` reads the text of a `<pre>` with that of its child
  elements and appends those elements as well: a link inside a `<pre>` is there
  twice. A `<br>` in it is no gap: the words before and after it are glued together
  (the tokens of `Html` keep them apart).
* `_unwrap_naver_smarteditor_tables` empties the cells of a nested table after
  the outer cell: what stands behind the nested table comes before its contents,
  not "in document order" (`shared/html_cleaner.py:228`), and a nested data table
  loses its structure. What a layout table holds outside its cells is dropped (no
  page of the run has such words).
* Runs of bold paragraphs are looked for before neighbouring emphasis is merged
  (`shared/html_cleaner.py:532-533`): three paragraphs of two `<strong>` each come
  out all bold.
* The cleanup removes empty cells of data tables, so columns can shift.

The process:

* `docs/crawl-flow-guide.md:25` says that `max_instances=1` rules out overlapping
  runs; the run at start-up is not counted, which is the exception in
  `OnlyStartUpOverlaps`.
* When the database is down, the summary run at start-up raises and the process
  ends without shutting its modules down.
* A SIGTERM before the handlers are installed takes the default action, or none
  if the process is the first of its container, until it is killed.
* `health-summary` on the command line passes no probes, so it always reports
  zero problems.

The health hook, the checker, summaries and bus:

* A message about a dozen or more sources is cut at 2000 characters
  (`plugins/discord/webhook.py:53-54`): the sources behind the cut are latched as
  alerted, and nobody is told, although nothing failed. `LatchIsWhatOperatorKnows`
  says that this loses nothing else.
* A post that timed out is repeated (`plugins/discord/webhook.py:38-40`), so one
  outage may be alerted up to three times, by copies of one message.
* A source of fewer than five notices in the window is never judged by the share of
  its missing pages (`plugins/mongo/update_checker.py:319`): under a strategy that
  lets the 404 through, three passes of an outage would delete them all.
* A page that sanitises to nothing leaves the failure count of its notice as it is
  (`plugins/mongo/update_checker.py:256-264`), so the three misses of a soft delete
  need not be in a row.
* With one failing fetch `BodyConverges` no longer holds: a pass whose snapshot
  holds a null hash, and which meets a crawl that has just refilled the notice,
  stores the new hash beside the old body, and later passes see no change.
* A source whose coroutine raised is not among the results of the tick, so its
  failure count neither rises nor falls.
* Past the last regular row of a board with pinned rows, a full sweep fetches
  pages of pinned rows only, up to the page limit.
* A text kept from a body that was dropped has no hash (`fallback_text`,
  `modules/notices/stages.py:234`), so when it is replaced by another such text
  its old summary looks fresh: `FreshSummaryIsCurrent` speaks of texts with a
  hash only.
* A notice given up after three failures stays given up when its text changes:
  nothing but a summary resets `summaryFailures`.
* A shuttle is dropped ten minutes after its *first* sighting at a stop, and
  comes back one tick later with a new one; the comment at `modules/bus/hssc.py:25`
  speaks of its last sighting.
* The clock of a station runs on when its bus leaves, so the next bus within ten
  minutes inherits the dwell (`modules/bus/jongro.py:159`).

## Proofs

TLAPS checks the following for every value of the constants.

| module | theorem | property | establishes |
|---|---|---|---|
| `CrawlRunProofs` | `TypeCorrect` |  | Type correctness of a run, for any number of sources, pages and slots. |
| `CrawlRunProofs` | `TouchSafety` |  | Every touch handed in is in exactly one place, in every interleaving of flushes. |
| `CrawlRunProofs` | `NothingStranded` | `NoStrandedTouch` | A source that returned has sent every touch it handed in. |
| `CrawlRunProofs` | `CleanRunSafety` |  | A run in which every source returns writes every touch. |
| `CrawlRunProofs` | `InsertedCounts` |  | The inserted counter is the number of notices a source's run added. |
| `CrawlRunProofs` | `DownSafety` |  | A source reported down delivered no page. |
| `CrawlRunProofs` | `DeliveryRefined` | `ImplementsDelivery` | CrawlRun implements TouchDelivery: a touch is settled once and dropped only by a bulk write that raised. |
| `PluginProofs` | `TypeCorrect` |  | Type correctness of the health hook under any failures. |
| `PluginProofs` | `LatchSafety` |  | A source is latched only past the threshold. |
| `PluginProofs` | `AlertSafety` | `OneMessagePerOutage` | An outage is alerted by one message at most, whatever fails and whenever the process is replaced; the message arrives no more often than it is posted. |
| `PluginProofs` | `LatchIsKnown` | `LatchIsWhatOperatorKnows` | Until something fails, a source is latched exactly from the threshold of its outage on, and its operator was told exactly then, unless its line was cut off the message; for any number of sources. |
| `PluginProofs` | `SummaryTypes` | `SummaryTypeOK` | Type correctness of the summary batches, for any notices, batch size and limit: a list is no longer than a batch, and no notice is counted more than one failure past the limit. |
| `PluginProofs` | `SummaryIsCurrent` | `FreshSummaryIsCurrent` | A summary that counts as fresh was made of the text that is stored, with two overlapping batches, lost writes and restarts, for any notices; unless the update checker gave the notice that hash without its text. |
| `BusPollerProofs` | `BusPollerTypeOK` | `TypeOK` | Type correctness of a tick and of what is remembered and published, for any pollers. |
| `BusPollerProofs` | `FreshIsPublished` |  | No write publishes a sighting past its window, however long the upstream repeats it or was out of reach. |
| `BusPollerProofs` | `UpReportIsComplete` | `UpMeansAccountedFor` | A tick reported as up wrote every document or was told that nothing runs, for any pollers. |
| `BusPollerProofs` | `DownReportIsFailure` |  | A source is reported down only when something failed in the tick. |
| `BusPollerProofs` | `WrittenInFull` |  | No document is written from part of its fetches. |
| `BusPollerProofs` | `ClockOutlivesOutages` | `DwellOutlivesOutages` | The clock of a station starts anew only past its expiry or in a new process, whatever upstreams and writes do. |
| `ProcessProofs` | `ProcessTypeOK` | `TypeOK` | Type correctness of a process, for any modules and requirements. |
| `ProcessProofs` | `ProcessStartedMeansAsked` | `StartedMeansAsked` | A process serves only modules its configuration asked for and can supply, for any registry. |
| `ProcessProofs` | `ProcessOnlyStartUpOverlaps` | `OnlyStartUpOverlaps` | Two runs of one module overlap only when one of them is the run at start-up. |
| `ProcessProofs` | `ProcessStopIsClean` | `StopIsClean` | A process that ends by its own handler leaves no run behind and no open connection, within the shutdown time. |
| `TierTwoProofs` | `TierTwoTypeOK` | `TypeOK` | Type correctness of the two writers, for any notices, edits and outages. |
| `TierTwoProofs` | `DeletionSafety` | `SoftDeleteNeedsThreeMisses` | A notice is soft-deleted only after three misses in a row, however crawl and passes interleave. |
| `TierTwoProofs` | `VanishedSafety` | `VanishedBodyIsKept` | The update checker never blanks a stored body, even one written since its snapshot. |
| `TierTwoProofs` | `OutageSafety` | `OutageDeletesNothing` | One move of a whole site deletes nothing, for any notices and any order of crawl and passes, as long as every pass is large enough for the share of missing pages to be judged. |
| `SiteProofs` | `SpacedRequests` | `RequestsAreSpaced` | Requests of one source keep their distance, retries included, for any tasks, sites and answers. |
| `SiteProofs` | `TypeCorrect` | `TypeOK` | Type correctness of the walks, for any tasks, boards, strategies and answers. |
| `SiteProofs` | `EmptyPageEndsTheBoard` | `EmptyPageIsTheEnd` | Under each of the nine strategies, a walk that ended at an empty page has read every row it can read, each unpinned one once and no other, if no failure came up that its strategy cannot tell from the end of a board (PassForTheEnd). |
| `ContentProofs` | `StoredFieldsAgree` | `FieldsAgree` | Whichever of the writers was last, the stored text, markdown and hash are those of the stored cleanHtml, which fits; but for the three kinds of blame. |
| `ContentProofs` | `RepairIsRight` | `RepairRestores` | A repair of dimensions that wrote what it read leaves fields that agree and the image at the size its old markdown had kept. |
| `ContentProofs` | `SizesAreKept` | `TierTwoKeepsSizes` | A check of the notice it read never takes the size off an image that stayed, for any pages, probes and writers in between. |
| `ContentProofs` | `TypeCorrect` | `TypeOK` | Type correctness of what is stored and of what each writer holds. |
| `BoardCrawlProofs` | `TypeCorrect` | `TypeOK` | Type correctness of the walk, for any board, page size and page limit. |
| `BoardCrawlProofs` | `StoppingEarlyLosesNothing` | `IntactRunIsComplete` | Whichever stop ends a run, nothing of the board it began with is left unstored, as long as no run was cut short. |
| `BoardCrawlProofs` | `FullSweepHeals` | `FullSweepIsComplete` | An undisturbed full sweep stores everything the board had, whatever gaps earlier runs left. |
| `BoardCrawlProofs` | `FirstPageStaysFresh` | `FirstPageIsFresh` | An undisturbed run stores every row of its first page at the title it showed. |
| `BoardCrawlProofs` | `StoreNeverGoesBack` |  | A stored title is never replaced by an older one, nor ahead of the board, in runs of either mode with any faults and edits. |

**CrawlRun.** The inductive invariant `RunInv` is `TypeOK` with two groups.
`TouchInv` adds to `TouchesConserved` that a source has touches in flight only
while it awaits their write (so a swap never overwrites a flight), that a source
in its final flush has none in the buffer, that touches are lost only with a
source that failed, and that gather comes last. `CountInv` adds that touches are
counted (so a new touch has an unused number), that nothing leaves the
collection, and that a source is reported down only on its way out.
`TouchesConserved` alone is not inductive: a swap would need to know that the
flight it overwrites is empty. The step lemma has one case per action, grouped
by what an action disturbs (`MoveKeeps`, `EventKeeps`, `FlushBegins`,
`FlushSettles`, ...). Assumptions: the slots, `MaxPages`, `MaxEvents` are numbers
and `Article` is finite (for the cardinality in `InsertedIsNewNotices`).

`DeliveryRefined` maps each step to `HandIn`, `Deliver`, `Fail` or a stutter. A
source that raises outside a flush is a `Fail` of the empty batch.

**BoardCrawl.** `IntactRunIsComplete` alone says nothing of a run underway and is
not inductive. `Walk` describes one that nothing has disturbed: the board is that of
its start with newer posts on top (`CleanBoard`); an article it owes is stored or
lies at the next list page or deeper (`Deeper`), and is stored already when the
present page will end the run (`BelowFloorPage`, `KnownPage`). Between intact runs
nothing older than a stored article is missing (`NoGaps`); within one, a stored
article that has something missing below it is one the run has passed (`Covered`),
and a post of the run that it has not got is newer than all it got (`NewPosts`).
The argument is about ranks: a page is a window of them, every rank below the
number of rows is taken (`EveryRankIsTaken`, by counting, without induction), and
a post moves each rank down by one. Fewer posts than a page hold (`shifted`) fall
between two fetches, so a full page of known rows contains one the run has not
passed, below which nothing is missing: the run may stop.
`FirstPageIsFresh` needs less: `Versions`, titles only move forward, and `FirstRows`,
a row of page 0 is still to come or was processed. Assumptions:
pages of at least one row, a page limit of at least one (the code reads 0 as its
default), and the bounds are numbers.

**CrawlHealth.** `HealthInv` adds to `TypeOK` and `LatchNeedsThreshold` that
an outage that was seen is latched (`SeenAreLatched`), that `prev` still equals the
collection when the states are written (ticks do not overlap), that an up report
closes the outage before its state is written, and that the message in hand names
only sources that are latched and were seen in its own copies alone
(`PendingAlertsAreNew`). From the last, `OneMessagePerOutage` follows step by step. `LatchInv` says what `LatchIsWhatOperatorKnows` is in the
middle of a tick, until something fails: before the write the latch is what the
operator knows and the streak is one ahead; after it the latch is what the
operator will know once the message has arrived, but for the sources in `cut`.
Assumptions: `Threshold`, `MaxAttempts` and `LinesThatFit` are positive and
`MaxCount > Threshold`.

**AiSummary.** `FreshSummaryIsCurrent` alone is not inductive: it says nothing of
the snapshots that a batch still holds, which a later step stores. `HashesAgree` says
that where a text and a hash are kept together, with a notice, a summary or in a
list, the hash is that of the text, or there is none, or it is one the notice was
given without its text (`foreign`, which only grows); whatever the two batches and
the writers of contents do in between, a summary whose hash equals the stored one
and is not of the last kind is then a summary of the stored text. Type correctness needs `AttemptsLeft`: a
batch takes up a notice only below the limit of failures, each list holds it once
and there are two batches, so no notice fails more than once past the limit. That
places are distinct and below `BatchSize` is by rank (`Ahead`) among finitely many
notices. Assumptions: the notices are finitely many, the batch size and the limit
positive, the bounds numbers.

**BusPoller.** `TickInv` adds to the three properties that every document behind
the present one is accounted for or there is an error, that every leg behind the
present one was answered or there is an error, and that an error means a failure.
`NextDocumentKeeps` and `NextLegKeeps` show it for what all answers have in
common. `PollerInv` adds `TypeOK` and that a poller with a station
remembers no more than its one clock (`StationMemory`). `DwellOutlivesOutages`
follows from it step by step: each action leaves the clock, starts it or lets all
its ages grow. It is also why what the station publishes, which is the age of that
clock, is never stale (`NothingStaleIsPublished`; for the shuttle, `TimelyFacts`
shows it of every list of ages, by the ranks of the rows that stay). Assumptions: a poller is a
non-empty sequence of documents with different names and at least one leg each,
and none keeps both kinds of memory (`_previous` is in `hssc.py`, `_dwell` in
`jongro.py`).

**Process.** `PhaseInv` says what each phase leaves behind: a run is awaited only
while the process starts, timer runs exist only while the timer is on, modules
are shut only after a stop that was handled and for no longer than the limit,
and a process past its start has what an accepted deployment builds. The last
gives `StartedMeansAsked`, by unfolding the refusals once; the second and the
limit on `pending` give `OnlyStartUpOverlaps`; the third gives `StopIsClean`, a
property of steps. The lemmas follow the phases (`StartIInv`, `TimerIInv`,
`StopIInv`). Assumptions: families share no module name, `Rank` orders the
modules, the shutdown limit is shorter than the supervisor's patience.

**TierTwo.** `IInv` adds to `TypeOK` what a pass relies on. `PassInv`: a notice
whose check is still to be written is not deleted and has the failure count its
snapshot has, for the crawl writes no count and the pass takes each notice once;
a notice in the second pass is not deleted and awaits no check. `CountInv`: a
failure count is at most the history of misses, and a notice is deleted exactly
when it is at the limit. `SoftDeleteNeedsThreeMisses` alone is not inductive: a
count could run ahead of the misses, and a pass that clears it by its snapshot
could miss a raised one. `SnapshotCountIsCurrent` states that part on its own.
`OriginInv` bounds what a page shows by the edits so far, which type correctness
needs. `VanishedBodyIsKept` is read off the five outcomes of a check. Assumptions:
the bounds are numbers, and disappearances stay among the notices.

`OutageDeletesNothing` rests on `OutageInv`, which counts the misses of a notice
whose page can only go with its whole site. A pass that runs inside the outage
finds every page missing and is not counted; so at most two passes count one, the
pass that the outage began in and the pass that it ended in, and three are needed.
The theorem has the premise that a pass takes up at least `MassMin` notices
(`PassIsJudged`): the share of missing pages is not judged below that, so a
site of fewer than five notices may lose them to three passes of an outage (under
a strategy that lets the 404 through).
It assumes finitely many notices, and that pages disappear alone or with the
whole site.

**Site.** `SpaceInv`: the last request of any task is no older than a task's own
last one, and the time since that together with what a waiting task still has to
sleep reaches the distance to keep. It is why one look at the shared clock is
enough for a task's own requests, though not for the run's. A step of a task
changes its own place alone (`OneTask`, `FetchKeeps`, `MoveOn`), and the boards
and strategies play no part in it.

For `EmptyPageIsTheEnd` they do. `WalkInv`: a walk underway has read exactly the
readable rows above its page, and has a page token if it needs one, unless the
first page did not show it; one that ended at an empty page has read the board. Pages tile a board (`PagesTile`), and
`ListFacts` says of each of the nine strategies that its answer is the readable
rows of one page, with the pinned ones on the first, so that an empty answer
leaves nothing behind it (`EmptyPageEnds`). The property has its exceptions as
premises: the failures in `PassForTheEnd` of the strategy, and a board where
`PagesHoldArticles` fails. `FailureEnds` is the step at which a failure ends a walk: as a
failed one, or as one of those, or with nothing left to read.

Assumptions: the times and `MaxRetries` are positive; what a task crawls is typed
(`PlansAssumption`); powers of two are positive and grow (`DoublingAssumption`),
which the provers cannot derive and TLC evaluates.

**Content.** One lemma for each stage says which fields it sets, and `DeriveResult`
and `FieldsResult` put them together: whatever the probes bring back, the fields
derived from a body describe it. `FieldsAgree` alone is not inductive, because a
writer holds its fields between its read and its write. `WritersAgree` says that
what a writer holds agrees, `NoticeStays` that what it read is still there, and
`TierSizes` and `RepairSizes` that the fields held keep or restore the sizes of
what was read; the action properties follow from these at the write. Assumptions:
there is an image address, `NoImage` is none, pages are typed, and the bounds are
numbers.

Some theorems name no run's property: type correctness of `CrawlRun` and
`CrawlHealth`, the invariants that the proofs above need or that follow from
the refinement, and two properties that are stated beside their proofs
(`NothingStaleIsPublished`; `StoreOnlyAdvances`, which is read off `Versions`). They
are proved for every instance and not model-checked again.

Model-checked only: `Html`, which is written with recursive operators over trees,
out of the provers' reach; and every liveness property (`RunSettles`,
`LatchFollowsSource`, `BodyConverges`, `EveryNoticeSettles`,
`ServiceEndIsPublished`, `HangStarvesOnlyItself`, `StopEnds`, `WalkEnds`). Every
other safety property of a run has a theorem.

## Not modelled

* **Dispatch notification**: One webhook at the end of a tick with its own bounded retries; it returns nothing and changes no state.
* **Configuration data and validation**: Static checks of a JSON file at start-up; no state.
* **Health probes and daily summary**: Reads collections and sends one message a day; no state of its own.
* **Library API**: A second driver of the same event stream, without a store; the in-memory sinks and the contract test helpers.
* **Command line and logging**: Pure input and output around the operations above.

Left out of the modelled parts:

* strategies: the fields of a row, dates, view counts; a detail page that answers
  200 with an error text; the expiry of a Webflow token within a run;
* fetcher: the redirects of a request, which the client follows without the delay
  (`shared/fetcher.py:44`);
* crawl run: the `prepare` calls before the tasks, which may raise;
* bus: which header code of an upstream means that nothing runs
  (`modules/bus/module.py:214`); the model takes the classification as given;
* health: the time between two posts of a message, and the limit on it;
* pipeline: more than one image to a body, titles and dates of `build_notice`,
  the Markdown text;
* wiring: the objects that are built, and five of the nine modules;
* scheduler: the wording of missed ticks, and a grace time that is not a number.

## What could follow

1. `NoticesCycle`, which would compose `CrawlRun` and `CrawlHealth`, so that the
   reports of the health hook are the results of the run.
2. `html_to_markdown` over the same trees as `Html`, and `has_changed` with
   truncated titles as an operator checked against a reference definition.
