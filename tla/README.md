# Stance Radar: formal model

TLA+ models of Stance Radar, checked with TLC and proved with TLAPS. They cover
what its tests reach least. In the backend: the two pipeline lanes that share
the `videos` table with each other and with the api, the pauses a lane puts on
itself, the job slot that two processes share, and what the listing jobs write
while channels and playlists change under them. In the frontend: what a page
shows, promises and sends while answers are late, refused or lost, the session
lapses, and the data changes behind the api. Paths below are relative to
`backend/app/` unless they start with `frontend/`; names of `.tsx` files are
those of `frontend/components/`.

To run: `tlc -config MCLanesSlots.cfg MCLanes.tla` (and so on for each row of
*What the runs show*), `tlapm LanesProofs.tla` (and the other seven modules named
`...Proofs`) for the proofs.

## The system

Five containers: Next.js, the `api` (FastAPI), `worker` (YouTube side),
`worker-analyze` (claude side) and Postgres. Nothing is shared between
processes but the database; inside a process, asyncio tasks interleave at every
`await`.

| Component | State it keeps | Operations | What makes it correct | Model |
|---|---|---|---|---|
| Pipeline lanes (`pipeline/lanes.py`, `lane_factory.py`, `stages.py`) | `in_flight` tasks in memory; `videos.status`, `claimed_at` | `startup`, `_fill`, `_handle`, `_record`, `_maybe_throttle`, `_cancel` | a video is worked on once; claims end; queues drain; a pause stops claims | `Lanes` |
| Lane store (`pipeline/lane_store.py`) | `pipeline_lanes` rows | `claim_next`, `release_claims`, `fail_video`, `record_*`, `pause`, `resume`, `pause_for_limit`, `resume_if_due` | each reason of a pause is lifted by what it waits for | `LaneStore`, `Lanes`, `LanePause` |
| Transcript stage, analysis stage | attempts, transcript, error, claim of a video | `process`, `_stamp_attempt`, `_write`, `_persist`, `_fail`, `_give_back` | the result and the end of the claim in one commit; attempts counted once | `Lanes` |
| Usage throttle (`pipeline/usage_throttle.py`, `analysis/llm.py` `_limit_reset`) | none (pure) | `throttle_until` | waits neither too short nor too long | `UsageThrottle`, `LanePause` |
| Requeueing (`pipeline/queueing.py`, `api/videos.py`, `scripts/reanalyze_stale.py`) | none; re-status of videos | analyze, skip, retry, reanalyze | never under a live slot; back to the lane that needs it | `Lanes` |
| Jobs (`pipeline/jobs.py`, `worker.py`) | `jobs` rows, an advisory lock | `enqueue_job`, `claim_next_job`, `finish_job`, `fail_orphan_jobs`, `JobWorker` | one runs at a time, each runs once, waiting work survives restarts | `Jobs`, `JobSlot` |
| Refresh runner, scheduler (`pipeline/refresh.py`, `scheduler.py`) | `current_task`; ingested videos | `enqueue`, `start`, `run_job`, `_run_discover`, `_run_load_older`, `run_once` | every channel is listed; every new upload arrives, with the right status | `Listing`, `Jobs` (job life cycle), `Lanes` (ingested rows) |
| Channels api (`api/channels.py`) | `channels` rows | add, update, load older, delete | a new channel gets its discover | `Listing`; the cascade of delete in `Lanes` |
| Pipeline api and snapshot | none | pause, resume, read | what a person sees is what is there | pause, resume in `Lanes`, `LanePause` |
| Price store (`market/store.py`) | `price_bars`, `price_coverage` | `ensure_daily` | covered means fetched | not yet |
| LLM client, prompts (`analysis/`) | none | run `claude`, parse its answer | which errors are the video's, which the process's | outcomes only |
| YouTube client (`youtube/client.py`) | none | `list_new_uploads`, `list_older_uploads`, `get_durations` | a walk stops at the right place | the two walks, page by page, in `Listing` |
| Transcript client, proxies | rotation of proxies | fetch | blocks are retried | outcomes only |
| Ticker validation (`analysis/http_tickers.py`) | a cache | `is_valid` | a wrong answer does not stick | not yet |
| Insights (`insights/`) | none (pure) | scorecard, watch score; track record | calls collapse and score as documented | `track_record.py` in `TrackRecord`, the rest not yet |
| Read endpoints, wiring, migrations | single rows | reads | plain | not modelled |
| Admin session (`auth.py`, `api/admin.py`, `admin-provider.tsx`, `unlock-dialog.tsx`, `settings-menu.tsx`) | the cookie; `enabled`, `authenticated`, `ready`, the dialog | unlock, lock, expiry, renewal, `handleAuthError` | a page becomes unlocked only through a login the api accepted | `AdminSession`, `Session` |
| Refresh button (`refresh-button.tsx`) | SWR of the job, `pollMs`, `wasRunning` | trigger, poll, reread the lists | the end of a job it saw is noticed | `RefreshButton` |
| Channel page (`channel-detail.tsx`) | selection, filter, `busy`; in SWR's cache the channel and a list per filter | act, toggle, load older | the list shows one's own write; the page is usable again | `ChannelPage` |
| Paged lists (seven components with `useSWRInfinite`) | pages, size, error | next page, filter, revalidate, announced change | a list that ends has shown everything | `PagedList` |
| Import inbox (`pipeline/inbox.tsx`) | ticks, defaults, open groups | default, tick, submit | nothing unseen is skipped | `ImportInbox` |
| Pipeline page (`pipeline/*.tsx`, `failed-videos.tsx`, the chip) | snapshot, drawer, filters | pause, resume, retry | buttons act on what is shown | `PipelineView` |
| Video page (`video-detail.tsx`, `reanalyze-button.tsx`) | detail, the button's phase, a watch | analyze again, poll, reread | the outcome of a watched video is shown | `VideoPage` |
| Dialogs (`holdings-dialog.tsx`, `add-channel-dialog.tsx`, `api/holdings.py`) | holdings, forms | add, remove, tell the lists | every list hears of a change | `Dialogs` |
| Track record (`frontend/lib/track-record.ts`, `channel-track-record-chart.tsx`, its picker) | slots, range, view, scale, the drawn chart | select, rebuild, hover | what is drawn is what is selected; no stretch of a line is lost | `TrackRecord`, `TrackRecordChart` |
| Stock page (`stock-view.tsx`, `price-chart.tsx`, `mentions-table.tsx`, `frontend/lib/markers.ts`) | range, filters, hover, the chart's layers | four effects, click, hover | the layers agree with the bars below them | `StockPage` |
| Other views, ui kit, routing | a tab, an input | show one answer | plain | not modelled |

How they interact. The api re-statuses videos (`pending`, `transcribed`) and
the lanes poll for them: the status *is* the queue. `worker` runs the transcript
lane, the `JobWorker` and the auto-refresh scheduler in one event loop, and any
of them that raises takes the process down (`_run_until_failure`);
`worker-analyze` runs the analysis lane. Docker restarts both
(`restart: unless-stopped`). The api enqueues listing jobs that the `JobWorker`
claims; the scheduler enqueues and runs its own. The frontend reads the api
through SWR, a cache of answers by key; its pages share that cache and the
admin session and nothing else. Components that must hear of each other's
writes do so by `mutate` with a filter of keys, by a bound `mutate` (a filter
never sees the `$inf$` keys of paged lists), or by a window event.

The hard behaviour: slots, requests and restarts that race for a row; state
read before an `await` and used after it (retry's ids, `_persist`'s video,
`is_paused`); a cancellation or a failed commit in any of the steps of a slot;
a commit whose answer is lost; reports of slots that were in flight when the
lane paused; a process dying with claims in the table; a listing job whose
channels are deleted, added or switched, and whose playlists grow, while it
walks them. In the browser: an answer that was read before a write and arrives
after it; an `await` across which the selection, the session or the component
itself goes away; effects that rebuild what others have drawn; pollers that
wait for the end of work somebody else owns. `PROJECT.json` lists each
at its line under `hazards`, with the properties that watch it.

## Modules

    LaneStore ---- Lanes ---------- MCLanes      (5 configurations)
        |            \------------- LanesProofs
        |---- UsageThrottle -- LanePause ------ MCLanePause (2)
        |                         \------------ LanePauseProofs
        \---- LaneStoreProofs ---/ (lemmas, used by both)
    JobSlot <- (refinement) - Jobs ------------ MCJobs (2)
                                \-------------- JobsProofs
    Listing ----------------------------------- MCListing (2)
        \-------------------------------------- ListingProofs

    Session <- (refinement) - AdminSession --------------------\
       \---- RefreshButton, ChannelPage, ImportInbox,           \
             PipelineView, VideoPage, Dialogs ------------------ Site -- MCSite (1)
    Rows - PagedList, StockPage, ------------------------------/
           TrackRecordChart (with TrackRecord)

    AdminSession, ChannelPage, ImportInbox, Dialogs, PagedList - PagesProofs
    TrackRecord, TrackRecordChart, StockPage, PagesProofs ------ ChartProofs
    Site, ChartProofs ------------------------------------------ SiteProofs

**LaneStore** has a lane's row as a record and every UPDATE of `lane_store.py`
on it as a function, so that `Lanes` and `LanePause` speak of the same code.
`paused`, `pause_reason`, `consecutive_failures` and `resume_at` are kept;
columns that are only displayed are not.

**Lanes** is the core. `row` is the videos table (status, whether a transcript
is stored, which lane wrote `error_message`, `claimed_at`), `attempts` the two
counters, `lane` the `pipeline_lanes` table. `loop[l]` is where lane `l`'s
`_run` is and `slot[s]` where the task of in-flight place `s` is:

| `slot[s].pc` | code |
|---|---|
| `created` | task created, `_stamp_attempt` not committed |
| `calling` | `client.fetch`, or `llm.analyze` and `_validate` |
| `writing`, `committing` | `_write`, `_fail`; `_persist` before and after `session.get` |
| `givingBack` | `_give_back` |
| `failing` | `fail_video` after a stage crash |
| `recording`, `throttling` | `_record`, `_maybe_throttle` |
| `done`, `raised` | ended, not collected by `_run` yet |

A step is one committed transaction, or one return to the event loop between
two of them. `slot[s].cancel` is a requested cancellation: it may land in the
long call (which gives back), in any other await (which gives nothing back), or
behind a transaction that still commits. `chosen` holds the ids that
`retry_failures` or `reanalyze_stale` selected and has not requeued yet.
Faults are actions: a fatal claude crash, a transaction that raises, one that
commits and raises, a loop that raises, a killed container. `late` and `ended`
are history: claims since a lane was last running, outcomes written per video.

**UsageThrottle** and **LanePause** look at one lane's pauses with a clock that
moves: `Lanes` lets any clock reading happen at any time, which is enough for
claims, but not for "until the window resets". `LanePause` keeps the instants
apart at which the code reads the clock (in `_fill` before its session opens, in
`_maybe_throttle`) and at which it writes.

**Jobs** is `jobs.py`, `RefreshRunner.enqueue/start/run_job`, the scheduler and
the `JobWorker`. An enqueue is three steps (lock, check, insert), and another
process may do anything between them that the advisory lock allows. **JobSlot**
is the abstract promise, one job at a time, each once; `Jobs!OneJobSlot` is
`JobSlot!Spec` with the status column as its state.

**Listing** is `_run_discover` and `_run_load_older` over the channels and
videos tables, with the two walks of the YouTube client, the channels api and
the scheduler's round. An upload is its position in the channel's history, so
"newer" is `>`. A walk reads a page at a time (`ReadPage`): `job.off` is the page
token, a position in a list that YouTube may lengthen at the top or shorten
anywhere before the next request; `job.found` is what it has collected, and
`job.again` what it has collected twice, which makes the insert fail
(`CommitFails`). The job slot is that of `Jobs`, seen from its holder (`job.pc`):

| `job.pc` | code |
|---|---|
| `free` | no running job; an `enqueue` is accepted |
| `queued` | a row nobody has started |
| `next` | between two channels; `job.todo` and `job.auto` are the channels as read at the start |
| `listing` | `known_ids` read, some pages too, the walk not done |
| `commit` | walked, the rows not committed |

`channel[c].listed` is `last_refreshed_at` not being null. `adding` holds
channels whose `add_channels` has committed and not enqueued its discover; a
crash of the api may leave one there for ever. `base` and `odd` are history:
how many uploads the channel had when it was added, and which of four things
happened to it that its rows do not show: a load_older met uploads newer than
every known one (`dug`); a walk met no known video (`lost`: all unlisted, or
behind the page cap); the list slid under a walk between two of its pages
(`slid`: an upload it had read was removed, so that the next page skips one; or a
whole page of uploads was published, so that the next one is all new); the channel
was deleted and added again under its walk (`readded`).

**Session** is what a page may rely on of the admin session: `cookie` (the api
would accept a write) and `authed` (the browser believes so). It lapses at any
time, and a refused write locks the page. **AdminSession** is the provider with
its dialog and menu, answer by answer; `AdminSession!ImplementsSession` is
`Session` with the same two variables.

**The pages.** Each module is one page or one kind of component, with the api
behind it reduced to the rows it reads. A handler is cut at its `await`s: the
click, what the api does, the answer, the refresh that follows, its end.
SWR is modelled from how the code uses it (external definitions): a fetch starts
on mount, on focus, again after an error, or by `mutate`; a newer fetch throws
the answer of an older one away. Where a property turns on data that is older
than its answer, the api's read and the answer are two steps: the lists of
`ChannelPage` and `PagedList` (each page is read by itself, and all are shown with
the last), the detail and the watch of `VideoPage` (`DetailServed` and
`VideoFetched`, `WatchServed` and `WatchAnswered`), the dialogs; the charts take
any answer from a list of successive ones. Elsewhere (the detail of the channel, the
polls of the refresh button, of the inbox and of the pipeline page) a read is one step
with its answer. `read`, `seen` and `own` in the caches are history: whether the data
is as new as the last change, or as the page's own last write.

| Module | A step is | Hard part |
|---|---|---|
| `RefreshButton` | a poll, a click, an answer, the job's life behind the api | the edge from running to ended is seen by two reads only |
| `ChannelPage` | a part of `act`, `toggleAutoAnalyze` or `loadOlder`; a page of the fetch of a filter's list, its end; a filter, a scroll | the filter `mutate` misses the lists, the bound one rereads a single list |
| `ImportInbox` | a poll, the default effect, a tick, one of submit's two requests | ids that arrive between the look and the click |
| `PipelineView` | a snapshot, a lane click, the drawer, its summary, a retry | buttons act on an older snapshot |
| `VideoPage` | the request, a poll of the watch and its answer, `onDone`'s read, unmounting | a watch outlives the status it waits for, a request its button |
| `Dialogs` | a part of `add`, `remove`, `submit`, SWR's dedup of a fetch under way | the read that was under way at the write |
| `PagedList` | one page of a fetch, its end, a sentinel, a filter, an announced change | seven lists, four rules for "there is more" |
| `TrackRecord` | none: operators of `build_runs` and `lib/track-record.ts`, evaluated on every input | calls between bars, on the last bar, outside the window |
| `TrackRecordChart` | a click (a selection or range whose answer is cached is shown at once), an answer, and every effect it triggers, in order | which effect rebuilds, which patches |
| `StockPage` | a click, an answer (also one of a range that was left, or with other bars), the chart's four effects in order | effects that drop each other's layers |

In `ChannelPage` every filter is a key of SWR's cache with its own pages, size and
fetch. A filter that was shown before comes back as it was left, and only page one
of it is read again; `mutateVideos()` marks the list of the click to be reread in
full (`again`) and fetches the one that is shown by then. `chOld` sets apart the
lists that may, for that reason, keep a page older than the page's last write.
`PagedList` has one list beside the one shown (`pgOther`: the other filter's pages
and size), and gives up the fetch of a list when it is left; in the code that
fetch ends in the cache of its own key.

**Rows** has `Kept`, what `Array.filter` and a list comprehension keep of a list.
It is written with `FlattenSeq` rather than `SelectSeq`, which has no definition
that the provers can expand.

**Site** puts the pages together: `page` is the one that is open. Pages that are
not open keep their first state, which is what leaving a page (unmounting) and
opening it again comes to, except that SWR would show the data of an earlier
visit until the first answer; the modules start from an empty cache. The session's
own "page" stands for the provider that is on all of them.

Mutants: operators commented "Mutant:" are wrong versions of the operator that
follows them, one per property, as a plausible bug would write it. No
specification uses them; they are there to show that each property fails when
the code it is about is broken.

## What the runs show

| Run | Instance | Distinct states | Shows |
|---|---|---|---|
| `lanes_slots` | analysis lane, 2 slots, 2 videos, 2 requests, 2 faults | 1.6 M | claims stay attached and exclusive, a pause admits at most one late claim, attempts are counted once |
| `lanes_both` | both lanes, 1 slot each, 2 videos, 1 request, 1 fault | 0.7 M | queues are sound, a failure tells its lane, a living lane has no orphan claim |
| `lanes_live` | both lanes, 1 video, 2 requests, 1 fault, lost commits, re-ingest in flight | 0.2 M | every claim ends, every queue drains unless paused |
| `lane_pause` | 2 slots, times 0..3, 5 kinds of usage report, 2 clicks, streak of 2 | 63 k | each pause is lifted by what it waits for |
| `jobs` | 4 rows, 2 faults of four kinds, leftover rows at the start | 29 k | one job slot, run once, waiting work neither lost nor stuck |
| `listing` | 2 channels, 4 uploads of one of them, one a Short, one that may be unlisted; limit 1, pages of 2, at most 2 of them; 2 requests, 1 fault | 0.16 M | no gaps, the backfill is not queued, every channel is listed, every new upload arrives |
| `site` | each page in turn, see below | 0.41 M | the thirteen properties of the pages |
| `fatal_costs`, `vanished`, `streak_lifted`, `jobs_wedged`, `listing_older` | one fault or one delete, or one failure; one load_older | small | the five findings below |

Bounds. Every property speaks of at most two slots or videos at a time
(`ExclusiveHold`, `Busy` over a batch), so two of each, with requests that take
any subset, give each race its partners; one request and one fault are the
shortest races, the second of either lets a restart or a requeue meet the
result of the first. Both lanes are needed together only where a row changes
lanes, with one slot each. `MaxRequests` and `MaxFaults` bound the environment
and nothing else; `LimitTimes` and `Clock` in `Lanes` are one reset and a
reading before and at it; pauses with several resets are `LanePause`'s. Its
`MaxTime = 3` leaves an instant before, between and after two resets.
`JobIds = 1..4` leaves a row for each executor after two faulty ones; when the
table is full nothing can be inserted, which ends a behaviour and violates
nothing. In `listing`, four uploads above any number at the start allow a backfill of
one, two more in one round (more than the limit), a Short at the top, an old
upload below the backfill, and two pages of 2, the cap: a walk of one page, and
one of two that publishing and removing may come between; the second channel has no uploads: it is the one added, deleted, or left behind by
a job that failed on the other. Two requests reach "delete and add again" and
"load older, then switch", one fault fails one job or unlists one video.
`SYMMETRY` is used in runs without liveness only, over ids no
definition orders.

What `site` checks:

| Property | Of | Says |
|---|---|---|
| `ImplementsSession` | `AdminSession` | whatever answers cross, the belief rises only together with the cookie, and falls only by a lock or a refused write |
| `OwnWriteShows` | `ChannelPage` | once a request has succeeded and ended, every page, however far the reader had scrolled, of the list it was made under and of the lists first read since was read after it; not of the other filters' cached lists, nor of one that was left before the refresh or whose refresh failed |
| `ListsEverything` | `PagedList` | a list that offers no more, read since the last change, is the api's list |
| `OwnChangesShow` | `PagedList`, `Dialogs` | the announced change of the overview of channels leaves no page that was read before it; a dialog shows its own change and ends only when every list was told |
| `NeverSkipsUnseen` | `ImportInbox` | a submission skips nothing that came on screen after the person began to tick, and nothing that it queues |
| `LineIsWhole` | `TrackRecord` | the coloured segments take up every bar of the window, each owned once, and join where the stance turns |
| `ArrowsFindTheirCall` | `TrackRecord` | a call is drawn once, not before its day, on a bar whose tooltip has the title of its video, or of a later call on that bar that says the same and overwrote it; left out only where its run has no line |
| `ChartAgrees` | `TrackRecordChart` | lines are those of the selected tickers the answer can draw, in their slots' colours, of the view, scale and theme that are set |
| `ColoursAreStable` | `TrackRecordChart` | a ticker that stays selected keeps its colour through clicks, answers and ranges |
| `TableStaysClosed` | `TrackRecordChart` | the table opens by itself only when the chart was found empty for the first time in a row |
| `StockChartAgrees` | `StockPage` | bars of stances, earnings, tooltips and clicks are those of the filtered rows on the candles shown |
| `PollersFinish` | three pages | the end of a job, a lane's work or a request is followed by what its page promised, or by its error in place of the page |
| `SiteTypeOK` | all | types, and that what is in flight fits the control that sent it |

Bounds of `site`. Lists have a page size of 2 and four items: an exactly full
last page, and a short one after a change; three pages may be asked for. Two
videos on the channel page and in the inbox are one that is acted on and one
that appears meanwhile. The channel page's list has a page per video
(`ChPageSize = 1`, `ChMaxSize = 2`), so that a later page can stay behind the first,
under two filters. One request (`ChMaxCalls`), two in the inbox, the dialogs and on the
video page (`VpMaxPosts`; a second one while the first is in flight), and one
change on each page (`...MaxMoves`; two on the channel page and the paged lists, to
leave a filter and come back), which may fall between any two steps. Three jobs
(`RbMaxJobs`) let one follow another before a poll. `ChMaxPolls` is 2 for the
code's 150: one poll that finds the job running and the last one. The track record is
evaluated on every set of calls on three of five days, every set of closes on
these days, two calendars of the benchmark and two starts of the window; its chart has
three tickers for two slots, one of them without prices, and a ranking that changes
once. The stock page has two ranges, a daily and an intraday one: the rows of days 3 and
4 share the bar of day 4, the row of day 7 gets its own with a later answer, and
stances of all three kinds are filtered. A switch between two daily ranges is
covered by the theorem only.

`PauseStopsClaims` is a bound, not zero: `is_paused` and `claim_next` are two
transactions, and a pause that commits between them is seen one claim late.

Fairness. Weak fairness of each slot's task and each lane's loop: asyncio runs
every ready task, Docker restarts every container, and the calls to YouTube and
claude are taken to end. For claude the code has a timeout; for the transcript
fetch it relies on the library, so `ClaimsEnd` and `QueuesDrain` hold as far as
that call returns. The requeue of a request that has selected its ids is fair.
No fairness for requests, faults or the end of a usage limit: a lane paused for
ever is a legal behaviour, hence "unless paused" in `QueuesDrain`. In
`LanePause` time passes and the loop comes back to `_fill`; in `Jobs` the
container restarts, the `JobWorker` polls and a listing ends. In `Listing` a job
proceeds (the calls to YouTube have a timeout, `Jobs` shows that an enqueued job
is started or ended) and the scheduler's round comes back, which needs
`AUTO_REFRESH_MINUTES` > 0: with the default 0 a dropped discover waits for a
person, and `AddedIsListed` does not hold. Neither requests nor the enqueue at
the end of `add_channels` are fair.

In `Site` two things are fair on the page that is open. `PollerSteps`: a poller
that is on gets an answer (`refreshInterval` and the loop's timer; a failed poll
is followed by another, and `loadOlder`'s request either answers or fails). And
`AnswerSteps`: a listing job ends, which `Jobs` shows of it
(`WaitingWorkEnds`), and a read that was started is answered or fails. A lane is
not fair: it may be paused for ever, and the watch then goes on.

### Findings

* `fatal_costs`: a fatal error cancels the other slots wherever they are; one
  that is cancelled outside its long call does not give its attempt back, which
  `stages.py` says every stage does.
* `vanished`: a channel deleted between `_persist`'s `session.get` and its commit
  counts as a stage crash and pauses the analysis lane.
* `streak_lifted`: a failure streak completed while the lane is limit-paused is
  wiped when the limit pause lifts itself; nobody is asked to look.
* `jobs_wedged`: a failed `finish_job` in the scheduler's task is swallowed and
  leaves the job slot taken until the container restarts.
* `listing_older`: a load_older pressed before the next discover files the
  uploads published since the last one as skipped; they are known from then on,
  so `auto_analyze` never queues them.

## What is proved

For every number of videos, slots, requests, faults, reports, rows, instants,
channels and uploads, every limit and page cap, every list, page size, ticker
and number of colours:

* `LanesProofs`: `TypeOK` and `PauseStopsClaims` with every fault; `NoOrphanClaim`
  assuming that no video is ingested again under a live slot (`~ReAddInFlight`);
  and, assuming also that a transaction that raises did not commit (`~LostAcks`),
  `SlotHoldsItsClaim`, `ExclusiveHold`, `QueuesAreSound`, `FailureKindIsDerivable`
  and `AttemptsAreHonest`.
* `LanePauseProofs`: `TypeOK`, `PausesAreSound`, the action properties
  `LimitPauseHolds` and `OnlyAPersonLifts`, and `ThrottleIsExact`, from
  `ThrottleExactly`: for any usage report, `throttle_until` names the first later
  time at which nothing trips.
* `JobsProofs`: `TypeOK`, `ExecutedOnce`, `WaitingWorkSurvives`, that `Jobs`
  implements `JobSlot`, and that only one job runs.
* `ListingProofs`: `TypeOK`, `NoGap` and `QueuedOnlyIfNew`.
* `PagesProofs`, of a page on its own: `ImplementsSession` of the provider,
  `OwnWriteShows`, `NeverSkipsUnseen`, `ListsEverything`, and the two parts of
  `OwnChangesShow`, that of the dialogs and that of the overview of channels.
* `ChartProofs`: `LineIsWhole` and `ArrowsFindTheirCall` of every stock (any calls,
  closes and benchmark bars on any days, any start of the window);
  `ChartAgrees`, `ColoursAreStable` and `TableStaysClosed` of the track record's
  chart; `StockChartAgrees` of the stock page.
* `SiteProofs`: of the site, every invariant and action property that the run
  `site` checks: `SiteTypeOK` for the control and the buffers of all eleven pages,
  and the rest from what the pages keep.

The assumptions on constants are the `ASSUME`s of the modules: disjoint slots,
positive thresholds, seed rows that a table at rest can hold, natural times, a
natural number of colour slots, a positive page size, finitely many days. For
the charts they say what an answer of the api is: calls are buys and sells,
closes are positive (`frontend/lib/track-record.ts:34`), tickers that are ranked
have a stock, rows of the stock page have their five fields. For the pages they
say that rows start in a status there is, that there are finitely many videos and
items, that a list has an item once (it is a query by primary key), that the
default selection is no larger than the cap (5 and 10 in
`insights/track_record.py`), and that `loadOlder` polls at least once.

Inductive invariants.

* Lanes: `IInv == TypeOK /\ ClaimsAreSound /\ SlotsAreSound /\ DownIsIdle`. The
  four properties are proved together: `ExclusiveHold` needs
  `SlotHoldsItsClaim` (a claimable row is unclaimed, so nobody holds it),
  `FailureKindIsDerivable` needs `QueuesAreSound` (the row a slot fails is still in
  its lane's queue, so its transcript is the lane's), and both need what a slot may
  be about to write (`SlotsAreSound`). `DownIsIdle` is why `release_claims` is
  safe: the lane that starts has no task of its own left. The two assumptions are
  needed: without the first, TLC breaks `SlotHoldsItsClaim` and `ExclusiveHold` (a row
  given back, and claimed again, while its task has yet to learn that the commit
  went through); without the second, `SlotHoldsItsClaim` (the old task does not own
  the new row of its video).
  Lost commits cost more than claims. With `LostAcks` and two transcript slots
  TLC breaks `QueuesAreSound` and `FailureKindIsDerivable` too: a task whose
  commit was not acknowledged ends by `fail_video`, which goes by id, and by then
  the row may be claimed by another task, whose result is then written over a row
  that a person has requeued. So `lanes_both` runs without lost commits;
  `lanes_live` has them.
* Lanes, pauses: `AtMostOneLate`. A claim that comes late was preceded by a check
  that saw the lane running, and after it the loop checks again.
* Lanes, orphans: `OrphanInv == SlotsAreSound /\ RowsFollowTranscripts /\
  HeldIsFetched /\ NoOrphanClaim`. It does without exclusive claims, which a lost
  commit breaks: a task leaves its row alone while it holds it, stops its lane, or
  writes the row unclaimed (`Leaves`). That writing it does not move a claim into
  the other queue needs statuses in step with transcripts, and `HeldIsFetched`:
  what the analysis lane works on has its transcript.
* Lanes, attempts: `TriesInv`. The bound of `AttemptsAreHonest` is not inductive: a
  task that has raised has not lost its attempt yet, though the fault is charged.
  `TriesBalance` sets one attempt aside while a video may still lose one
  (`MayLose`), and `CancelledWhileStopping` and `DownHasNoTask` say when that is over.
* LanePause: `Inv == TypeOK /\ PausesAreSound /\ NamedIsCovered`, where
  `NamedIsCovered` says that every reset named during the pause lies no later than
  `resume_at` and that the loop's reading of the clock is not ahead of the clock.
* Jobs: `Inv == TypeOK /\ LockIsHeld /\ CheckStands /\ OneRuns /\ ExecutorHolds`.
  `CheckStands` (a check that found nothing stays true until the insert) is the
  point of the advisory lock; it holds because only the holder of the lock
  inserts. `OneRuns` makes the orphans that a startup fails at most one, so that
  `Startup` is one step of `JobSlot`.
* Listing: `IInv == TypeOK /\ RowsAreSound /\ WalkIsSound`. The two properties
  depend on each other through what a walk may leave out. `BackfillIsTop`: of
  the uploads a channel had when it was added, what has no row is older than
  every row; so a later discover cannot take one of them for new. For the walk
  under way, `WalkIsSound` says that `known` is what the table holds
  (`WalkKnows`: one job at a time, and only jobs insert); that between two pages the
  walk has passed over nothing it did not take, except what was published above
  it since (`WalkReads`, `NothingPassed`: a page token stays on what was read unless
  the list slid); that when it ends, what it leaves out was published
  after it or is older than all it found (`WalkFound`); and that what it is about to
  queue lies above `base` (`WalkQueues`). The exceptions are real: TLC breaks
  `NoGap` without `dug` and without `slid`, and `QueuedOnlyIfNew` without `lost`
  and without `readded`. `slid` matters to
  `QueuedOnlyIfNew`, and `lost` to `NoGap`, only with more removals or uploads than the
  instance has. An example of `slid`: four
  uploads of a channel, two a page; a walk has read the newest two when the newest is
  removed; its next page holds the oldest alone, and the one above stays unlisted
  between two rows.
* Channel page: `ChInv == ChannelIsTyped /\ NothingOldIsAwaited /\
  NothingIsLeftOver`. Of every list that is not set apart (`chOld`), what a fetch has
  read so far was read after the request, and so was what is cached, unless the request
  still awaits its refresh or every page is being read anew; without the first, a
  late answer puts an older page back, and `OwnWriteShows` does not see it coming.
* Inbox: `InInv` adds that all on screen was defaulted, and the reviewed and posted
  ids with it (`NothingLateIsReviewed`), so what appears later is neither.
* Dialogs: `DgInv` adds that a change not told yet has somebody in `revalidate()`
  who will, and that what is being fetched is no older than the last answer.
* Paged lists: `PgInv == PagesAreTyped /\ Current(pgPages) /\
  Current(pgFlight.pages) /\ OtherIsCurrent /\ MutateReadsAll`. A page read since the
  last change is that page of the api's list (`Current`), also while it is in flight, and
  of the list under the other filter while that is in the cache (`OtherIsCurrent`); `mutate`
  reads every page again and takes nothing that was read before it from the cache.
  From there `ListsEverything` is arithmetic on pages: full ones tile the
  beginning of the list, and a short one, or the total, is its end.
* Track record: `RunsLieEndToEnd`, the runs of a stock cover every day from the
  start of the window once. Segments take what lies in their run and the bar
  before it; since the closes are finitely many, such a bar exists unless there
  is none at all.
* Chart: that the chart is what the effect would build now (`ChartIsBuilt`),
  although one effect only patches the scale; that the selection has one entry per
  slot (`SlotsAreSlots`), so that a click changes one of them; that an answer lists
  tickers of its own ranking (`AnswerIsRanked`).
* Stock page: `SpInv`, the chart is what its effects would make of the filtered
  rows on the candles shown (`PriceChartNow`), although each effect runs only when
  its own inputs change.
* Site: `PagesAreSound`. The pages are proved on their own and lifted: a step of
  the site is a step of one page or leaves its variables alone. What they share is
  the session, so each page's steps are shown to be steps of `Session` or none.
  `InInv` and `DgInv` speak of what is on screen and hold while their page is open.
* Site, types: `PagesAreTypedRight`. Three parts of `SiteTypeOK` are more than a
  range, and need an invariant of their own. The count of polls stays in its range
  because a poll under way is one that was left (`PollsLeft`). A page's total is no
  more than the items there are because the api's list has no item twice
  (`ListIsOnce`, kept by filtering and by additions at the front). What has a line
  or a bar fits because the chart is what the effects would build now
  (`ChartIsBuilt`, `SpInv`), from an answer that lists its own ranking.

A list that is filtered, or joined from its pages, is defined by recursion in
the community modules. What the proofs need of it (`KeptIsThose`,
`ListsAreJoined`) is induction over its length, done with the theorems of the
library on well-founded orders: of all lengths without the fact there would be a
least one (`LeastOf`). `LastDayIsLast` does the same for finite sets.

Model-checked only: `PollersFinish`, `LimitPauseEnds`, `WaitingWorkEnds`,
`ClaimsEnd`, `QueuesDrain`, `AddedIsListed` and `UploadsArrive`, because liveness
under fairness is beyond the prover. No module
declares a RECURSIVE operator.

## Abstractions

* `DeleteChannel` and `Ingest` work on one video: a channel is one video.
* `ReAddInFlight` separates a deletion that is followed by the same video coming
  back while the old task is still running. The writes go by id and would hit the
  new row; the code has no claim token. It is on for liveness and off for
  exclusiveness.
* `claim_next` may take any claimable row: the newest one that no request has
  locked. The order is a preference and no property relies on it.
* The rollback of a failed transaction is complete, Postgres is READ COMMITTED,
  and a request's `_load_videos` ... `commit` is one step, because the row locks
  it takes make it one for everybody who writes those rows by `FOR UPDATE` or
  `UPDATE`.
* A cancelled process also stops its other loops; `LoopError` stands for an
  error of any of them. SIGTERM ends the process as `Crash` does.
* In `Listing` a page token is a position, as the code takes it to be: what YouTube
  does when the list changes between two requests is its own affair, and a position is
  the harder case. The requests of one page are one step: a page of items, and the
  durations of the walk's end. The duration of an upload does not change, so it is a Short or it
  is not. An `add_channels` with several tokens is several adds of one channel.
  `SetAuto` flips the switch; setting it to what it is changes nothing.
* A mention, a stance, a transcript and an error message have no content.
* The startup migrations' effects are initial states; an api that restarts
  while workers run is not modelled.

* In the pages, a text, a title, a price's format and a colour's value are left
  out; a colour is its slot, a price a small number that tells two days apart.
  A message is kept only where a later click clears or overwrites it.
* Requests of one component are answered in any order with those of others, as
  the browser does; a request that is lost and one that is refused for a reason
  other than the session end the same way where the code treats them the same.
* React's batching is the grain of a step: all effects of one render run in
  their order within the step that caused it, as no event can come in between.
* The pipeline page has one lane, the inbox one channel's group: the columns share
  nothing but the snapshot, the groups nothing but the ticks.
* In `PipelineView` the refresh after a retry is not awaited by the code; its reads are
  `SnapshotFetched` and `SummaryFetched`, which come in their own time.
* `PipelineView` has no property beyond its type invariant and the session: what
  its buttons do to a lane that has moved on is left to the api by the code, and
  the backend models check it there.

## Not modelled

The one-way views of the frontend (overview tab, leaderboard, scorecard tables,
sparklines, search, player), which show one answer and keep no state beyond a
tab or an input; the ui kit and the routing, which wrap libraries. In the
backend: text processing of prompts and answers, HTTP, float statistics, and
what the plan below still names.

## Plan

Done: the core (`Lanes` with its store and stages), the pauses, the jobs, the
listing jobs, the frontend's pages.

1. `PriceStore`: `plan_fetches` and `ensure_daily` under empty fetches, rescales and
   the hourly interval. Property: a day inside the covered range was fetched.
2. Pure algorithms against reference definitions: win rates
   of the scorecard, proxy rotation, the memoizing ticker validator.
3. Composition: `Lanes` shown to implement, per video, the life cycle a person
   sees (queued, in work, ended), the lane's row in `Lanes` to take the steps of
   `LanePause`, and the job of `Listing` those of `JobSlot`.
4. Repeated presses of load older: that each one that adds nothing means that
   nothing older is left. The code breaks it when the newest unknown uploads are
   Shorts (`refresh.py:259`).
5. Proofs: what lost commits leave of exclusiveness; the safety of `PriceStore`;
   the refinements of item 3, first that of `Listing`'s job.

The refinements are properties of the runs that exist; items 1 and 2 need a run
each, item 4 joins the instance of `listing_older`.
