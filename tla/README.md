# A verification development for the Devin maintenance orchestrator

The orchestrator (`src/app`) turns GitHub events into paid Devin sessions. An
issue labelled `devin-remediate` + `devin-security` becomes a CVE session; a
failed CI run on the session's pull request becomes a fix-session or, after
`MAX_FIX_ATTEMPTS`, an escalation to a human. One uvicorn process (`--workers 1`)
runs an event loop, a pool of threads for background tasks, and one poller
thread at a time. All state that matters is in two SQLite tables.

The webhooks themselves start with a scanner that runs in the fork's CI and
files one issue per fixable CVE (`src/scripts`, `src/superset-fork-scripts`).

This directory holds TLA+ models of that program, the TLC configurations that
check them, and machine-checked proofs about what matters most.

## 1. Inventory

### Components, state, operations

| component | state it keeps | operations | what makes it correct |
|---|---|---|---|
| Webhook receiver (`routes/webhook.py`) | a row of `webhook_events` per delivery | `github_webhook` (record, schedule), `_process` (dispatch, `mark_processed`) | a delivery is processed once; every one gets a result |
| Router (`dispatcher.py`) | none | `dispatch` | gate label required, first sub-label wins, only completed failures reach the CI handler |
| CVE handler (`handlers.py:110-176`) | a row of `sessions` per unit of work (`work_key` UNIQUE) | check caps, `try_reserve`, parse, create, activate, `mark_failed` | one paid session per unit of work; caps; no reservation left behind; the log tells the truth |
| Queue (`orchestrator.py:49-83`) | `handler_result LIKE 'queued:%'` | `drain_queue` | nothing is lost, everything is served in the end |
| CI-fix handler and escalation (`handlers.py:25-91, 187-331`) | child rows with `parent_devin_session_id`, `fix_attempt_number` | `handle_ci_failure`, `_escalate_to_human` | attempts bounded and consecutive; escalation neither early nor twice; no race with the parent but through what is known to let go of it |
| Poller (`orchestrator.py:86-232`) | `status`, `pr_url` of the rows | `poll_once`: time out, diff, merge, close, write | every slot is released; merges are noticed; nothing stale wins for ever |
| Migrations (`db/connection.py`) | the schema, the ids it hands out | `init_db`, `reset_all` | safe on every boot, whatever the crash; a primary key never means another row |
| Devin transport and client (`devin/`) | a lazily opened client all threads share | create, get, terminate; retries; reset at shutdown | one connection pool; what a create or terminate leaves at Devin is known; calls end |
| Stage (`stage.py`) | none | `compute_stage` of a row and its children | the dashboard never shows finished work as running again |
| Admin (`routes/admin.py`) | none | replay, reset | a replay is as safe as a redelivery; a reset does not redirect writes under way |
| Metrics (`metrics.py`) | none | `compute_dashboard_metrics` over the rows | a lifetime count never falls |
| Scanner and issue filer (`scripts/scan_osv.py`, `superset-fork-scripts/file_issues.py`, `cve-scan.yml`) | issues on GitHub | a workflow run per ref: scan, then search and create per finding | few duplicates, nothing fixable forgotten |
| Serializers, dashboard, signature, prompts, settings, health | none | pure functions and reads | - |

### How they interact

GitHub calls the receiver; the receiver commits the delivery, answers 200 and
leaves `_process` to a pool thread. `_process` routes to a handler, which talks
to the sessions table and to Devin, and writes the handler's answer back to the
delivery. The poller first re-dispatches queued deliveries **in its own thread
through the same handlers**, then visits every non-terminal row. An operator's
replay schedules `_process` again for a recorded delivery. Nothing but the tables
and the two API clients is shared, the tables have no locks, and no transaction
spans two statements: `conn()` opens an autocommit connection for each call
(`isolation_level=None`). The scanner knows nothing of all this: its issues reach
the receiver as `opened` and `labeled` deliveries.

### What is hard

* every pair of calls is a window: check-then-insert on both caps, on attempt
  numbers, and on the poller's copy of the table;
* four writers (both handlers, escalation, poller) share one table and its two
  counters, and only some of them ask the counters;
* duplicates from four sources: redelivery, `opened` + `labeled`, replay, queue;
* a crash between any two calls, with a paid, non-idempotent call in the middle;
* exceptions that escape at different places mean different things (an error
  result, a queued event, a dead task, a lost tick);
* the poller overwrites what an escalation wrote;
* migrations that are neither transactional nor restartable at every point;
* a search that GitHub answers late or not at all decides whether an issue, and
  so a paid session, is created again.

`PROJECT.json` lists each hazard at its line, with the properties aimed at it.

## 2. Modules

| module | models |
|---|---|
| `SessionStatus` | active and terminal statuses, `STATUS_MAP`, `map_status` |
| `Dispatcher` | the router as a function from payload to handler name |
| `Intake` | receiver, replay, CVE handler, queue, what the CI-fix handler and the escalation write, poller (by its outcomes), both tables, crashes, exceptions, midnight |
| `WorkLedger` | what the reservation pattern promises: each unit of work free, claimed, tracked, over (from where an escalation may take it up again) or abandoned for good, and paid for once, with at most a given surplus of sessions that the payment leaves behind unnoticed |
| `IntakeProofs` | theorems about `Intake` for all values of the constants: types, payments, the ledger, the caps |
| `QueueProofs` | more of them, about the log of deliveries: the queue, reservations and who holds them, sessions and what explains them |
| `FixLoop` | CI-fix handler, escalation, and the poller row by row, around one pull request |
| `Transport` | `factory.py`, the retry loop of `http.py`, create and terminate of `client.py`, statement by statement or exchange by exchange |
| `TransportProofs` | theorems about `Transport` for any callers and `max_retries` |
| `FixLoopProofs` | theorems about `FixLoop` for any runs, threads, caps and statuses: types, attempts, escalation, human pushes, counts, one session per run |
| `StageProofs` | the stage that the dashboard shows, and who may change it |
| `RaceProofs` | the only ways in which a fix-session comes to race the session it repairs |
| `Stage`, `Metrics` | the workflow stage of a CVE session and the counts of `/metrics`, as operators on rows; `FixLoop` uses both |
| `Migration` | `init_db` statement by statement, crashes and reboots, `reset_all`, and the ids that rows get and handlers hold |
| `MigrationProofs` | theorems about `Migration` for any rows and issues |
| `Scanner` | the CVE-scan workflow on several refs, call by call |
| `ScannerProofs` | theorems about `Scanner` for any refs, records, ids and bounds |
| `MCIntake`, `MCFixLoop`, `MCTransport`, `MCMigration`, `MCScanner` | the instances that TLC checks |

**Atomicity.** One action is one database or network call, with the local
computation up to the next call. `pc[t]` names the next call of thread `t`
(`FixLoop` keeps the poller's in `ppc`). What lies between two calls can
interleave with every other thread. Two calls in a row that no other actor can
tell apart are one action: in `FixLoop.FetchPR` the guards on the payload and
`get_pr`, in `Create` the log fetch and `create_session`.

**Data.** A `work_key` is the issue's number, since repository and label are fixed, or
the id of a workflow run, which is never equal to one (`issue:` and `ci_fix:`);
in `FixLoop` it is the id of the workflow run. A sessions row keeps what
decisions depend on: status, whether it has a `devin_session_id` (`tracked`), the
day it started, the row whose work it continues; in `FixLoop` also whether it has the pull request's URL, its
parent, attempt number and start second. Handler results are their kind
(`queued`, `created`, ...) without the text after it. Timestamps keep only their
order, and ties where the code's resolution of one second allows them.

**From code to actions (Intake).** `record` -> `Receive`; `replay` -> `Replay`;
the router's call in `_process` and in `drain_queue` -> `Dispatch`;
`count_active`, `count_started_today`, `try_reserve`, the parser,
`create_session`, `update`, `mark_failed` -> `CountActive`, `CountToday`,
`Reserve`, `Parse`, `CreateSucceeds`/`CreateFails`, `Activate`, `MarkFailed`;
the guards of `handle_ci_failure` up to its
counter -> `Guards`, the calls of `_escalate_to_human` -> `MarkParent`,
`ListChildren`, `CancelChild`; from its counter on the CI-fix handler makes the
same calls and takes the same actions (`IsFix` tells where it differs: it is not
queued, not asked about the day, and parses nothing);
`mark_processed` -> `WorkerResponds`/`PollerResponds`; `drain_queue` ->
`DrainStart`, `ListQueued`, `DispatchQueued`, `DrainDone`; the rest of
`poll_once` -> `ListNonTerminal`, `SyncSession`/`SyncFails`, `TickDone`. An
exception is `HandlerRaises` (an error result in a background task, an event that
stays queued in the drain loop), `MarkProcessedRaises` or `TickRaises`; `Crash`
keeps the tables and drops every thread. `Guards` leaves open which finished and
tracked row is the parent, whether a guard turns the run away and whether the
chain has had its last attempt, all of which `FixLoop` has: `Intake` allows every
write that `FixLoop`'s handlers can make to the shared table, and more. `ended`
is a history variable: the row has had a terminal status.

**From code to actions (FixLoop).** Each guard of `handle_ci_failure` that makes
a call is an action: `FetchPR`, `FindParent`, `ReadAttempts`, `ListCommits`,
`CountActive`, `Reserve`, `Create`, `Activate`/`MarkFailed`. The escalation is
`MarkParent`, `ListChildren`, then `NextChild` (terminate) and `CancelChild`
(update) per child, then `PostComment`. `poll_once` is `ListNonTerminal`, then per
row one of `GetSessionFails`, `FindsInactive`, `FindsNoChange`, `FindsChange`,
with `PollerTerminates` and `PollerWrites` where the code makes those calls, each
working on the row as it was copied. Devin's sessions (`DevinMoves`,
`DevinListsPR`), the pull request (`PrEndsAs`) and a human who pushes to its
branch (`HumanCommits`) move on their own. `has_non_devin_commits` sees a push in
`ListCommits` only if its commits carry a login (`github_client.py:91-96`) and lie
on the first page, oldest first (line 69); `human` keeps whether they do. An
exception that no handler catches is `HandlerRaises` (any database call, and
`get_client` at `handlers.py:49`, after the parent is marked) or `PollerRaises`
(the tick is over); a terminate that fails is caught and goes on. `Crash` drops
every handler and the poller and keeps the tables. `loose` is a history
variable: the sessions that something has let go of while they may be running.
`/metrics` reads what `list_recent` gives, at most `METRICS_LIMIT` rows (10,000 in
`routes/metrics.py:14`).

**From code to actions (Transport).** `get_client` is `Check` (the look without
the lock), `Lock`, `CheckAgain`, `Open` or `Rejected` (the constructor refuses
the credentials), `Wrap` and `Return` (the last read of `_client`, which `reset`
may have cleared). `Reset` is the three statements of `reset`. One pass of the
retry loop is `Exchange`: the request may take effect at Devin and its answer be
lost, or be refused. `Raise` and `AlreadyOver` are what a method makes of the
loop's `RuntimeError`, whose text is that of the last `httpx.HTTPError`
(`last_exc`). What the loop does not catch ends it early (`pc` = `broken`):
`float()` of a `Retry-After` that is a date (`retry_later`), and `json()` of a 2xx
that is not the expected object (`unreadable`). The effects at Devin (`created`, `over`) are external.

`Transport` is composed with the other modules by assumption and guarantee, not
by INSTANCE: `SessionsAccounted` justifies what `LostPerCall` of `Intake` stands
for, `ReturnedMeansOver` that a terminate that returns ends the session
(`FixLoop.NextChild`, `PollerTerminates`), `CallsEnd` the fairness of both.
`FixLoop` uses `Stage` on its rows.

**From code to actions (Migration).** One action per SQL statement of `init_db`
(the existence check is atomic with the statement it guards: nothing else uses
the database during a boot). `Reboot` is possible at any moment. In between the
application runs: `Reserve` inserts a row whose id is one above the highest the
table ever had (AUTOINCREMENT keeps it in `sqlite_sequence`, which neither
`DELETE` nor the rebuild resets), `CopyRow` is a row the poller has read, `Update`
a write by such an id, `ResetAll` the statement of `reset_all` on this table.

**From code to actions (Scanner).** `Begin` is a workflow run, started by the
schedule or by hand when none is under way on its ref (`StartScan`), or in place
of the one it cancels (`CancelScan`, the concurrency group of `cve-scan.yml`).
`ScanOSV` is `scan_osv.py` as a whole, since nobody sees it work, followed by
`seen_in_run`; `Search` is `existing_issue_for`, which may overlook an issue
(counted in `blind`); `FileIssue` is `gh issue create`, which may fail before or
after GitHub acted; `EndScan` ends the job. `AliasAdded` is OSV publishing the
CVE id of a record, which changes the id its finding goes by. `Scanner` is composed with
`Intake` by assumption and guarantee: an issue is what `Intake` calls a key, and
its body, which `file_issues.py` writes, is one that the parser accepts
(`prompts/cve.py:8-9`).

## 3. Runs

### Runs that pass

| run | instance | shows |
|---|---|---|
| `intake_faults` | an issue that parses, one that does not, a failed run, 1 pool thread + the poller, both caps 1, a crash, an exception, a replay, a lost response in each create call | `TypeOK`; `PaidOnce`: a unit of work is paid for once, besides what one call's lost responses hide; `ImplementsLedger` (refinement of `WorkLedger`, for issues); `ResultMatchesLedger`: the log and the sessions table agree; `ActiveOvershootBounded`: rows that reservations brought in and that have not ended exceed the cap by at most one per other thread; `DailyOvershootBounded`: the same for the sessions that issues start in a day; `QueueNeverLoses` |
| `intake_live` | an issue opened and labeled (two deliveries for one key), a failed run and a ping, concurrency cap 1, daily cap 2, a midnight, no faults | `NoAbandonedReservation`, `EverySessionIsExplained`, `PaidOnce`, `EventsSettle` |
| `fixloop_attempts` | 3 failed runs, 2 threads, attempts capped at 2, sessions that Devin suspends, one crash, exception or failing terminate | `TypeOK`, `AttemptChain`, `AttemptsShared`, `EscalatesAfterLastAttempt`; `FixedOnce`: whoever is about to create a fix-session is alone with the failed run, which has none; `RacesOnlyTheLoose`: none is created beside a live parent but one that something has let go of |
| `fixloop_live` | 2 failed runs, 1 thread, attempts capped at 1, children may list the pull request, unknown statuses, merged and closed pull requests, a human's push, recognisable or not, `/metrics` reads 2 rows of 3 | `HandsOff`: after a push that can be recognised only runs that were under way get a session; `RacesOnlyTheLoose`, `SlotsReleased` (no row stays active for ever); `StageSettles`: what the dashboard shows as over stays so unless a fix-session or a human takes it up; `LifetimeCountsGrow`: `total_sessions` never falls, and `pr_created` not while the rows fit |
| `transport_calls` | two threads make their first call at once, each a create or a terminate, two attempts each, good or bad credentials, unreadable answers, a shutdown at any moment | `TypeOK`, `OneTransport`, `RaisesOnlyWhenExhausted`, `SessionsAccounted`, `ReturnedMeansOver`, `CallsEnd` |
| `migration_boot` | 5 old rows (three about one issue, one unparsable), 2 new rows, any number of crashes and resets | `TypeOK`, `NothingDestroyed`, `BackfillResumes`, `IntactUnlessTorn`, `OwnRowOrNone` |
| `scanner_nightly` | 4 records (two are one CVE, one id is part of another, one without a fix), runs on 2 refs, cancelled runs, failed calls, overlooked issues | `TypeOK`; `DuplicatesBounded`: an id is filed once per ref and overlooked search at most; `OncePerRun`; `GreenMeansTracked`: when a run ends green, every fixable vulnerability whose ids no other id contains has an issue of its own; `FixableGetsTracked`: each of them has one under its latest id in the end |

Every passing run's properties come with a mutant, a plausible bug in a modelled
definition (the operators marked "Altered") under which TLC finds the property
violated.

### Runs that find the documentation contradicted

| run | claim | what happens |
|---|---|---|
| `intake_resume` | `README.md:240`: pick up where we left off after a restart; `README.md:239`: every webhook recorded with `handler_result`; `orchestrator.py:101-102`: the handler promotes a `reserving` row or marks it failed | after a crash the row stays `reserving`, holds a slot and its key; its event never gets a result, for the redelivery is a "duplicate" |
| `fixloop_comments` | `handlers.py:27-29`: escalation is idempotent, no duplicate comments | the check reads a parent that Guard 5 found terminal, so it never holds; the poller turns the marked parent back to `completed` |
| `fixloop_stopped` | `handlers.py:84-85`: active fix-sessions have been terminated | a child still `reserving` has nothing to terminate; its handler creates the session afterwards |
| `fixloop_merge` | `orchestrator.py:178-181`, `README.md:254`: a merge completes the row at the next poll | the diff does not compare `pr_state`, and the merge check comes after it |
| `migration_torn` | `connection.py:163-164`: safe to re-run on every boot | a crash between `DROP` and `RENAME`: the next boot creates an empty table |

### Bounds, and why they are enough

* *Threads.* Two threads overlap in every pair of calls; the poller is always
  one of them in `Intake`. The overshoot of the caps grows with the number of
  threads; the theorems cover any number.
* *Deliveries and issues.* Two deliveries for one key are the smallest duplicate
  (`intake_live`; in `intake_faults` a replay and the queue make three handlers
  for one key). A failed run competes with the issues for the slot, escalates, and
  makes finished rows active. With a cap of one the queue holds an event while a
  session runs, and the cap can be exceeded, so that the free capacity is negative.
* *Faults.* `MaxCrashes`, `MaxFaults` and `MaxReplays` are one where used (in
  `FixLoop` a fault is a crash, an exception or a terminate call that fails): every property is
  about the state a single fault leaves behind, and the theorems hold for any
  number of crashes, exceptions and replays. `LostPerCall` of one tells the session
  that is tracked from one that is not; Devin can be paid twice by one call, so a
  second call shows as a third session.
* *Attempts.* With a cap of two, two threads and three runs, handlers can share
  attempt 1, share attempt 2, and escalate while another is creating.
* *Days.* Two in `intake_live`, for the midnight in the middle of a handler, and one
  in `intake_faults`, where the interest is in the faults; that the daily bound
  holds across midnight for any number of days is the theorem's part.
* *Seconds.* Rows that start in the same second, which `find_by_pr` may return in any
  order, are in `fixloop_stopped` (`SameSecond`); the theorems cover both.
* *Statuses.* What Devin may report is chosen per run (`RawStatuses`): `suspended`
  where the races are, unknown ones and `exit` where slots and stages are. A closed
  pull request is in `fixloop_live`, a failing terminate in `fixloop_attempts`; the
  theorems have all of them at once.
* *Transport.* Two callers race for the lock, and a third would wait like the
  second. With `max_retries` of two an answer is followed by a retry and a retry
  by a failure; the code's three repeats the second step. Creating or terminating
  is chosen for each caller, and whether the credentials are acceptable for both.
* *Migration.* Three rows of one issue are the smallest set in which the backfill
  suffixes two and can be interrupted between them; `MaxId` of 7 leaves room for two
  new rows, so that an id could be used again after a reset; crashes and resets
  are unbounded.
* *Scanner.* Two refs are the smallest overlap. `MaxScans` of 3 saturates, so runs
  go on for ever and `OncePerRun` speaks of the first two; `MaxBlind` of 1 lets one
  search per id miss its issue, `MaxFailures` of 2 a cancelled run and a failed call.

`fixloop_attempts` uses symmetry (runs and threads are interchangeable; it checks
invariants and one action property, step by step, and each treats them alike). No
run with a liveness property does. Deadlock is
checked in every run but `transport_calls`: the poller never stops, while in
`Transport` every caller makes one call.

### Fairness

`FairSpec` of `Intake` asks: a pool thread that has a next call makes it (the
thread pool runs its tasks; every HTTP exchange has a timeout, `http.py:24`, and
that bounded retries and the lock let every call end is `CallsEnd` of `Transport`); the
poller makes its next call (`run_loop` starts a tick every `POLL_INTERVAL_SECONDS`
and catches what a tick raises); a session that is polled again and again is
found over at some poll. The last one is strong fairness, since polls come and go
with the ticks. It stands for Devin, whose sessions end or stop reporting
progress, in which case the code times them out. Webhooks, replays, crashes,
exceptions and failing polls are never required.

`FairSpec` of `FixLoop` asks the same of handlers and poller; it asks of Devin
that a session that has not ended does end, and that a row which is polled for
ever gets an answer at some poll. `FairSpec` of `Transport` asks only that a
thread that is in a call goes on; no answer and no shutdown is required.
`FairSpec` of `Scanner` asks that the nightly run on the default branch starts
when none is under way there, and that a run goes on unless it is cancelled.

## 4. Proofs

Proved with TLAPS, for every value of the constants:

| module | theorem | property | assumption beyond the module's |
|---|---|---|---|
| `IntakeProofs` | `TypeCorrect` | `TypeOK` | none |
| | `NeverPaidTwice` | `PaidOnce` | none |
| | `IntakeImplementsLedger` | `ImplementsLedger` | none |
| | `LogIsTruthful` | `ResultMatchesLedger` | none |
| | `ActiveCapHolds` | `ActiveOvershootBounded` | none |
| | `DailyCapHolds` | `DailyOvershootBounded` | none |
| `QueueProofs` | `QueueIsLossless` | `QueueNeverLoses` | none |
| | `ReservationsAreHeld` | `NoAbandonedReservation` | none |
| | `SessionsAreExplained` | `EverySessionIsExplained` | none |
| `FixLoopProofs` | `TypeCorrect` | `TypeOK` | none |
| | `AttemptsAreAChain` | `AttemptChain` | none |
| | `EscalatesLate` | `EscalatesAfterLastAttempt` | none |
| | `SharingIsBounded` | `AttemptsShared` | none |
| | `NoFightWithHumans` | `HandsOff` | none |
| | `CountsNeverFall` | `LifetimeCountsGrow` | none |
| | `OneFixPerRun` | `FixedOnce` | none |
| `StageProofs` | `StagesSettle` | `StageSettles` | none |
| `RaceProofs` | `OnlyTheLooseAreRaced` | `RacesOnlyTheLoose` | none |
| `TransportProofs` | `TypeCorrect` | `TypeOK` | none |
| | `OneTransportOnly` | `OneTransport` | none |
| | `SessionsAreAccounted` | `SessionsAccounted` | none |
| | `ReturnedIsOver` | `ReturnedMeansOver` | none |
| | `GivesUpOnlyWhenExhausted` | `RaisesOnlyWhenExhausted` | none |
| `MigrationProofs` | `TypeCorrect` | `TypeOK` | none |
| | `RowsSurvive` | `NothingDestroyed` | none |
| | `BackfillIsRerunnable` | `BackfillResumes` | none |
| | `BootsAreSafe` | `IntactUnlessTorn` | none |
| | `IdsAreNotReused` | `OwnRowOrNone` | none |
| `ScannerProofs` | `TypeCorrect` | `TypeOK` | none |
| | `DuplicatesAreBounded` | `DuplicatesBounded` | none |
| | `FiledOncePerRun` | `OncePerRun` | none |
| | `GreenIsTracked` | `GreenMeansTracked` | none |

Every invariant and every action property of the passing runs is among them, the
refinement included.

*Lost responses.* The transport repeats a POST whose response did not arrive
(`http.py:74`), and the request carries no key by which Devin could recognise it,
so one call may leave more sessions than the one it returns. `LostPerCall` bounds
how many more; the theorems hold for every value of it, and zero gives "one Devin
session, not two" (`README.md:236`) literally. The ledger has it as `Surplus`.
`SessionsAccounted` of `Transport` says how large it is: a create call leaves at
most one session for each answer that told nothing, besides the one it returns,
and no more than `max_retries` in all.

*The caps.* Neither is what the documentation says, and the theorems say how far
each goes. `MAX_CONCURRENT_SESSIONS` (`README.md:276`): both handlers check it
before they reserve, and what reservations bring in exceeds it by at most one row
per other thread (`ActiveCapHolds`). But rows come back to life with no check, on
top of that and without a bound: `_escalate_to_human` marks a finished parent
`needs_attention`, which is an active status (`handlers.py:40-42`); a handler whose
reservation an escalation has cancelled (line 58) sets it to `pending` (319-325); a
poll writes over a row that ended after it was copied (`orchestrator.py:205`).
`MAX_SESSIONS_PER_DAY` (`README.md:237, 277`): only `handle_security_issue` asks
for it. The sessions that issues start exceed it by at most one per other thread
(`DailyCapHolds`); `handle_ci_failure` (262-278) starts as many more as runs fail.
Its rows are counted (`sessions.py:172-175`), so CI fixes can keep issues from
being worked on, and issues never keep CI fixes from it.

*The race with the parent.* `README.md:243` ("doesn't race Devin") is not kept: the
row of a parent can be terminal while its session is alive. `RacesOnlyTheLoose`
lists all the ways, and its theorem needs no assumption, so that there is no
other, whatever crashes, raises, is redelivered, read too early or written late:

* a terminate call that fails is ignored and the row written all the same
  (`orchestrator.py:193`, `handlers.py:54`);
* a pull request closed unmerged: the poller cancels the row and leaves Devin
  running (`orchestrator.py:198-201`);
* a `suspended` session is stored as `cancelled` (`types.py:17`) and may be resumed;
* an escalation cancels a child that is still `reserving`, with nothing to
  terminate (`handlers.py:51`); its handler activates it, a poll gives it the pull
  request where Devin lists it under children, the escalation's `cancelled` comes
  last, and the next failed run takes it for a parent that is over. This is the
  flaw of `fixloop_stopped` with one more consequence.

The first and the third are in `fixloop_attempts`, the second in `fixloop_live`. The
fourth takes two handlers, four failed runs and children that list the pull
request, which is more than a run can have; the theorem covers it. The property is
about the parent; nothing excludes that a sibling of the new fix-session is alive.

*Human pushes, counts, ids.* Three more properties carry an exception that the code
makes, and say so: `HandsOff` is about pushes that the commits show to be a human's;
`pr_created` may fall once the table has more rows than `/metrics` reads, against
`metrics.py:30-32` ("a LIFETIME count"); and an id that is part of another
(`CVE-1` and `CVE-11`) may never get an issue of its own, against `cve-scan.yml:6-8`,
since `cve_id in title` takes the other's for it (`file_issues.py:53`). The run that
skips it ends green.

The modules' own assumptions are checked by TLC on every instance. Those of
`Intake` are that deliveries and pool threads are finite sets, that the keys of failed runs are no keys of issues
(which `make_work_key` and `make_ci_fix_work_key` see to), that the caps are positive, and that a poll
writes only what `map_status` or the poller's verdicts can produce.

**The argument for Intake.** `PaidOnce` is not inductive: that Devin has not been paid when a
handler reaches `create` depends on who holds the key. `IInv` adds *custody*:

* `Exclusive`: at most one thread is between `try_reserve` and its settlement of
  the row for any key;
* `Custody1`: such a thread's key has a `reserving`, untracked row (for a CI fix
  also one that an escalation has cancelled), and has been
  billed what its place in the handler says (`Bill`): nothing before the call,
  up to `LostPerCall` sessions nobody knows of when it failed, one more when it
  succeeded;
* `MoneyOK`: what was paid for a key that nobody holds: nothing without a row, at
  most the surplus if the row is failed and untracked, something if it is
  tracked, and never more than one call leaves behind. A `reserving` row that a
  crash left behind may be any of them;
* `RowOK`, `SnapshotOK`: which rows are tracked, that only CI fixes have a parent,
  and that the poller's copy contains only tracked rows, so it never touches a
  reservation;
* `Chains`: the parent an escalation marks is a tracked row, and the children it
  cancels are CI fixes that exist; so it never touches the reservation of an issue.

The UNIQUE key is what makes custody inductive: `Reserve` moves a key from nobody
to one thread, only when it has no row. `Crash` takes custody away and leaves the
row, so no later handler can gain it. From `IInv`, `IntakeImplementsLedger` maps
each step to a step of the ledger or a stutter (the row is `free`, `claimed`,
`tracked`, `over` or `abandoned`; an escalation moves it from `over` back to
`tracked`). It is stated for issues, because an escalation cancels the claim of a CI
fix under its handler's hands; `LogIsTruthful` adds what a thread that is about to write
an answer knows (`AnswersOK`, with the bill of a refusal in `Refused`) and that what an answer says of a row stays true
while rows move on (`RowsSettle`).

The caps need a different strengthening: the number of rows (those that have not
ended for the one, those of issues for the other) **plus** the number of
threads that have passed the check and not yet inserted is at most the cap minus
one plus the number of threads. A thread that passes the check saw fewer rows
than the cap, and there are at most as many threads past the check as threads, so
the bound is established there whatever it was before; every other step keeps the
sum or lowers it, a row that comes back among them, because `ended` stays set. For the daily cap no row has a date in the future
(`NoFutureRows`), so at midnight the count starts from zero.

**The argument for the queue.** That a result is written over `queued` depends on
what the thread that writes it has seen. `Routed` says that what is queued, and
what the drain loop carries, is routed to the CVE handler, so that no retry ends
with `ignored`; an answer other than `queued` then accounts for the work
(`AnswerAccounts`): by the log's truth (`LogInv`) the unit of work has a row, or the
daily cap turned it away. `NoAbandonedReservation` is nearly inductive with
custody (`HeldNext`): a row becomes `reserving` in the hands of the thread that
inserts it, and only a crash or an exception takes a thread away from it. For
`EverySessionIsExplained`, `Solo` says that without replays a delivery is in one
thread's hands at most and that the poller's is still queued in the log;
therefore a recorded `created` is never written over (`StillSaid`).

**The argument for FixLoop.** `AttemptChain` alone is not inductive: the parent, the
attempt number, the children and the poller's copies are read in one call and
used in a later one. `ChainInv` says that each of them still refers to a row that
exists (`KnownBy`, `KnownByPoller`) and that the number a handler carries is one
above a number of its chain and within the cap (`NextAttempt`); both last because
rows keep parent and number once they exist (`Grown`), and every write but the
insert touches other columns only (`StatusesChange`). The insert gives the number
to a row that did not exist (`RowInserted`). A handler that escalates has seen a
row with the last number, and going down the chains from it every number has a
row (`NumbersAreUsed`: the largest missing one would be the predecessor of a row,
or the last itself). For `AttemptsShared`, `SharedInv` adds to the rows with a
number the handlers that carry it: no row has it when one is taken, and the
insert exchanges a handler for a row. For `HandsOff`, `HandsInv` adds that a
handler past the look at the commits is for a run known when the human pushed, if
the push can be recognised. `LifetimeCountsGrow` follows because rows that exist
keep existing and keep their pull request (`RowsAreKept`), and because the number of
rows that `list_recent` returns depends on their number alone. For `FixedOnce`, `OnceInv` says that a run without a
row has no session and that a handler between `try_reserve` and the write that
settles its row is alone with it (the row did not exist when it was inserted):
only the holder at `create` can start one, and afterwards it is past `create`, or
dead with the row left behind.

**The argument for the stage.** A stage could come back through a late write of
the poller or a cancelled row. `StageInv`: the first session is nobody's child, so
escalations do not cancel it; a tick visits each row once (`VisitedOnce`); and
while the poller still has the row of the first session to visit, that row is
active (`PolledWhileActive`), for nothing but the poller's own write ends it. Hence
every step leaves that row, asks for a human, or writes over an active one
(`ParentMoves`), and the children only matter while none of that is so
(`StageOfRow`).

**The argument for the race.** `EndsAreReal`, a row that is over and has a pull
request belongs to a session that is over or has been let go of, is what
`find_by_pr` relies on, and it needs all of: the poller ends a row only when Devin's
answer, or its own terminate, says so (`Visits`, about the copy it works on); a pull
request is recorded only for a session that has an id (`Registered`); a handler owns
the row it has inserted until it settles it (`OwnsRow`); an escalation cancels only a
child it has terminated or let go of (`ChildrenOver`); and a session that is over
stays so, since only `Create` starts one (`SessionsStart`) and `OnceInv` says it does
so once, while what was let go of is remembered (`LooseGrows`). The handler keeps what
Guard 5 saw up to `create` (`ParentOver`).

**The argument for Transport.** The lock gives mutual exclusion: a thread between
`check_again` and `wrap` holds it, so nobody else is there. Under the lock and
before the shutdown, nothing has been opened while `client` is missing, except
that the holder at `wrap` has opened one; hence one in all. For the effects,
`created` never exceeds the accepted plus the doubtful answers, nor the requests
answered; and a terminate whose last error says "already over" was refused by a
session that is over, and a session that is over stays so. That a call gives up
only when its attempts are used up needs `OpenInv`: until the shutdown, with
credentials that are accepted, no transport is closed and a thread that sends has
one (`Upright`), so that the loop is not left by any other way than its end.

**The argument for Migration.** `Inv` says where the original rows are: in the
table that was never rebuilt, in the copy alone (after `DROP`), in the copy that a
new table hides (`Torn`), or in the rebuilt table. Together with what each
statement finds (`Statements`), a row whose key is still NULL can only be in a
table that was never rebuilt, so the backfill works on all and only the original
rows; its key is the one the row's age calls for because the oldest row of an
issue, which exists by well-founded induction on ids, is done first and is seen
again in `existing` after a crash. Keys are unique because a suffixed key names
its row, so the unique index can always be made. An issue of an old row has its
key taken by the oldest of its rows, so it is not reserved again. Ids that are
held never exceed `seq`, which only grows.

**The argument for Scanner.** `DuplicatesBounded` counts issues and the runs that
are about to create one: a search that finds none adds a run, and either there
was no issue, so that these runs, at most one per ref, are all there will be, or
one was overlooked, which `blind` counts. `OncePerRun` counts, for each id, issues
and runs that may still file it: a run has one finding per id (`unique_fixable`),
and a run that starts is counted in `scans`. For `GreenMeansTracked`,
`NothingLost` follows a vulnerability through a run: from the answer of OSV on it is
tracked, or still to be dealt with under one of its names, or the run will be red.
The finding that stands for it may be of another record with the same id
(`EveryIdIsKept`); a search that finds an issue has found one of its own, because
the id is `Unmistakable`; and issues do not disappear.

**Model-checked only.** The liveness properties `EventsSettle`, `SlotsReleased`,
`CallsEnd` and `FixableGetsTracked`: liveness under fairness, and `ENABLED`, are
outside the reach of the prover. And the five runs that find a document
contradicted, which are counterexamples.

## 5. Not modelled, and why

* HTTP signature, header and JSON checks, health, serializers, settings, the
  labels of fix-sessions, the dashboard, the demo script: they read and change
  nothing the models keep. Of the metrics, the sums of cost, value and labels.
* The delays of the retry loop.
* `github_client._http`, a lazy singleton with the same double-checked lock as
  `factory.py`; GitHub's calls are outcomes.
* Prompt texts, versions, severities and issue bodies; the parser is one of three
  answers.
* Time: the inactivity timeout is possible whenever a session is pending or
  running; that the fallback on `last_polled_at` can never fire
  (`orchestrator.py:125`) is not expressible.
* SQLite's write lock and its timeout, except as an exception of the call.
* A reset in `Intake`: with the tables empty a key is free again, and what was paid
  for it is forgotten, which is what a reset is for. Which row a write reaches
  after one is in `Migration`.
* `FixLoop` has one pull request: `find_by_pr` and the chains keep pull requests
  apart. What they share is the table's counters: the concurrency cap, which both
  handlers ask, and the daily counter, in which CI fixes are counted without ever
  asking it. `Intake` has both handlers on one table.

Observations made while modelling, which no run states yet:

* `reset` takes no lock, so a call under way at shutdown may open a connection
  pool that nobody closes (`factory.py:43-49`), or wrap `None`.
* `terminate_session` looks for "already", "exited", "archived" or "finished" in
  the text of `raise_for_status`, which holds the status line and the URL but not
  the body: unless the reason phrase has one of the words, terminating a session
  that is over raises after all retries, although `client.py:86-87` calls it a
  no-op. In the model both are possible (`client_error`, `already_over`).
* `stage.py:42` shows a session that completed without a pull request as
  "devin running" for ever, while `metrics.py:33-37` counts it as one to flag.
* `metrics.py:21` says that every row falls in exactly one lifecycle bucket;
  `blocked` and `needs_attention` rows are counted as active and as needing a human.
* `cve-scan.yml:8` says that the same CVE is never filed twice. `DuplicatesBounded` is how
  far that goes: runs on different refs overlap, and a failed search
  (`file_issues.py:47`) counts as none found. A record whose CVE alias is
  published later is filed again under the new id.
* `orchestrator.py:92-93` drains the queue first "so freed-up capacity goes to the
  longest waiter", but fresh deliveries go straight to the handler and overtake it.
* `README.md:238` promises a queue for events over the cap; CI failures over the
  cap are skipped (`handlers.py:263-267`).
* `list_pr_commits` (`github_client.py:67`) says it returns "up to the most recent 250
  commits"; it reads one page, the oldest first, so on a longer pull request a
  human's latest push is not seen by `has_non_devin_commits`.
* `extract_fix_version` (`scan_osv.py`) returns the first fixed version OSV lists, which
  need not be the smallest.

Limits to keep in mind when reading the results: the documented caps, the race
with the parent, human pushes, lifetime counts and the scanner's ids are not what
the documents say in the cases section 4 lists, which are in the models and
excepted by name in the properties. A vulnerability whose CVE alias is published
after it was filed is filed, and worked on, a second time: no property forbids it,
and `FixableGetsTracked` states it. `NoAbandonedReservation` and
`EverySessionIsExplained` say nothing after a fault: `intake_resume` shows what is
left then. `FixedOnce` counts create calls: what the transport's retries leave
behind at Devin is `SessionsAccounted`'s subject.
`AttemptChain` is about each chain; when Devin lists the pull request under a
child, `find_by_pr` makes the child the parent: its chain goes on from the child's
own attempt number, and its siblings are not counted or stopped any more.

## 6. Plan

Done: `Intake`, its ledger and its proofs; `FixLoop` with `Stage`, `Metrics`,
crashes, human pushes and its proofs; `Transport` and its proofs; `Migration` with resets and
its proofs; `Scanner` and its proofs; every safety property of a passing run as a
theorem, none of them with an assumption besides the modules' own; both handlers on
one table in `Intake`.

1. Lemmas in place of the assumptions between modules: that a create call of
   `Transport` is a step of the ledger with `Surplus` = `max_retries`.
2. The observations of section 5 as runs, where a document makes the claim.
