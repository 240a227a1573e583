# Verification of the screener

TLA+ modules, TLC configurations and TLAPS proofs for the token screener in this
repository: a Python service that discovers tokens on one chain, gathers evidence on each
from a dozen upstreams, gates and scores it, sends alerts, and may place limit buys on an
exchange under caps and kill switches.

Contents: 1 the system, 2 the modules, 3 what the runs show, 4 what is proved, 5 where the
code and its documentation disagree, 6 what is not modelled, 7 plan.

## 1. The system

### 1.1 Components, their state, operations and correctness

| component | code | state | operations | correct when |
|---|---|---|---|---|
| Cycle | `pipeline/ingest.py` `run_cycle` | none of its own; the source of all concurrency | start, one token after the other, labelling, end | a failing token costs only itself; every token is finished or given up |
| Discovery, identity | `ingest.py` `discover_tokens`, `upsert_token`; `main.py` `POST /tokens` | `token` table | merge hot list, minted contracts and tracked tokens, cut to a maximum | one row per contract; no tracked token starved |
| Evidence collection | `ingest.py` `collect`, `source_health.run_sources` | `RawBundle` of one token | two phases of concurrent sources, then the oracle | no failure in any combination looks like good evidence; it ends |
| Normalisation, gates | `normalize.py`, `risk.py`, `util/reconcile.py` | none (pure) | `normalize`, the gates, `summarize` | an unknown value is never a pass |
| Scoring, metrics | `scoring.py`, `metrics.py`, `acceleration.py`, `cohort.py` | none (pure arithmetic) | `score` | stays in range |
| Decision | `decision.py` | none (pure) | `decide`, `is_stable` | a buy needs a streak of clean, steady evaluations, no open review, no halt, free exposure |
| Screening | `ingest.py` `process_token` | `token_snapshot`, `evaluation` tables | read history, collect, decide, persist | decisions rest on the history that was read, and are stored with their alert |
| Alerts | `alerts/sinks.py`, `alerts/formatter.py`, `alerts/digest.py` | `alert` table | `dispatch`, dedupe | one alert per token, state and hour |
| Order path | `execution/live.py`, `paper.py`, `portfolio.py`, `order_safety.py` | `order_record` table | `simulate_buy`, `execute_live_buy`, exposure | caps hold over concurrent cycles; a row says what the exchange did |
| Order lifecycle | `live.py` `refresh_order`, `cancel_stale_orders` | `order_record` | poll fills, cancel by TTL | filled dollars stay committed |
| Switches | `execution/killswitch.py` | environment, file, two `kv_state` rows | engage, release, safe mode and its expiry | nothing is sent under a halt that could have been seen |
| Outcome labels | `pipeline/outcomes.py` | `snapshot_outcome` table | `label_snapshots` | a label says what its window finally held; each closed window gets one |
| Database | `db.py`, `models.py` | SQLite in WAL mode | `session_scope`, one writer, busy timeout | a transaction is whole or absent |
| HTTP client | `clients/base.py`, `source_health.py` | token bucket, TTL cache, tallies of the health report | `request` with retries and backoff, `aclose` | the rate holds over every window; calls end; the report tells a dead endpoint from an empty one |
| Node reads | `clients/rh_node.py` | a page or a bound, in a coroutine | mint scan, deploy-block search | exact on a chain that grows meanwhile |
| Clients | `clients/*.py` | response caches | fetch and extract | tolerant of missing fields |
| Panel, runtime, `.env` | `scheduler.py`, `ui/runtime.py`, `ui/gradio_app.py`, `ui/envfile.py`, `scripts/one_click.py` | `.env`, its backup, cached settings and clients of each process, the loop | start, stop, save, confirm | money is spent only on settings somebody saved or confirmed; a save keeps what it does not state |
| API | `main.py` | none | views, `POST /run-cycle`, kill switch | starts cycles beside the scheduler's |

### 1.2 How they interact

A cycle is one coroutine that takes its tokens in turn. Several cycles run at once: the
scheduler's job (`max_instances=1` bounds only itself), `POST /run-cycle`, the panel's
button and `scripts/run_once.py`. They share the database, the exchange account and the
switches, and nothing else. Within a cycle, `process_token` reads the token's history in a
first session, closes it, awaits `collect`, and opens a second session in which it stores
the snapshot, reads the exposure, decides, stores the evaluation, dispatches the alert and
places the order, network awaits included, before it commits.

The panel, the API service and the one-click script are processes of their own. They share
the database and `.env`; each keeps the settings it read first (`lru_cache`) and the clients
it built from them. Only the panel drops its cache, after its own save.

The database is SQLite with a single writer. The driver begins a transaction at the first
DML statement, so the second session takes the write lock with its first INSERT and keeps
it to the commit or rollback. From then on it reads the newest committed state, not an
older snapshot, because the read transaction begins with the same statement. Another
cycle's first INSERT waits, up to the busy timeout, and then raises "database is locked".
The modules therefore derive the lock from the program counters (`Writing`) instead of
keeping it as a variable. A Postgres URL would lift this; the mutants `OpenTxWithoutLock`
and `DecideWithoutLock` show what would break.

### 1.3 What is hard

Two cycles between check and use of the exposure; a kill switch thrown while an order is on
its way; answers lost and requests repeated; crashes between the exchange and the commit;
history read before the awaits and used after them; sources that fail in any combination
and order; windows that close while the labelling looks elsewhere; a configuration file
that is rewritten under its readers; clients that outlive the settings they were built from;
page scans and searches on a chain that grows. `PROJECT.json`
("hazards") lists each at its line, with the properties that watch it.

## 2. The modules

| module | what it models | composed with |
|---|---|---|
| `OrderExecution` | `run_cycle` / `process_token` from the verdict to the commit, `simulate_buy`, `execute_live_buy`, exposure, switches, lost answers, aborts | `MCOrderExecution` |
| `OutcomeLabels` | capture, storage and `label_snapshots`, over a clock | `MCOutcomeLabels` |
| `Decision` | `decide` and `is_stable`, pure | extended by `Screening` |
| `Screening` | `process_token` from the history query to the commit, `dispatch`, for several cycles | `MCScreening` |
| `Evidence` | `normalize` and the gates, pure | extended by `Collection` |
| `Collection` | `collect`: sources, phases, failures | `MCCollection` |
| `BudgetLedger` | what the order path promises: one account | implemented by `OrderExecution` (`ImplementsAccount`) |
| `Scoring` | `score_snapshot` and its scales, pure | instantiated by `MCScreening`, whose verdicts it scores |
| `Panel` | `.env`, the panel, its loop, the API process, the one-click script | `MCPanel` |
| `HttpClient` | one upstream's client, shared by its callers, and the health report | `MCHttpClient` |
| `NodeReads` | the mint scan and the deploy-block search, a call at a time | extended by `TokenDirectory` |
| `TokenDirectory` | discovery, `upsert_token`, the forms that add a token | `MCTokenDirectory` |
| `*Proofs` | theorems about the module they are named for | |

### OrderExecution

`pc[w]` walks a cycle through `process_token`; each step ends at an await or a database
statement other cycles can observe. `ledger` is the committed `order_record` table,
`pending[w]` what the open transaction has flushed, `exchange` the orders the exchange
accepted. `GlobalSwitches`, `Preflight`, `SizeOrder`, `Recheck` are guards 1-3, 4-7, 8-9 and
the final check of `execute_live_buy`; `Accepted`, `Refused`, `NoAnswer` the outcomes of the
POST, with the client's retries (`tries`). Preflight's network reads and the order plan are
verdicts of the environment. The exchange is external: it accepts a client order id once and
answers a repeat with an error. `excused[w]` is bookkeeping of the model, not of the code:
the signals a worker could not have seen at its last check. In LIVE mode `StartCycle` assumes
trading credentials, without which the safe-mode evaluation has no price to look at.

`BudgetLedger` knows no cycles, locks or exchange: a clip is reserved if the book can carry
it whatever becomes of it, one reservation at a time, then settled, then confirmed or
released. `Account` instantiates it with the committed rows as the book and the one row an
open transaction has flushed as the reservation.

### OutcomeLabels

A snapshot is an id, a token, a time and a reading `<<price, liquidity>>`. `Candidates` is
the newest-first, limited query, `Series` the one query per token, `measure` the label.
Cycles run side by side: what one has measured (`captured[c]`) no other sees before it is
stored. `label_snapshots` reads and computes, `CommitLabels` writes; between the two another
cycle may have labelled the same window, and then the unique constraint rolls the whole batch
back. `unstored` in a label is history, not a column: the readings of its window that some
cycle held, measured but not stored, when the label was computed. Labelling may fail, a
cycle's process may crash, a snapshot's transaction may be rolled back.

### Decision and Screening

A verdict is the gate summary and the score; `decide` is the ordered rule list of
`decision.py`. `history[w]` is what the first session returned (`passes`, `scores`, and
`since`, the number of evaluations that existed then, kept by the model to state what was
stale). `Decide` and `dispatch` run under the write lock, `Commit` publishes evaluation and
alert together, `Fail` is an exception at any point. `sent` holds the keys of the messages
that left in the last step.

### Scoring

Measures are sets of at most one integer, so that "unknown" is the empty set; ratios are
parts of 10 000. Logarithms are rounded down to doublings and quotients down to integers. At
the default settings the model gives the snapshot of `tests/conftest.py` 85 points, the code
85.38; the richest snapshot of the screening run 97 against 97.26. `MCScreening` scores its
verdicts this way, so the streaks, alert and buy thresholds there meet scores the code makes.

### Evidence and Collection

A bundle maps every upstream call to the fields it answered, each with a level: `bad` is
what its gate rejects, `open` what a gate leaves to a person, `good` what passes. Absent
fields are unknown. Thresholds are therefore in the data, and what the modules keep is
precedence (`set_field`: first writer wins), derivation (which measures need which others)
and the severity each gate attaches to unknown, bad and open. The two gates on ratios of
volume are judged with the volume's level. `summarize` yields exactly the `hard`, `data`,
`review` of a Screening verdict, and so the two halves of the pipeline meet there.

`Collection` runs each source as a sequence of calls. A call answers, fails (a
`ClientError`, which the source or its client handles) or raises (anything else, which ends
the source and is logged by `run_sources`). `phase` is the two `run_sources`, then `done`, or
`failed` when the oracle's call raises, which is outside them. `basis` records on which
decimals and pools the explorer's balances were put.

### Panel

`.env` is a sequence of lines over the four fields of the form that decide whether money is
spent, and the switch, which the form does not have. `BeginSave` is everything `do_save_setup` does up to the
truncation by `write_text`: read, merge, copy of the example, backup; the file is then some
prefix of its lines (`Torn`) until `EndSave`, `SaveFails` or `Die`; a later save begins from
whatever stands there, and backs that up. `Parse` is the set of the
settings a file gives, empty when validation fails. `cache`, `services` and `cycle` are, per
process, what `get_settings` remembers, what the clients were built from, and the pair a
cycle runs on; `run_cycle` takes the first anew and is handed the second. `whole`, `wanted` and `consent`
are bookkeeping: the last version that was completely written, what the last save or edit
meant to leave, and how the script's operator got past `confirm_live_mode`. A file that a dead
write cut short is never `whole`, and editing a line of it does not make it so. The switches
outside `.env` that `confirm_live_mode` asks are thrown by others at any time: it finds them
either way. `bak` is copied atomically, a deleted `.env` occurs only at the start, and variables of the
operating system's environment, which would override the file, are not modelled.

### HttpClient

One client with its bucket, cache and retries. A call is `idle`, in `line` for the bucket's
lock, `sent` or in `backoff`; `line` is the lock's queue, whose holder may be asleep. Timers
are relative and a tick is 1/`One` of a second, so the clock needs no bound. `meter` is the
specification's own leaky bucket, filled by every attempt and drained at the rate. `Hit` is an
answer from the cache, `aclose` the end of the services under a call. An outcome is data, an
error body within a good answer, a `ClientError` or any other exception; `conn` and `source` are the
two tallies of the report.

### NodeReads and TokenDirectory

A scan is `[from, to, start, found]`, a search `[latest, lo, hi]`; each action is one RPC.
The head grows between any two. `TokenDirectory` walks a cycle through `discover_tokens`
(hot list, mints of the scan, tracked rows, cut to `Limit`), and for each token through the
date search and `upsert_token`, whose SELECT and INSERT another cycle may separate: the
loser's INSERT meets the unique constraint and its token is given up. An address is a
contract and a spelling; `Add` is the operator's form, which stores what was typed.

## 3. The runs

| run | question | result |
|---|---|---|
| `order_safety` | caps, staleness, halts and truthful rows, with two cycles and every fault; is the path an account | holds |
| `order_progress` | does every screened token end, also behind the write lock; is no taken order disowned | holds |
| `outcome_labels` | labels miss only readings in flight and are honestly censored, with two cycles; is a snapshot labelled unless newer ones crowd it out | holds |
| `screening` | earned buys, recorded calls, unique alerts, no message twice without a rollback | holds |
| `collection` | clean and buyable verdicts rest on evidence; final basis; collect ends | holds |
| `panel` | torn files, what is lost with them, untouched saves, honest notes, confirmed spending; do saves reach the loop | holds |
| `http_client` | rate, cache size, honest report; does every call end | holds |
| `directory` | exact scan and search, fair lists, unique rows, kept dates; do cycles end | holds |
| `crash_mid_flight` | is the intent durable before the request leaves | violated |
| `kill_read_fails` | does an unreadable kill switch stop trading | violated |
| `collection_scan` | with nothing failing, is the bytecode scanned | violated |
| `demo_money` | does a panel that says "no real money" start only such cycles | violated |

**Bounds, and why they suffice.** Order path: two cycles, two tokens, three order ids, two
days. Interference is pairwise (one writer, one waiter); caps of 3 dollars with clips of 2
make the second clip the one that must be refused, on either cap; two positions and two
orders a day make each count reachable and exceedable; two days let midnight pass once
between check and insert. Workers, tokens and ids are symmetric where no liveness is checked.
`order_progress` uses smaller limits, one day, no symmetry. Outcome labels: three snapshots
of one token (the labeller's tokens meet only in the batch, which one token fills), two
cycles, horizons 1 and 2, batch of two, one failure, clock to 3: windows nest, overlap and
close while an older snapshot is outside the batch or a newer one in the other cycle's hands. Screening: two cycles on one token (cycles meet only on the same token), a
streak of two, three evaluations, two hours, one verdict per gate bucket plus two scores that
are not steady. Collection: all sources but the optional metadata service, every call in every
way, a token of 6 decimals; payloads vary where gates tell values apart, and the theorems
cover every payload. Panel: all three processes, any two of them up at a time
(only the panel writes, so each reader meets the writer, and the panel's two starters meet
within it); a save of any of three forms (arming real money, the demo account, a cleared clip
size with a masked key), one death or failed write and one more save after it, so that a save
meets what a dead one left; one edit by hand, which engages the file's switch; one cycle by
hand at a time; `demo_money` needs two saves and the panel alone. HTTP client: two callers (one asleep in the
lock, one waiting), one retry, cache of one entry for two requests, so every answer is stored
over another. Directory: two cycles, two contracts born in different blocks, pages of one
block in a window of two on a chain of three, lists of two. Bounds appear as guards on
`LastDay`, `LastTime`, `LastHour`, `LastBlock`, `MaxSnapshots`, `MaxFailures`, `MaxEvals`,
`MaxSaves`, `MaxEdits`, `MaxDeaths`, `MaxUp`, `MaxPressed`, and on `OrderId` in `StartToken`.

**Deadlock** is checked in all runs but those of `Collection`, whose subject is one call of a
function that returns, and of `Panel`, where the system really stops: over a `.env` that no
longer loads every process dies as it starts, until somebody repairs the file.

**Fairness.** `OrderExecution`: weak fairness of a worker's own progress once its token has
begun, since awaits return (bounded retries, timeouts) and the event loop schedules what is
ready; no fairness for starting cycles, operators or faults. The wait for the lock ends by
the busy timeout, a step of `Progress`. `OutcomeLabels`: a cycle is started again and again (the scheduler's interval), the
clock moves, and each cycle that has begun goes on (`Onward`), errors and crashes excluded. `Collection`: every HTTP call has a timeout and a bounded number of
retries, so each source's pending call returns. `Panel`: the timer fires while the loop runs,
and a cycle of it ends. `HttpClient`: time passes and whoever has asked goes on; nobody has to
call. `TokenDirectory`: only the steps onward of a cycle that has begun (`Onward`), never the
errors, and neither the growth of the chain nor the operator.

Every property is shown to be falsifiable by a mutant of a mapped definition (a dropped
guard, a missing lock, an off-by-one, a retry without bound); mutants stand in the modules as
"Variant with a bug".

## 4. What is proved

For every value of the constants that meets the named assumptions:

* **Order path.** `TypeCorrect`, `HaltIsRespected`, `LiveRowsCorrect`, `CapsHold`,
  `ExposureStaysFree`. `Shape` says that one worker at most is in a transaction and what it
  has flushed at each step. The caps alone are not inductive: a step from `recheck` to `post`
  keeps them only if the exposure checked earlier is still free, hence
  `CapsInv = Finite(ledger) /\ BookWithinCaps /\ ExposureNotStale /\ RowFits`, where `RowFits`
  carries the check over midnight. Sums of dollars are cardinalities of sets of pairs, so the
  arithmetic rests on the library's facts about finite sets.
* **Account.** `PathIsAnAccount`: every step of the order path is a step of `BudgetLedger` or
  a stutter. The mapping takes the flushed row of the one open transaction as the reservation;
  the proof needs `CapsInv` for the account's demand that every outcome of the row fits, and
  `Shape` for there being one. `NothingDisowned`, under the hypothesis that no answer is
  lost: no committed row disowns an order taken, whatever is rolled back. With a lost answer it
  is false (section 5, `live.py:149`).
* **Exchange and ledger.** `IdsNameOneOrder`: one order per client id over both, from
  `NewToLedger` (the id a worker is about to use stands nowhere yet). `FailsClosedWhenRead`,
  `IntentDurableUnlessRolledBack` and `ExchangeWithinCaps` say what remains of two promises the
  code breaks, each under the one fault left out that breaks it: `StoredClear` carries the
  cleared switch from its read to the post under the write lock, `OnRecord` the row of every
  order taken, and with `NothingDisowned`'s `Agreed` the caps hold of what the exchange took.
* **Labels.** `TypeCorrect`, `LabelsMissOnlyUnstored`, `CensoringIsMarked`, for any number of
  cycles. The strengthening is `WindowsClosed` (a label's window lies before the last labelling,
  and what is measured from then on is later), `InFlight` (whatever is measured but not stored
  and lies in a labelled window is among what the label is excused for) and `Emptied`: together
  no window of a label gains a snapshot but those in flight when it was computed.
  `SettledWithOneCycle`: with a single cycle nothing is in flight while labels are computed
  (`NothingUnstored`), and every label says what its window finally held.
  `OneRunLabelsTheClosed`: a labelling that runs to its end owes a label to every closed window
  not crowded out; a snapshot left out faces a full batch of others no older
  (`LeftOutIsCrowded`), which counts because the table is finite.
* **Screening.** `BuysAreEarned`, `AlertsAreUnique`, `CallsRecorded`, `CallsAreHeardOnce`, from an
  invariant that relates each worker's history, row and note to the tables: evaluations grow
  only at the end, so what a worker counted stays true of the prefix it read; between the
  look-up in `dispatch` and the commit nobody else writes, so no row that the look-up cannot
  see is open when a message leaves. `FreshWhenAlone`: if no two cycles
  screen one token at once, the streak before a buy has no gap. Without that hypothesis it can
  have one (hazard at `ingest.py:607`).
* **Collection.** `FailsClosed`, `BuysAreScreened`, `BasisSettled`, `TypeCorrect`,
  `CleanWithoutDecimals`. The verdict is a function of the bundle, so the first two read the
  gates backwards; the order of events enters by `ScanNeedsFailure` (where the node's source
  can be, given what it has) and `BasisKept` (phase two touches nothing the basis recorded).
  `CollectionAssumption` says of the upstreams only that a scan which answered had the code.
* **Panel.** `LossNeedsTornFile`: a save that begins over the last complete version backs that
  version up (`SaveBacksUp`, with `OneText`: the file is one text), and no other step touches
  the backup; so the version is lost only by a save that begins over a torn file. `SpendingIsConfirmed` on
  `Confirmation`: the script's cached settings never change between its question and its
  cycle, whatever happens to the file. `BannerIsTrue` on `Noted` and a chain of lemmas about
  `write_env`: the value a field has in the result is the form's or the file's, also when the
  merge left it out because it was equal. `SavesKeepTheRest`, `TypeCorrect`.
  `ReopeningChangesNothing`: per field, what the form shows is what the file says or what its
  absence meant, so the merge puts nothing else back. `TornReadsAreSafe` from `Orderly`: every
  version has each key once and the switch before the exchange key, and what is seen of a write
  is a beginning of it, so a file cut before the switch has no key to trade with.
  `DemoIsDemoWhenRebuilt`, what remains of the violated `DemoIsDemo`, from `Current`: while the
  panel speaks of a mode the settings in force are those of the file it has just saved.
* **HTTP client.** `RateIsKept`, from `Allowance` (what has been sent, what is in the bucket and
  what accrued since the last look never exceed the capacity, the sleeper included).
  `CacheStaysSmall`, `HealthReportIsTrue`, the latter with `Queued`: who is in the line. `TypeCorrect`
  has a hypothesis of arithmetic, that a power of two is a natural number: the provers have no
  rule for the back-off's powers.
* **Directory.** `ScansAreExact`, `SearchesFind`: the invariants of the two loops, kept under
  `Grow`. `RowsAreUnique`: whatever is not typed is in lower case wherever a cycle carries it
  (`NamesInv`). `DatesAreKept`: a date in hand or stored is at most the birth (`DatesInv`).
  `TypeCorrect`. `ListsAreFair` is about counting: a list is full, or nothing offered is missing
  from it; it needs the contracts and spellings to be finite sets, which the two assumptions
  say. `ReadsAreShort`: full pages and halved ranges, whatever the chain does meanwhile.
* **Scoring.** `ScoreIsBounded`, and three facts about what the score says: `SilenceIsNotFree`
  (a token nobody knows anything of scores 38.75, whatever the settings), `SilenceBeatsBad` and
  `ChaseStartsFromTheTop` (section 5). `FlagsNeverHelp`: a scan that finds more only takes points.
* **Progress, without fairness.** Liveness is beyond the prover, but its measure is not.
  `ScreeningShrinks`, `CallsShrink`, `CyclesShrink` and `CollectShrinks` prove for any number of
  workers, retries, contracts and blocks that what is left of a screening, a call, a cycle or a
  collection goes down (lexicographically) with each step of its own and never up with anyone
  else's. What the runs add is that such a step is always enabled and, under the stated
  fairness, taken.

Only model-checked: the liveness properties `ScreeningEnds`, `LabelledUnlessCrowded`,
`CollectEnds`, `SettingsReachCycles`, `EveryCallEnds` and `CycleEnds`. Every other property of
a passing run has a theorem.

## 5. Where the code and its documentation disagree

* **The bytecode is never scanned** (`ingest.py:266`). After a successful ERC-20 read the
  node's source evaluates `b.onchain_total_supply`, an attribute that does not exist; the
  exception skips the scan and the deploy block, and the contract gates reject the token.
  `CleanWithoutDecimals` is the sharp form: a token gets past the gates only if the ERC-20
  read *fails*. As the code stands the order path is reached only by such tokens, with shares
  scaled by an assumed 18 decimals.
* **A half-read scan passes** (`risk.py:366`): an unread proxy slot counts as read as soon as
  some other flag is in the list.
* **The intent is not durable** (`live.py:139`): it is flushed, not committed; a crash rolls
  it back although the exchange has the order. `IntentDurableUnlessRolledBack` proves that
  nothing else loses it.
* **A lost answer frees exposure** (`live.py:149`): an order that may exist is recorded as
  rejected.
* **An unreadable kill switch is "not engaged"** (`killswitch.py:38`); `FailsClosedWhenRead`
  proves that the failed read is all that is wrong.
* **A save over a torn file loses the only complete copy** (`envfile.py:57-61`, `:69`, before
  `:95`). After a write that died `.env` is cut short and `.env.bak` is the last complete
  version; the next save copies the torn text over it. `docs/WINDOWS.md:133` promises "Your
  previous file is kept as `.env.bak`". `LostOnlyOverTorn` says, and `LossNeedsTornFile` proves,
  that nothing else loses it; `Recoverable` without that exception is false in the run. The
  step that line advises, deleting `.env`, ends the same way: the first save after it backs up
  the example (not modelled).
* **A label can mean "so far"** although its window has closed: `outcomes.py:140-142` rules
  it out for one cycle, `main.py:242` and the panel's button start a second one, whose reading
  may be stored after the label. `MissesOnlyUnstored` bounds what is missed,
  `SettledWithOneCycle` proves that it takes a second cycle.
* **Old windows are never labelled** (`outcomes.py:161`) once newer snapshots fill the batch;
  `LabelledUnlessCrowded` states what remains true.
* **The loop keeps its clients** (`runtime.py:93`). The panel confirms "no real money" of a
  saved demo account while the running loop's exchange client is the real one; the new mode
  reaches the next cycle, the new account only the next start (`DemoIsDemoWhenRebuilt`).

Smaller ones, without a run. In the panel: clearing POSITION_USD or the daily exposure writes
a `.env` that no process can load (`envfile.py:101` protects only the mode, the account flag
and two others); a write cut short loses the switch's line; a save from a stale second tab reverts the first tab's; the script
skips its question while a switch is engaged, and the cycle it then starts does not ask again
if the switch is released; the API process never sees a panel save until it is restarted.

In the HTTP client: a good status with unreadable JSON escapes uncounted, though
`source_health.py:21` counts a "bad payload" as failed; an error body within a 200 is cached
for its whole time to live and counts as a good connection; an attempt after `aclose` raises
an exception no source expects; discovery runs outside `use_report` (`ingest.py:710`), so its
endpoints are never in the report; two callers of one key both go to the network.

In the directory: an address typed in mixed case gets a second row with caps of its own; a
tracked token may be starved by hot ones and mints, though `main.py:182` says that adding it
"only schedules it for screening"; an error on a later page loses the pages before it; a
cycle that was slow may replace a deployment date by an older one; `is_proxy` unread in one
cycle erases what an earlier one knew; `muted` is never set.

In the score: `scoring.py:11-13` says silence is "never good", yet a measure known to be at
its worst counts 0 and an unknown one 0.35, so a source that fails lifts a bad token
(`SilenceBeatsBad`); `score_momentum` "explicitly punishes parabolic moves" from full marks,
so a rise of 16 % is rated above one of 15 % (`ChaseStartsFromTheTop`).

Elsewhere: `price_info`'s liquidity wins over the promised minimum
(`normalize.py:131`, `reconcile.py:65`); the fallback chain mixes windows of providers that
`normalize.py:95-99` wants kept apart; `gate_unlock` rejects what its docstring only blocks;
`schemas.py:33` lets LIVE_ONLY tokens be paper-bought, `decide` only alerts; the distance to
the 7-day base is the one measure whose absence passes; a streak longer than the ten
evaluations that are read can never be met.

## 6. Not modelled, and why

The statistics in `metrics.py`, `acceleration.py`, `cohort.py` and `liquidity_floor.py` are
float arithmetic without state; so are the thresholds of the gates, which the levels of
`Evidence` stand for. Message texts, the digest, logging, the web views, the panel's tables
and the checks of `diagnostics.py` keep no state the rest depends on. `dry_run_token` repeats
`process_token` without storing. Field extraction in the clients is tolerant parsing: what a call
can end with is modelled, not how a payload is read. Tokens' names and the sample of
transfers in `collect` are read by no gate. The two reads of the exchange's book and the two
reads of supply and decimals are one call each: the code treats the failure of either alike.
`refresh_order`, `cancel_stale_orders`, `holders_from_logs` and `get_transfer_logs` have no
caller, so there is no behaviour to model. How long an operator's `engage` waits behind a
writer is a question of real time. A node that answers old blocks with empty code would
mislead the search; `NodeReads` assumes an archive. The Postgres deployment is covered only
by mutants.

## 7. What is left

A property for the minimum of liquidity that `reconcile.py` promises; the order
lifecycle, once something calls it.
