# actop in TLA+

A verification development for [actop](../src/README.md), a sudoless monitor for Apple
Silicon written in Python. The program reads cumulative counters of the kernel (IOReport,
libproc, IOKit, getifaddrs, SMC), takes differences between readings, turns them into
rates and shares, judges them with alerts, and shows or exports the result. The modules
here model that chain, TLC checks them on small instances, and TLAPS proves what matters
most for every instance. Paths below are relative to `src/`.

## 1. The system

    kernel counters --> IOReportSampler --> Monitor --> AlertEngine --> TUI / JSON stream / /metrics
    SMC sensors ------> (one per thread)    (api.py)    (analytics.py)    (tui, export.py)
    process lists  --> get_top_processes ----^
                       (module-level caches)

| component | source | state | operations | what is hard | what makes it correct |
|---|---|---|---|---|---|
| IOReportSampler | `actop/sampler.py` 40-180, 456-463 | three baselines: IOReport sample, time, net and disk totals | `sample`, `_sample_once`, `close` | zero-length frames, NULL samples, wrapping or vanishing counters, early returns that move some baselines and not others | every byte, joule and tick between the first and the last frame is reported once |
| reference ownership | `actop/sampler.py`, `actop/ioreport.py` | the CoreFoundation references behind the baseline and the subscription | the same calls, from any thread | a manual release, no lock, calls that let other threads run | nothing used after release, released twice or leaked |
| SMC reader | `actop/smc.py` | one IOKit connection, whether it is any use, the keys found | read, close | the first answer is remembered; a read after a close opens again | never two connections, none after the close |
| sample conversion | `actop/sampler.py` 184-454, 548-751, `actop/api.py` | the sub-samples of a call | `_convert`, `_average_samples`, `_sample_to_snapshot` | two functions read the same residencies; units, rounding, missing sub-samples | shares add up, the views agree, a frame is a mean |
| AlertEngine | `actop/analytics.py` | four sustain counters, two ratcheted ceilings, the swap window, session energy | `feed` | order of observe and compare, window lengths, a wall clock that steps back | the verdicts are what the whole history calls for |
| Monitor, AsyncMonitor, Profiler | `actop/api.py` | a sampler; the Profiler also a sample list, alerts, a stop event and a thread | `get_snapshot`, `start`, `stop`, `register_alert`, `get_summary` | callbacks that raise or stop, a join before the close, retries for ever | one caller at a time; nothing after `stop`; `stop` returns |
| JSON stream | `actop/export.py` 206-253 | a count | `run_json_stream` | a broken pipe or an interrupt anywhere | a record per snapshot, as many as asked, everything closed |
| metrics server | `actop/export.py` 256-356 | the latest snapshot and frame under a lock, a stop event | `do_GET`, `_sample_loop`, `serve_prometheus` | request threads against the sampler thread, shutdown without a join | scrapes are consistent and go forward; the snapshot stays fresh |
| TUI polling | `actop/tui/app.py` | stop event, message queue, process-table flags | `poll_metrics`, message and key handlers | a thread worker that cannot be cancelled, state read before a sample and used after it | pause quiets, somebody polls, quitting ends, the table fills |
| dashboard data | `actop/tui/widgets.py` 412-460, 1177-1455, 1536-1640 | rolling histories, a sample count, an alert engine | `update_metrics`, `_avg_max`, chart columns | padding counted as readings, two charts on one scale, chart against alert | labels and charts are those of the session |
| dashboard screen | `actop/tui/widgets.py`, `actop/tui/app.py` | preset, glyph, widths, what waits for a layout | frames, keys, resizes, layouts, deferred paints | a width that is known only after the next layout, a repaint that must not count a frame twice | a settled screen is current; a row keeps its form |
| filter editor | `actop/tui/app.py` 523-580 | filter, text, focus, what to restore | keys, `Changed` and `Submitted` events | events that are older than the text the handler reads | the filter in force is the one on display |
| process table | `actop/utils.py` 130-287, `actop/api.py` 20-53, `actop/tui/app.py` 53-77, 582-670 | two caches keyed by (PID, start time), kept by the module | `get_top_processes`, `sort_processes` | PID reuse, a GPU time that falls, a registry that lists more than libproc, a pool of two lists | a delta is its own process's; the rows add up; the top rows are the top |
| native counters, registries | `actop/native_sys.py`, `actop/*_registry.py` | none | one reading each | partial failures | only inputs here |
| command line, configuration, models | `actop/actop.py`, `actop/config.py`, `actop/soc_profiles.py`, `actop/models.py` | none after start | validation | bounds | only constants here |

The calls go one way: a thread owns a loop (the Profiler's `_run_loop`, the server's
`_sample_loop`, the TUI's `poll_metrics`), the loop calls `Monitor.get_snapshot`, which
calls `IOReportSampler.sample` until it gets a frame, then hands the snapshot to an
`AlertEngine` and stores, posts or appends the result. Threads share the sampler (through
`close`), the dict and the stop event of the server, the list and the event of the
Profiler, the message queue and flags of the TUI, and the process caches.

## 2. Modules

| module | models | abstract specification | proofs |
|---|---|---|---|
| `Sampler` | the values of the sampler's baselines | ghosts that count what really passed | `SamplerProofs` |
| `SamplerRefs` | the references behind them, at the grain of threads | `SerialSpec`: one call at a time | `MonitorProofs` |
| `SmcReader`, `Session` | the SMC connection; sampler, reader, and their callers | | `MonitorProofs` |
| `Profiler` | Profiler, extends `SamplerRefs` | `SerialSpec` of `SamplerRefs` | `MonitorProofs` |
| `MetricsServer` | the server, extends `SamplerRefs` | | `MetricsServerProofs` |
| `Residency`, `Conversion` | a cluster's clock, utilization and shares; from a delta to the snapshot and its row | exact fractions; bounds taken from the readings | `SharesProofs` |
| `Percent`, `AlertEngine` | percentages; `feed` | `AlertHistory`: verdicts from the history | `DashboardProofs` |
| `Dashboard` | histories, labels and charts, extends `AlertEngine` | `RollingContext`: average and peak from all readings | `DashboardProofs` |
| `Screen` | layouts, repaints and the form of the rows | | `ScreenProofs` |
| `FilterEditor` | the filter, its field and the queues between | | `ScreenProofs` |
| `TuiPolling` | pollers, UI thread, keys | | `TuiPollingProofs` |
| `ProcShares`, `ProcTable` | the caches and one call of `get_top_processes`; lists, pool, order and height of the table | ghosts that count real use | `SharesProofs` |
| `Sums` | the sum of a function over a finite set | | `SumProofs` |

Each `MC` module gives the constants of one of them to TLC; `MCSession` and `MCScreen` also
compose. In `MCSession` a Profiler, a stream and a caller use the same sampler, one of the
three in each behaviour: no program runs two of them on one Monitor. In `MCScreen` the screen
and the filter editor share the switch of the process table and nothing else, so each is
explored from every start while the other rests. Actions carry the name of the
function they model where it is one function; `PROJECT.json` maps every definition to its
lines. An operator whose comment begins with "Mutant" is a plausible bug in the definition
that follows it and is used by no specification; each property fails under one of them.

### Sampler
`_sample_once` is one of three steps: `SeedFrame` (no baseline: lines 99-110),
`ZeroFrame` (a baseline, no time: 112-120, which replaces the IOReport baseline and returns
before the I/O baseline is touched) and `RateFrame` (112-171). A NULL sample is `None` and
becomes the baseline like any other, so that the next frame seeds. `SampleDirect`,
`SamplePrime`, `SampleLoop` and `SampleTurn` are the branches of `sample()`; the `sleep`
before each sub-sample is `wakeAt`. The machine ticks, burns energy, moves bytes and makes
the totals fall (a wrapped 32-bit counter, an interface that leaves) or become unreadable.
The four totals go through the same expression, so one total stands for each. Durations
are ticks, so a rate is its numerator, summed up in the ghost `sums`; `seed` and `base`
remember what the machine had counted at the first frame and at the I/O baseline. Energy
that a zero-length frame drops is counted as dropped and never as reported: the code loses
it, and with sub-sampling it cannot happen (`SubsamplesComplete`).

### SamplerRefs, SmcReader, Session
The libraries are loaded with `ctypes.cdll`, which releases the interpreter lock during a
call, so another thread may run in every C call and between any two Python statements that
make one. A step is what lies between two such points; an attribute read as an argument
may have changed when the function uses it (`arg`). `SerialSpec` is the discipline the
sampler needs: one call at a time. It is the abstract specification that `Profiler`
implements and `MetricsServer` does not. `Session` puts the reader behind the sampler: every
sub-sample may read it (`_convert` asks for `fan_available`, line 447), a full sample ends
with the readings, `close()` with the reader's. `CallerSpec` is anybody who
samples and closes in any order, `StreamSpec` is `run_json_stream` (the first sample in
the constructor, then wait, sample, write; a failing write or an interrupt at a wait or a write).

### AlertEngine, AlertHistory, Dashboard, RollingContext
`feed` is one action. `AlertHistory` has no counter, deque or ratchet: it states the verdict
of a frame as a formula over all snapshots so far (an alert fires when its condition held in
each of the last `SustainSamples` frames; a ceiling is the greatest value ever measured; swap
growth compares the two ends of a window). `KeepsPromise` is the refinement. Quantities
are whole numbers in fixed units and `round` is Python's half-to-even. `update_metrics` is
`feed` and the appends of one frame: histories are full deques from the start, as in the
code, and `_avg_max` knows by the sample count what in them is padding. `RollingContext` has
neither: it computes the average and the peak from all readings, and `ShowsContext` is the
refinement. A chart is the number of dots in each of its cells.

### Screen and FilterEditor
Textual is external: what the code hands to `call_after_refresh` waits in `callbacks` until
no layout is due, a layout computes widths and tells of a new panel width by an event, and
frames, keys and resizes come in between. A row is its lengths: a head, and three tiers of
an annotation. In `FilterEditor` a key passes the application's queue and, with the focus in
the field, the field's; the field edits its text at once and the `Changed` event that tells
of it travels through both queues. A message is handled in one step, and keys
come at any time, however many messages wait. Two ghosts tell the cases of section 5 apart:
`hasty` says that the field was opened while a message of the Input's waited, so that the text
and the filter saved may not belong together, `cancelled` that an edit was taken back and
nothing was typed since, and from which of the two kinds of opening.

### Profiler, MetricsServer, TuiPolling
A snapshot is its number in the session. Waiting for the interval is the time between two
steps. In `Profiler` a callback may return, raise (swallowed) or call `stop` (the join of
the current thread raises and is swallowed as well, the event stays set). In
`MetricsServer` a request is accepted while the server serves, its `GET` reads the snapshot and
later the frame, as the two `with lock` blocks do, and may do so during the shutdown, which
follows lines 350-356 without a join of anybody: the sampler thread and the handlers are
daemons and die with the process wherever they are. The snapshot and the frame are
published by one step, as they are under one hold of the lock. In `TuiPolling` the stop event
is shared by all pollers, `Resume` clears it and starts another one, a tick reads
`_show_processes` before its sample, messages wait in a queue, and the first one takes the
splash away and is painted after the next layout.

### ProcShares and ProcTable
Processes spawn, exit, reuse PIDs, use CPU and GPU time and close Metal clients, whose time
then leaves the process's sum; the wall clock ticks, stands still or steps back; a call lists
any subset of the living processes, and the registry any subset of those with GPU time, with
all or a part of the time of each: its clients are walked one by one. A generation number
stands for the start time. A share is its numerator and denominator; `Whole` is what the
package's power comes to in the same units, which is positive when nobody has a share of it. A
result stays until the machine moves on and is compared with ghosts of what was really used. A
list cut to its first n rows is any set of n rows that no row left out outranks, so that ties
come out every way.

### Residency and Conversion
A state name is what resolving it tells apart: inactive, unknown, a frequency, an index into
the frequency table, which may be missing, unordered or too short. A channel has a core index
or none: `Item` adds its time to the distribution in any case, keys its metrics by the index
when there is one, and lets a later channel of the same index replace an earlier one, like
lines 312-316. The ghosts `items` and `even` count the channels and say whether they have
indices of their own and one total time. Fractions are compared exactly. The GPU is a cluster
of one channel. `Conversion` makes one or two sub-samples of such clusters with energies in
four units and bandwidth histograms, leaves some out as `_sample_once` does, and averages what
came. The code's floats are whole numbers here: an energy is a whole multiple of the time it
was drawn in, so that watts are whole, and what the code cuts off or rounds is cut off or
rounded. `_average_samples`, `count` and `Mean` take the samples as an argument, like the
code's. The ghost `drawn` keeps the readings the parts of a call were made of. None is `Null`
in these two modules and `None` in the others, because `SharesProofs` extends both kinds.

## 3. Runs

| run | bounds | properties: what they say |
|---|---|---|
| `sampler` | 1 or 3 sub-samples; 3 ticks, joules, bytes (1.9M states) | `TypeOK`; `BytesNeverInvented`, `BytesReportedOnce`, `FramesTile`: energy, time and bytes are reported once and only when they passed; `SubsamplesComplete`: sub-samples drop no energy and a call of them gives a frame |
| `session` | 3 references, 2 threads, 2 snapshots, 2 alerts, limits 0-2 (28k) | `NoFault`, `NothingLeaks`, `ClosedHoldsNothing` of the references, `SmcFollowsSampler` of the connection, under all three clients; `CallsSerial`, `StoppedIsFinal`, `SamplesComplete`, `StopReturns` of the Profiler; `StreamComplete` |
| `conversion` | 5 names, 2 channels of 2 indices or none, 5 tables, 3 readings, 1 or 2 sub-samples (52k) | `SharesClosest`: shares add up to 100 and no whole numbers are closer; `ViewsAgree`: what is not active is idle, up to the rounding, where every channel has an index of its own; `FrameIsMean`: power, cores, cluster and bandwidth of a frame against the sub-samples it was made of; `BarFits` |
| `dashboard` | 10 snapshots, 5 frames, alert window 2, history 3 (111k) | `KeepsPromise`, `ShowsContext` (refinements); `EnergyOverTime`: energy is bounded by the time that was counted; `PercentsAgree`: charts with each other and with the alerts; `ChartTrue` |
| `screen` | 2 terminal widths, 3 row shapes, 2 frames, 2 events; 4 texts, 5 keys (1.4M) | `SettledIsCurrent`, `SparksInOrder`, `FormHolds`; `FilterAgrees`: with nothing left to handle the filter is that of the text, but for the cases of section 5 |
| `serve` | 1 request thread, 3 snapshots, 2 references (144k) | `ScrapesGoForward`, `FrameNotOlder`, `KeepsWarm`, `ScrapeAnswered` |
| `tui` | 2 pollers, queue of 2 (213k) | `PauseQuiets`, `AlwaysPolled`, `QuitEndsAll`, `TableFills` |
| `shares` | 2 PIDs, 2 processes started, 1 tick, 1 step back, 2 sizes, limit 1 (261k) | `CpuOverInterval`, `GpuNotInvented`, `CachesCurrent`; `SumReconciles`: no rows get more than the package's power, and all of them exactly that of each kind any of them used; `TableFaithful`: the rows shown are the top of all |
| `serve_paired`, `serve_shutdown`, `tui_exclusive`, `filter_cancel` | as small as the counterexample | the four findings of section 5 |

Why the bounds are enough.
- *Sampler*: a hazard needs a seed, one odd frame (zero-length, NULL, after a fall or an
  outage) and one frame that shows the damage; three ticks and three units of each quantity
  leave room for that with different amounts, and three sub-samples have a first, a middle and
  a last turn.
- *Session*: the serial discipline has at most three references in play (baseline, new one,
  a stale argument); a limit of two has a first and a last record, and a stream without a
  limit is cut after two snapshots.
- *Conversion*: totals of 3, 6 and none make thirds and sixths, of which 100 points are never a
  whole multiple, so one or more points are left over, with ties and without; the tables
  include entries exactly at 40 % and 75 % of the ceiling. All these times come as core 0; as
  core 2, and without an index, a channel is in one state all the time, which is enough for a
  second core, a replaced one and a nameless one. Calls of two sub-samples draw from three
  channels, two of one index and one of another, up to two each, so that the cores of one sub-sample differ,
  the sub-samples differ, and one of them may have no cores or not come at all: averaging
  looks at sums only.
- *Dashboard*: a window of two has all the shapes a longer one has (short, full, broken, moved
  on); a history of three is longer than the window and is overrun by five frames, which also
  fill the swap deque of three and push two out; the snapshots lie on both sides
  of every comparison, rounding included, and timestamps repeat, jump and go back.
- *Screen*: of the two terminals one is too narrow for the grid beside the process table and wide
  enough without; the shapes grow by a digit and shrink again; one event may find another's
  paint waiting. Five keys open the field, type, leave, open it again and cancel, and all of
  them may be pressed before the first one is handled.
- *Server*: one handler that scrapes again and again sees every ordering of two
  scrapes one after the other; the proofs cover any number.
- *TUI*: two pollers are an old and a new one; a queue of two can be full and have an
  older frame before a newer one.
- *Shares*: one PID used twice, or two at once; amounts of one or two tell "all", "part" and
  "none" apart; with one tick and one step back the clock goes on, stands, goes back and goes
  on again between calls; with a limit of one the two lists of two processes can differ.

Deadlock is checked in `sampler` and `conversion`. In the others the program
itself ends (the server, the stream, the Profiler and the TUI stop) or the session is cut by a
bound.

## 4. Fairness

`FairSpec` of `MetricsServer` and `TuiPolling`, and the same conditions on the Profiler in
`SessionSpec`, are used for the liveness properties and assume only what the scheduler and
the kernel give:
- weak fairness of each thread's steps: a Python thread that can run does. Of a request's
  thread this is assumed only while the server serves: the handlers of a
  `ThreadingHTTPServer` are daemons, and after Ctrl-C the process ends without them
  (`actop/export.py:350-356`), so `ScrapeAnswered` promises nothing to a scrape that the shutdown
  overtakes;
- strong fairness of "the sample is not NULL" and of "the frame has time in it"
  (`Snapshot`): `get_snapshot` retries every 10 ms, IOReport does not fail for ever and the
  monotonic clock moves. Nothing is assumed of a closed sampler, which returns NULL for ever;
- strong fairness of `Post` in the TUI: the queue, bounded in the model, may be full now and then;
- nothing of the user: nobody has to press a key, scrape, register or stop.

The stream, the caller, the screen and the filter editor are checked for safety only.

## 5. Where the code and its documents differ

Shown by a run:
- `serve_paired`: a scrape takes the lock twice (`actop/export.py:269` and 273) and may pair a
  snapshot with the verdicts of the next one. What does hold, and is proved, is that
  verdicts are never older than the snapshot.
- `serve_shutdown`: after Ctrl-C the monitor is closed while the sampler thread, told to stop
  but not joined, may be inside a sample (`actop/export.py:356`): a reference is used after
  its release or released twice.
- `tui_exclusive`: pausing and resuming within one sample leaves the old poller running beside the
  new one (`actop/tui/app.py:442`); `exclusive=True` cannot stop a thread.
- `filter_cancel`: when the text that was in the field before the edit does not compile, the
  `Changed` event of the cancelled edit's last key finds the old filter restored and replaces
  it, and the `Changed` of the restored text cannot put it back (`actop/tui/app.py:549-580`).

Excepted by a property of a passing run, which is violated when its condition is dropped:
- `FilterAgrees`: the filter and the text saved as the field opens (`actop/tui/app.py:541`) do not
  belong together when a `Changed` event still waits. In "/", escape, "z", "/", escape, typed
  fast, the z is handed to the field before the first escape comes back from it and closes
  the field; the second "/" saves "z" with the filter of before, the `Changed` of the z comes, and
  the second escape puts that filter back (`actop/tui/app.py:554`). The text it puts back is the
  one that is there, so no `Changed` follows that would compute the filter from it, as the
  comment at `actop/tui/app.py:550-552` expects.
- `SumReconciles`: all processes together need not be attributed the package's power, as
  `actop/tui/app.py:662-663` and `docs/SPEC-system.md:420-421` say. When no listed process has
  used the GPU, or the CPU, every share of it is 0 (`actop/utils.py:246` and 258) and its power is
  attributed to nobody, also when a process that libproc does not list has used it.
- `ViewsAgree`: a channel that belongs to a cluster by its name but has no core index, or one
  that was there before, counts in the residency distribution and not, or not beside the other,
  in the utilization (`actop/sampler.py:313-316`): one nameless channel, busy all the time, is
  0 % utilization and 0 % idle. Without a frequency table a state that names its own
  frequency is active in the utilization (`actop/sampler.py:577`) and idle in the distribution
  (`actop/sampler.py:632`): 100 % and 100 %. The two "are views of the same residency data and must
  not disagree" (`actop/sampler.py:578-580`).

Met on the way, each visible in one expression:
- `docs/SPEC-system.md:93` says all alerts are sustain-counted; the thermal alert
  (`actop/analytics.py:282`) is that of the current frame.
- `docs/SPEC-system.md:356` speaks of the session's peak; the label is the peak of the 500
  readings retained (`actop/tui/widgets.py:1431` and 1453), which is what `RollingContext` says.
- `actop/tui/widgets.py:575-577` says the bar's columns add up to its width; when every share
  is 0 (a cluster without residency) only the four left-over columns are handed out.
  `BarFits` is about the others.
- The residency distribution of a sub-sampled frame is that of its last sub-sample
  (`actop/sampler.py:201`, 371), while the utilization beside it is a mean; a sub-sample
  without a network or disk reading counts as 0 B/s in the mean.
- The GPU and power modes of the table sort a pool that was picked by CPU and by memory, so
  a process that is first in neither is not shown; `TableFaithful` is about the two modes that
  are picked for, and a table higher than the pool's limit shows the pool.
- The inline sparkline of a power row comes and goes with the digits of the reading
  (`actop/tui/widgets.py:1683-1686`), unlike the annotation, whose form `FormHolds` protects; the
  histories of the cores miss the frames that came while they were hidden
  (`SparksInOrder` says at most once, not exactly once).
- The first frame waits for the splash to go (`actop/tui/app.py:424`); if the next frame is handled
  before that callback it is painted first. `Screen` assumes an interval in between, which is
  what the program has.
- The help text (`actop/tui/app.py:172` and 180) says a resumed table begins without deltas; the
  caches outlive the pause and the first deltas span it.

## 6. Proofs

All theorems are about the specification with its constants left open: any number of
threads, references, processes, names, cores, sub-samples, frames; any widths, texts and
lengths. They assume the named `ASSUME`s of the modules and nothing else. Where an assumption
is more than a type, the code has it: the thresholds of the alerts are 1 to 100
(`_validate_percent_threshold`, `actop/actop.py:110-119`), the sustain window is at least one
frame (`actop/analytics.py`, `max(1, int(...))`), a bandwidth histogram lists its buckets by rising
upper edges (`_channel_bandwidth_gbps` takes the bucket before for the lower edge), and the
energies of a reading are whole multiples of its time, which is how the model avoids
fractions (section 2). Every safety property of the passing runs is stated by a theorem.

### The sampler and what owns it
- `SamplerProofs`: type correctness and the four accounting properties, which are inductive
  together with `Baselines` (the counters have only moved on since the baselines; the I/O total
  rose by at most what entered it, and by exactly that while `intact`) and `Loop` (the sleep of
  a turn ends after its baseline). The properties alone say nothing of the next difference,
  hence the strengthening. Each frame kind is a lemma; `Compose` puts the parts of the
  invariant together.
- `MonitorProofs`, the references: `At` says, for each place of a call, what is live and what
  the argument is; `OneCall` makes it enough to follow the moving thread.
- The sessions: their steps are serial steps too, so the ownership carries over; `Reader` says
  when the SMC reader is used (`smcPc`) and that it counts its one connection right, `Stage` what
  each place of the stream says of its counts. That a closed sampler opens no connection
  again rests on `At`: a store means there was a baseline, and a closed sampler has none.
  Proved for any caller, and for a stream of any limit.
- The Profiler: its steps are serial steps (`Turns`: which thread may be in the sampler, by
  where both are), so the three ownership theorems carry over. `SamplesComplete` needs `Listed`:
  how many snapshots the list holds by where the worker is, and that they are the first ones
  in order; the summary is a beginning of the list, which never shrinks.
- `MetricsServerProofs`: `Forward`, the dict only grows and whatever was read or answered is behind
  it.
- `TuiPollingProofs`: the newest poller works unless told to stop; a poller that has posted
  since the pause is not waiting for another frame.

### The alerts and the dashboard (`DashboardProofs`)
- `PromiseKept`, the refinement of `AlertHistory`: `Remembers` says what each piece of state
  knows of the history. A counter is the length of the run of frames on which its
  condition held, a ratchet a measured maximum, the deque a suffix.
- `EnergyAccounted`: `EnergyKept` ties the energy and the counted time to the last timestamp of the
  history: the time counted is that between the first and the last timestamp plus what the
  clock went back, and every frame's power was at most the peak.
- `DashboardFeeds`: a dashboard's steps are steps of the engine, so that what is proved of the
  engine is true of its dashboard.
- `ContextShown`, the refinement of `RollingContext`: `Charted` says that the sample count is the
  length of the history and that the last entries of each deque are the last readings
  (`Retains`); what is before them is padding, which `_avg_max` never reads.
- `PercentsAlwaysAgree`: `ColumnRight` compares two percentages of one column, which share their
  denominator; `ColumnHeld` says that a column at or above the threshold is a frame on which the
  alert's condition held. At a threshold of 1 % only one direction is true: a chart shows a
  positive draw as at least 1 %, and a draw that rounds to nothing does not count for the
  alert. That is why the property, and the lemma, ask for a threshold above 1 there.
- `ChartsTrue`: a cell of a chart of any width and height is what is left of its column's bar
  (`BarCell`), so adding up the cells gives the bar back.

### The screen and the filter (`ScreenProofs`)
- `SettledAlwaysCurrent`: `CInv` says what is already right while something still waits. Each part
  names what it waits for: the preset fits unless a resize is under way (`PresetFits`), the
  layout is the present one unless it is dirty (`LaidIsNow`), the rows are painted for it unless
  their callback waits (`RowsCurrent`, `PowerWide`), the cores likewise (`CoresLaid`,
  `CoresCurrent`). Settled means that nothing waits.
- `SparksAlwaysInOrder`: entries are numbers of frames and none is later than the last frame.
- `FormAlwaysHolds`: a row remembers its widest head and tiers (`RowKept`), so at the same width
  a tier that did not fit once is never chosen again. This is an action property: it is about
  two paints.
- `FilterAlwaysAgrees`: `Pending` says what travels. The last message that tells of the
  text tells of the text that is in the field, in the field's queue or else in the
  application's; when neither holds one, the filter is the text's, unless the last thing that
  happened to the text is that a hasty opening was cancelled (`Follows`). What an opening that
  was not hasty has saved is a text and its filter, so a cancelled edit finds them in agreement.

### Processes and conversion (`SharesProofs`)
- The caches: `CInv` says what they remember of each living process (`CpuRemembered`,
  `GpuRemembered`), that every key was once a started process (`KeysStarted`, which is why a
  reused PID inherits nothing) and `GpuWithinCpu`.
- `PoolIsFaithful`: that the pool loses no top row (`PoolKeepsTops`) is a counting argument on the
  library's facts about finite sets: a row the pool lacks is outranked by a full list of
  rows the pool has.
- `RowsAddUp`: the rows' shares of CPU time are parts of the sum that was divided by, so any
  choice of rows gets at most the total. All of them get it exactly where the total is
  positive and time has passed for each; where it is 0 they get nothing, which the property
  says and section 5 tells.
- `SharesAreClosest`: `ApportionFacts` says what Hamilton's method gives (the floors, plus one point
  for as many buckets as points are left, and those with the greatest fractions first); from
  there moving a point can only make the sum of errors greater.
- `UtilizationAgrees` is about channels that have indices of their own and report one time,
  with a known ceiling or without a state that names its frequency; the other cases are
  in section 5. `ClusterInv` carries, core by core while the items arrive, the sum of the
  utilizations against the time of the active states (`Agree`), each core adding at most half
  a point; the mean is cut once and the idle share rounded once (`TwoViews`).
- `RowFits`: the bar fills its columns by the same `ApportionFacts`; four numbers that add up to 100
  are eight digits at most, and the row is laid out for that.
- `FramesAreMeans`: the parts of a call are what their readings became (`DrawnOK`), and a sample is
  the mean of its parts (`MeanOf`; one part is its own mean). The energy of a reading divided by
  the interval is its power in every unit (`PowerFacts`). The rate of a controller lies between
  the lower edge of its first bucket with time and the upper edge of its last
  (`ChannelFacts`: each midpoint does, hence their weighted mean). The clusters' utilization is
  cut in every part and again in the mean, the cores' only in the mean: `CutsAddUp` counts
  what that can come to, after exchanging the sums over cores and over parts.
- `SumProofs` is what these rest on: a sum over a finite set splits, grows with its terms, may be
  exchanged with another sum. `SumOver` is the library's fold, a recursive function, and the
  provers have no induction for it; the lemmas count blocks instead (a stack of f[x] blocks for each
  term is a set whose size is the sum), and where a recursion has to be solved, two solutions
  that differ would differ on a smallest set, which does not exist.

Only model-checked: the liveness properties (`StopReturns`, `KeepsWarm`, `ScrapeAnswered`,
`QuitEndsAll`, `TableFills`), because fairness and ENABLED are out of the prover's reach, and
the four runs of section 5 that find a violation.

## 7. Not modelled, and why

- Reading the counters themselves (ctypes, plists, registries, SMC values) is input and is
  modelled by what it can return.
- Rendering (Prometheus text, JSON fields, colours, themes, command lines of processes) is
  wording. Constant tables, configuration, the command line and data classes have no
  behaviour; what the command line admits is in the assumptions on the constants.
- The means in the Profiler's `get_summary` and `to_pandas`, which change no state.
- A second `start()` after `stop()`: the monitor is closed, every sample is NULL, and
  `get_snapshot` retries for ever (`actop/api.py:266`); no document promises otherwise, so there is
  no property to state.
- Exceptions in the sampler thread of the server and a port that is taken
  (`actop/export.py:328`, 345), and an interrupt inside a sample (`actop/sampler.py:115-116`): hazards
  listed in `PROJECT.json` with the reason they are open.
- Two callers of the process caches at once (`actop/utils.py:130`): it takes two pollers, which is
  the finding of `tui_exclusive`.
- Textual's own scheduling, of which only the order its documentation gives is used.

## 8. Plan

Done: the sampler with its conversion, its references and its reader, the alerts, the four
front ends, the process table, the dashboard's data, its screen and the filter editor, and
the proofs of section 6, which state every safety property of the passing runs. What could
follow:

1. The safety half of the liveness properties: that the measure each of them rests on
   (the join that is waited for, the poll that is due) goes down with every fair step.
2. The Profiler and the sessions as instances of one statement of `SerialSpec`, which the proofs now use
   step by step.
3. What holds of the server in spite of section 5: which references a shutdown can touch.
