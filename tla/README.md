# A verification development for netmeter

netmeter meters the traffic of a Linux machine: a daemon reads kernel
counters every few seconds, keeps rows in SQLite and rolls them up; commands, a
notification agent and a GNOME Shell extension read what it keeps. This
directory holds TLA+ modules translated from the sources, TLC configurations
that check them on small instances, and TLAPS proofs of every safety property
these check. File names such as `daemon.rs` are
those of `src/` of the repository.

To check a run: `tlc -config Store.cfg MCStore.tla`. To check the proofs:
`tlapm StoreProofs.tla`.

## 1. The system

| Component | State it keeps | Operations | Talks to |
|---|---|---|---|
| tick sampling (`daemon.rs` `run`, `delta`, `max_bytes_per_tick`; `capture.rs` `read_proc`) | `prev`: last readings, in memory; `meta.discarded_samples` | one tick: read, subtract, re-baseline | reads `/proc/net/dev`; writes `samples` |
| LAN/WAN split (`daemon.rs:145-278`) | `prev_lan`, in memory | share the LAN delta out among the rows of a tick | reads the nft counters |
| nftables watch (`daemon.rs:86-91, 145-185`, `capture.rs`) | the nft table; `nft_missing_ticks`; `meta.nft_ok` | install, read, publish, reinstall | one `nft` process per command |
| sample store (`db.rs` `rollup`, `daemon.rs` `run`, `enforce_retention`) | `samples`, `hourly`, `daily`, `monthly`, `meta.last_rollup_ts`; two timers | write, roll up, prune, stop | SQLite (WAL) |
| vnStat import (`main.rs` `cmd_import`) | rows of `daily` | upsert of a day | SQLite, beside the daemon |
| per-process recorder (`proc_cap.rs`, `daemon.rs:281-304`) | receivers, owners, scratch map (thread); shared map (mutex); `proc_hourly` | sniff, account, fold, drain, commit, relaunch | capture thread and tick |
| budgets (`daemon.rs` `check_budget`, `user_agent.rs`) | `budget_events`; sentinel files | evaluate, record 80 and 100 %, poll, notify | daemon, database, agents |
| views (`main.rs` `cmd_show`, `cmd_today`, `cmd_export`, `cmd_top`, `cmd_top_apps`; `live.rs`, `top_proc.rs`) | none | queries | SQLite, read-only |
| configuration (`config.rs`, `main.rs` `cmd_config`) | `/etc/netmeter/config.toml`; one overlay per account; environment; what each process loaded | load, set, reset, edit by hand | read once by every command, the daemon and the agents |
| GNOME extension (`extension.js`, `dataSource.js`) | timer, settings, widgets, model | enable, disable, poll, settings | runs the commands |

What is hard to get right, and to test, is where these meet. Two kernel sources
are read one after the other while traffic goes on. Counters wrap and reset and
look alike doing it. Rows are written, folded and pruned by three timers, with
crashes between any two commits, under a wall clock that may jump and a
monotonic clock that stands still in suspend. A thread and the tick pass a map
to and fro while interfaces, processes and the thread itself come and go. Agents
and polls overlap. Configuration files are rewritten, not atomically, while
others load them, and those that live on do not load them again. And many errors
are ignored (`let _ =`, `unwrap_or`): a count that is not written, a notification
that nobody sees, a sentinel that is not there. The list of these hazards, each at
its line and with the properties that watch it, is `hazards` in `PROJECT.json`.

What makes each component correct:

- sampling: no byte recorded that did not flow, none lost that could be measured,
  and what is dropped all the same is counted;
- split: LAN + WAN is the total, WAN is never low, no LAN bytes get lost;
- watch: healthy counters survive passing errors, a lost table comes back;
- store: every committed row is counted in daily and monthly exactly once, for ever;
- import: a figure of vnStat's stands for its day, other days are untouched, and
  it stays;
- recorder: each captured byte in one place, under the name it was captured with,
  and finally in the table;
- budget: every crossing recorded and announced once, none that did not happen;
- views: what they print is what was recorded, but for rows not yet rolled up;
- extension: one timer, nothing used after teardown, the panel catches up;
- configuration: a file says what was set, the layers decide in the documented
  order, and a file that is mended brings the daemon back.

## 2. Modules

`MC*` modules instantiate the module of the same name for TLC and hold its small
values; MCStore instantiates Store with everything that reads it, TopApps on top.
The `.cfg` files are listed with the runs.

- **Delta**: the counter arithmetic as operators. `IsReset`, `Travelled` and
  `Delta` are the three tests of `delta` in their order; 2^32, 2^64 and 1 MiB
  are constants so that TLC can use 8, 64 and 2.
- **Sampler** (extends Delta): `Tick` is a tick of `run` as far as `prev` and the
  recorded totals go: measured interfaces, discards, re-baselining. `LoseBaseline`
  is a tick after a gap, or a restart. `NoteDiscarded` counts spikes in
  `meta.discarded_samples` by a read and a write that may both fail, which the
  code ignores (`daemon.rs:222-237`). `Flow`, `Flap`, `Appear`, `Vanish` are the
  kernel. `carried`, `since`, `flapped`, `owed`, `slack`, `lost`, `lapses` are what
  an observer of both sides knows, and appear in no guard of the daemon (`lapses`
  only bounds how many of those statements fail).
- **LanSplit**: `ReadTotals` and `WriteRows` are the two halves of a tick, with
  traffic between them. `LanOf` is `daemon.rs:250-275`; `Share` returns the set of
  results the truncated f64 product may have.
- **NftWatch**: one action per `nft` command or database write of the tick, each
  of which may fail, with `pc` naming the place in the tick. `seen` and `strikes`
  are an observer's: that a tick has read the counters now loaded, and how often
  in a row nft has failed to show them since.
- **Store**: a rollup table is represented by what it sums, as a bag of sample
  rows; `+=` adds to the bag, deleting a bucket removes its rows, and the bytes of
  a bucket are the sum over the rows whose floor it is. So "counted twice" and
  "lost" are visible, where sums would hide them. `pc` has a value for every point
  between two commits: of the rows, of the apps (`WriteApps`, which Store leaves
  to TopApps), of a rollup and of each of the three DELETEs of retention. `prev`
  is the set of interfaces with a baseline: without one, as on the first tick
  after a start or a gap, no row is written. `Wake(d, s)` lets d seconds pass on
  both clocks and s on the wall clock only (suspend).
- **TrafficLedger**: the promise of the store: rows are recorded; now and then all that
  was recorded is published; nothing leaves the history. Store implements it with
  `recorded <- committed, history <- DOMAIN daily`.
- **Days** (extends Store): `DayOf`, the day a moment falls on, for the modules that
  ask; days are no part of Store itself, which folds rows by the hour.
- **ImportedStore** (extends Days): adds `ImportDay`, one more writer of `daily`;
  vnStat's figure of a day is a row of its own in the bag, which every step of
  Store treats like the samples there. `covered` and `waiting` are what an
  observer knows of the figure: the rows whose traffic is in it, and those of
  them that were still to be folded.
- **Views** (extends Days): `show`, `today`, `top`, the totals of `live`, its
  budget with the choice of the period (`QueryBudget`), and the budget bar as
  functions of Store's state, with the calendar of `db.rs` over days, weeks and
  months of fixed length. The commands run at any moment, so what must hold of
  them is an invariant.
- **TopApps** (extends Views): `proc_hourly` in the life of the store. `CommitApps`
  is the transaction that each tick has for it, with or without samples, after
  that of the samples and `check_budget`; a crash may come between. `DeleteApps` is
  the last DELETE of `enforce_retention`, which commits after those of `samples`
  and `hourly`. `top-apps`, `top-proc` and the column of `live` query it. Its
  `TSpec` is what the run `Store` checks.
- **ProcRecorder**: the capture loop (`Reopen`, `KeepOpen`, `Sniff`,
  `ReceiverDead`, `Drained`) and the daemon (`EnsureRunning`, `DrainDeltas`,
  `Commit`) as two processes; a critical section of the mutex is one step.
  `renamed`, an observer's, has the names that processes took or left.
- **Budget**: `Evaluate`, `Record80`, `Record100` are the statements of
  `check_budget`, which commit one by one; a query of `Evaluate` that fails reads
  zeros. `Poll`, `Notify`, `MarkSent` are those of an agent: `Poll` returns at once
  for the agents of `Silent`, which are told not to notify or have no session to
  notify in; `Notify` may fail, with notify-rust and notify-send, and `MarkSent`
  goes on regardless; `WriteSentinel` may fail as well. `shown`, `unheard`,
  `unmarked` keep the count of all this, for an observer.
- **Extension**: `Fire` and `Finish` are the parts of `_poll` before and after its
  await; queries answer one by one, at the moment of the answer. Its
  specification is `EFairSpec`, with `EInit` and `ENext`: WatchProofs speaks of it
  beside NftWatch.
- **Config**: `Merged`, `Loads` and `Load` are the layers of `Config::load` as
  operators; `Launch`, `ReadFile`, `Truncate` and `WriteFile` a `config set` in
  the steps between which others can see the file (`fs::write` empties it and
  then writes); `Reset`, `Edit`, `Kill`; and the starts and stops of daemon and
  agents as systemd does them. `intended`, `spoiled` and `stale` are an
  observer's: what the commands mean each file to say, the files two commands
  changed at a time, the accounts that work with an older configuration.
- **SumProofs, SamplerProofs, StoreProofs, LanSplitProofs, ProcRecorderProofs,
  BudgetProofs, WatchProofs, ConfigProofs**: section 5.

How they compose: Sampler, LanSplit and NftWatch are three projections of one
tick. Sampler abstracts from the LAN counter, LanSplit from wraps and outages,
NftWatch from bytes; the product of the three would only multiply their states,
because they share no variable but the moment of the tick (LAN deltas use the
same `delta` and the same rule that a baseline is the last reading). Views, TopApps
and ImportedStore extend Store and run with all of its steps. Budget keeps its own
small copy of the raw rows, since it reads nothing else. Config says whether the
period the daemon evaluates is the one an agent polls, which Budget takes for
granted; ProcRecorder says what becomes of bytes before the commit of the apps,
from which TopApps goes on.

## 3. What the runs show

Passing runs:

| Run | Question and answer |
|---|---|
| `Sampler` | A 32-bit and a 64-bit counter under flows, wraps, resets, hot-plug and restarts. `PhantomBounded`: the rows exceed the traffic by at most one tick's maximum for each reset that came while the counter stood within one tick of 2^32. `MeasurableIsRecorded`: plausible traffic between two readings of an undisturbed counter is never lost, wraps included. `BaselineExplainsReading`: what makes both true. `LossIsCounted`: every interval of a sound 64-bit counter that was measured and left no bytes in the rows is in `discarded_samples`, until a read or write of that fails. |
| `Store` | Stops, crashes at each commit, gaps, suspends: `NeverTwice`, `NeverLost`, `PendingNotCounted`, `TablesKeepTheirWindows` (retention of raw and of hourly rows) and `ImplementsLedger`. And at every such state what the commands print: `today`, `live`, its budget and `top` are exact over the rows retention left (`LiveTotalsExact`); `show` and the budget bar differ from them by pending rows only (`ShowTrailsToday`, `BudgetBarIsTheWindow`); no bucket is missing or short, `top --by day` included (`RowsAreComplete`); the apps of a window within `proc_retention_days`, and today's in any case, are all that were committed, with ticks that commit apps and no samples and crashes between the two (`AppsOfTheWindow`). |
| `Import` | Imports beside the daemon, with rollups that fail and a clock that is set back. `ImportReplacesItsDays`: the traffic of every folded row is in `daily` once, as a row or in a figure; only rows that were pending when the figure came are counted twice. |
| `LanSplit` | `WanNeverLow` and `LanKept`, with ordinary, excluded and two kinds of forced interfaces together: WAN is understated only by LAN bytes that fell between the two reads of the last tick, were counted on excluded interfaces, or were claimed by a forced interface and counted by nftables as well; LAN is lost only to rounding, to the race, and to the share of forced interfaces. |
| `NftWatch` | Every `nft` command and the write to meta may fail, others flush, the daemon crashes. `HealthyCountersKept`: counters that a tick has read are not destroyed for errors of nft alone before as many failures in a row as the code waits for, and one of `nft_table_exists`; a good reading starts the count again, a gap or a reinstall by others does not shorten it. `NoDeltaAcrossReinstall`. `SplitRecovers`: table and `nft_ok` recover in every behaviour but those where the one reinstall was in vain or the write to meta failed, and the daemon is not restarted. |
| `ProcRecorder` | `EveryByteOnce`, and `AppsExact` of every name that no process takes or leaves, under panics, exits, failing channels, hot-plug and renamed processes; under fairness `BytesReachTable` and `CapturesWhatIsThere`. |
| `Budget` | Two agents that notify, one of which may be killed, a silent one, a crashing daemon, and notifications, sentinels and queries that fail: `CrossingsRecorded` and `NoFalseAlarm` make the flags exact; `EightyBeforeHundred`: the user hears of 100 % after 80 %, unless telling of 80 % failed; `CrossingIsNotified`: each crossing is announced if the window lasts, or telling of it was tried and failed; `NotifiedOnce`: at most once per agent that is not silent, and once more for each restart of one and each sentinel that could not be written. |
| `Config` | Two sessions of root and one of a desktop user, a daemon and an agent. `FilesKeepWhatWasSet`: a file says what was last set of each key and nothing else, but for two changes at a time and a command cut off half way. `OutOfTuneOnlyByOverride`: what a process works with is what the documented order of the layers gives, until a file changes; agent and daemon differ about the budget only by an override or by being out of date. `OnlyEditorsRepair`: a file with a value of the wrong type is changed by an editor only, since `config set` and `config reset` load first. `ComesBack`: once the file is mended the daemon runs again, and the agent unless it has been given up. |
| `Extension` | Nothing torn down is used, one timer, the label follows model and setting; and the panel catches up with the traffic though polls overlap, queries fail and the daemon is down for a while. |

Runs that show a disagreement between the code and what is said of it (the
quotations are in `findings` of `PROJECT.json`):

| Run | What happens |
|---|---|
| `SamplerPhantom` | `near_wrap` takes a reset for a wrap when the link is fast: with the default `max_rate_mbit` over 5 s the bound exceeds 2^32, every fall of a counter below 2^32 is a wrap, and a flapped 64-bit counter gains phantom bytes, wherever it stood. |
| `ImportWiped` | The first rollup that finds rows deletes what was imported before it. It is not that of the first tick, which has no baseline and so no rows, and whose rollup returns early with its timer reset: it comes an hour later, or at a stop. |
| `NftStranded` | The reinstall is tried at the 12th missing tick only; if it fails the split does not come back. |

Other places where the code is not what the documents say, seen while translating
and visible in the definitions named, without a run of their own:

- a discarded spike re-baselines (`Sample`), where PRD.md:108 keeps the old baseline;
- rows are written whatever the clock says (`WriteSamples`); PRD.md:113 refuses
  times before the last committed row, and such rows may never be rolled up;
- an import over a measured day keeps its LAN columns (`ImportDay` removes rows
  for rx and tx only); README.md:230-231 says LAN is zero;
- forced-LAN totals take a share of the LAN bytes which is then dropped (`LanOf`),
  and LAN bytes of excluded interfaces are booked to recorded ones (`FlowLan`):
  the allowances in `LanKept` and `WanNeverLow` are exactly these;
- a forced interface claims its bytes, but where its addresses are within
  `lan_subnets`, as those of `zt*` often are, nftables counts them again
  (`NftSees`), and `LanOf` shares them out among the others as LAN: their WAN then
  reads low, where README.md:24-25 says high. `WanNeverLow` allows for it;
- `retention_days_raw = 0` is accepted, and `today`, `live` and `top` then miss
  what retention took since midnight (`LiveSince`); likewise a
  `retention_days_hourly` shorter than the 24 hours that `show --period hour`
  looks back: the theorems of section 5 name both conditions;
- `unknown` and `other` frames share one entry that takes the label of the last
  (`Account`), so `AppsExact` speaks of processes only;
- `export` adds a day to both dates by `parse_date` and another one to the end
  (main.rs:581, 904-905): the first day asked for is missing and the day after the
  last is there, where README.md:218-220 says that `--to` is inclusive and the
  help (main.rs:171) that both dates are. It is plain arithmetic in every state,
  so no run is spent on it;
- a table is rebuilt "only when the table is really gone", says daemon.rs:164-166.
  `nft_table_exists` is false on any error of nft (`Answers`, `Check`), so after a
  dozen failed readings one failed check destroys healthy counters, and before the
  loop (daemon.rs:86) a single failed check does; `HealthyCountersKept` is what is
  left of the comment;
- "notifies once per threshold" (user_agent.rs:4): where the cache directory cannot
  be written the sentinel never appears (`WriteSentinel`), and every poll notifies
  again, without bound; a notification that notify-rust and notify-send both fail
  to show is marked as sent all the same (`Notify`, `MarkSent`) and never comes;
- a query of `check_budget` that fails reads zeros (`Evaluate`), which leaves a
  crossing unrecorded until the next tick with traffic; a read of
  `meta.discarded_samples` that fails starts the count again from nothing, a write
  that fails leaves it short (`NoteDiscarded`);
- the sentinel is written after the notification (`Notify`, `MarkSent`), so
  user_agent.rs:4's "once per threshold" holds only as `NotifiedOnce` states it;
- the budget sums raw rows (`Used`), which retention may delete before a month of
  31 days is over; the run takes a retention as long as the window;
- an import of a day with rows still to be folded counts these twice in `daily`
  (`Upsert`, `waiting`), though it "replaces" the day;
- `top --by day` reads `daily` (`TopByDay`), where its help (main.rs:140) says
  the raw samples; `top --by iface` sums the raw samples that retention left
  (`TopByIface`), where main.rs:614 says all-time;
- an agent loads its configuration once (`StartAgent`): a budget set while it
  runs, as README.md:198-201 describes, is announced after its next start only;
- `config set` on a file that is not TOML takes it for an empty one
  (`ReadFile`), and the other keys are gone;
- `show --from` prints the bucket after its anchor, and the oldest week of
  `show --period week` is part of one (`Show`, whose `end` is what `parse_date`
  returns, and `Span`).

Every property of a passing run has a mutant in the model, an operator named
after the definition it changes (`Fold_Rebuild`, `MissingAfter_NotReset`, ...) and
marked "Mutant" in its comment, that breaks it.

### Bounds, and why they are enough

- Sampler: 2^32 = 8, 1 MiB = 2, 2^64 = 64. One flow is within the plausible
  maximum and one is most of a lap; ten bytes are more than a lap, and one of each
  flow; two resets, so that one comes before and one after a tick; one failed
  statement on `discarded_samples`. One direction: the two are treated
  alike, and the proofs of section 5 have both.
- LanSplit: five bytes over two interfaces that share and two that are forced give
  unequal shares and rounding, over several ticks.
- NftWatch: a reinstall after 3 ticks stands for 12; five faults, so that a run of
  failures can be shorter, equal and longer; two flushes and two crashes.
- Store: hours of 2 units, days of 4, weeks of 2 days and months of 3, so that
  weeks and months do not nest; one tick with apps; a rollup and a retention every
  2 units, raw rows for 4, hourly buckets for 5, apps for the least there is, a
  day; a clock of 8 and two writes on two interfaces: enough for rows to be
  folded by two rollups with a crash between and pruned from each table, on two of
  three calendar days, and for raw rows to be gone before their month is, as 30 days are
  less than a month of 31. A retention of 4 is beyond the least, 3, that
  `SaneConditions` (section 5) allows. Ticks of an hour's length or a gap;
  suspends of one unit.
- Import: days of 4 units and a clock of 6, so that there are two days; two rows,
  of imported days or not; imports of either day at any moment, any number of
  them; rollups that fail and a clock that is set back.
- Config: one key of each type; a value that fits, one in capitals and one of the
  wrong type; two `set`, one `reset`, one edit to nothing or to what is not TOML,
  one `kill` and one stop or login: enough for two `set` to overlap in any order
  and to follow one another, and for each mishap to come before, between or after
  them. An agent is given up after 2 failed starts in place of systemd's 5. Two
  environments: none; and an unknown period for the user, with a number that is
  none for the daemon.
- ProcRecorder: two interfaces, two processes that may bear one name and a third
  name for one of them to take, two frames of one byte, timers due at the next
  iteration or not; one change of interfaces, one refused opening, one new name,
  and one panic or exit. `MCInit` takes one initial state of those that differ by
  an exchange of names or of interfaces, which nothing in the module tells apart.
- Budget: limit 5, so that 4 is 80 %; ticks of 2, 4 and 5 bytes reach it, pass
  the first threshold or jump past both; two windows, the second cut short by the
  clock, and raw rows for as long as one; one crash, one agent killed, one sentinel
  not written, any number of failed notifications and queries.
- Extension: two polls under way, of any age; two disables, a setting change, a
  failure, traffic that changes twice.

The run `Store` uses the symmetry of its interfaces, and checks invariants and the
safety of a refinement only. The other runs with more than one interface, agent or
poll check liveness or name them, and use none.

### Fairness

- NftWatch: the loop of the daemon goes round, and systemd restarts a daemon
  that failed (`Restart=` of `packaging/netmeter.service`): weak fairness of
  `Tick` and `Start`. Nothing makes an administrator act.
- ProcRecorder: two threads that the kernel schedules, and the same restart:
  weak fairness of each loop. The bounds on deaths and refusals say that these
  stop happening.
- Budget: weak fairness of `CheckBudget` and of each agent, which sleeps a
  minute and polls again. Time need not pass.
- Config: a daemon that ended with an error is started again every 5 seconds,
  which never meets systemd's limit of 5 starts in 10 seconds
  (`packaging/netmeter.service:38`): weak fairness of `StartDaemon`. An agent is
  started again after systemd's default 0.1 second, which does, hence "failed":
  weak fairness of `StartAgent`. No command needs ever to be given, or to end.
- Extension: the timer fires while it exists, processes exit, promises resolve;
  a daemon that is down is started again.

## 4. What is abstracted

SQLite transactions are atomic and durable. Amounts are small integers; names,
formats and logging are left out. Times have one unit and buckets fixed
lengths: no daylight saving. One direction of traffic stands for both where the
code treats them alike. Interfaces of
`exclude_ifaces` are outside `Iface`; only LanSplit knows them. A link's speed
does not change within a behaviour (`MaxB` is a constant), though the code reads
it every tick.

Of the configuration two keys stand for all: files, tables and layers are treated
alike for every key. What each key means is in the module of the component that
uses it.

Not modelled: the drawing of `live` and `top-proc`, and their session rates, which
are differences of two readings that nothing keeps; `status`, which prints what
NftWatch and Sampler maintain; `export`, which prints raw rows; nft ruleset text;
parsing of `/proc`, frames, TOML and JSON; sorting and limits of `top`; the LAN
columns of an imported day; the widgets and preferences of the extension;
installation. The reason for each is in `components` of `PROJECT.json`.

## 5. What is proved

Every safety property of the passing runs, the refinement of TrafficLedger among
them, is a theorem of the specification that its run checks, for every value
of the constants that satisfies the assumptions of the modules: any number of
interfaces, processes, agents, sessions and users, any width and speed of
counters, any retention, interval and limit, whatever commands fail. Each rests
on an invariant that the proof shows to be inductive, named below. What a
theorem needs beyond the assumptions stands in its `ASSUME`, and here.

**SumProofs** states the laws of `SumFunctionOnSet` over finite sets that the
next modules use: a sum is a natural number, takes its arguments out and adds them
one by one, is monotone, splits over parts (`SumSplits`, `SumByParts`), scales,
and counts ones. The operator is a recursive function, and what follows from its
equation would be shown by induction; that theorem of the library takes an
operator as its parameter, so each law is shown with a counterexample of smallest
size (`MinimalSet`, from the well-foundedness of strict inclusion).

**SamplerProofs**, in two parts.
1. From `DeltaAssumption` (0 < 1 MiB < 2^32 < 2^64): across a wrap or not, plausible
   traffic is measured exactly (`DeltaExact`); a delta is at most the link's
   maximum or below 1 MiB (`DeltaBounded`); a fallen counter off the wrap boundary
   adds at most its new value (`NoPhantomOffBoundary`); with a maximum of 2^32 or
   more, every fall below 2^32 is taken for a wrap (`FastLinkSeesOnlyWraps`).
   Linear arithmetic, split along the tests of the code.
2. `IndInv` is the conjunction of the types, `BaselineExplainsReading`,
   `PhantomBounded` and `MeasurableIsRecorded`. The last two are not inductive
   alone: a tick adds `Delta(prev, counter)`, which is bounded by what flowed only
   because the reading is known to be the baseline plus what flowed, modulo a lap,
   or to have been reset. `TickPhantom` and `TickExact` say so for one tick;
   `SampleInv` lifts them to the sums. `LossIsCounted` is inductive beside `IndInv`:
   a sound 64-bit counter is ahead of its baseline by what flowed, so a tick that
   records none of that has discarded it (`UnresetIsMeasured`), and its losses are
   no more than the spikes it notes (`LostIsSpiked`).

**StoreProofs**, in six parts.
1. `OnceInv`: each table counts a row at most once, no pending row is counted,
   and row numbers do not exceed `writes`. The last part is what makes a row
   just written new to all tables. From it `StoreTypeOK`, `StoreNeverTwice`,
   `StorePendingNotCounted`, whatever fails, crashes or steps.
2. `KeptInv`, under `SaneConditions` (rollups succeed, the clock is not set
   back, `RollupEvery + MaxSuspend <= RawRet`): a pending row is no older than
   the time since the last rollup plus the suspends in it, at every `pc` from
   which retention can be reached without a rollup. Hence retention never takes
   a pending row: `StoreNeverLost`. The condition is the one that
   `retention_days_raw` = 30 meets, unless a suspend within one rollup interval
   lasts a month. `StoreTablesKeepTheirWindows` follows from the same invariant:
   rows are written at a moment no row has, so they replace none, and what
   retention takes is either past its age or counted and past it.
3. `LedgerStep`: a rollup that publishes is `Publish`, a write is `Record`,
   every other step a stutter: `StoreImplementsLedger`.
4. The views. First the calendar: a floor is the largest multiple below
   (`WindowIsFloor`), and one bucket's windows do not overlap; then each query as
   a set of rows. `ViewInv` is `KeptInv`, the windows of part 2 and the bound on the
   clock, and the rest is what the queries make of such a state. The conditions:
   `SaneConditions` for all; for `ViewsLiveTotalsExact` and
   `ViewsShowTrailsToday` also `RawKeepsToday`, `retention_days_raw` of a day or
   more; for `ViewsRowsAreComplete` `HourlyKeepsSpan`, `retention_days_hourly` of
   at least the 24 hours that `show` looks back; none beyond `SaneConditions` for
   `ViewsBudgetBarIsTheWindow`.
   `ViewsAssumption` has the spans of `show` cover a bucket or more, as the
   constants of `main.rs:424-434` do.
5. `AppsInv`: what was committed of apps is in the table or older, to the hour,
   than `ProcWindow`. `AppsAreOfTheWindow` needs a clock that is not set back, and
   no more: the apps wait neither for samples nor for rollups.
   `AppsLeaveTheStoreAlone` says that parts 1 to 4 hold of `TSpec`, the
   specification of the run.
6. `ImportInv`: every row that `monthly` counts is in `daily` or in a figure that
   is there (`StoodFor`), and one that is in both was waiting when the figure
   came. It is about the moment between the import and the rollup, where the
   figure covers rows that a later rollup adds. `ImportReplaces` has no condition:
   rollups may fail and the clock be set back.

**LanSplitProofs**. `ShareBounds` says what the product of the code may be;
`SharesWithin` and `SharesKept` add it up over the interfaces of one tick, from
above (never more than the LAN bytes, nor than a row's total) and from below
(short by at most one byte for each interface). `Inv` carries this over the two
halves of a tick: `InStep` orders baseline, reading and counter, and `KeptSoFar`
states `LanKept` three times, of what is written, of what is read and of what
has flowed, since a read in between may see LAN bytes that the totals lack.
`WanSoFar` says of the interfaces that share how totals cover what is WAN and what
nftables counted. `LanIsKept` and `WanIsNeverLow` have no condition.

**ProcRecorderProofs**. A byte is in the scratch map, the shared map, the daemon's
hands, the table, or lost with a thread; all steps but `Sniff` move bytes between
these (`MoveKeepsInv`). `Sniff` counts a frame in an entry that it may have to
relabel: `SetEntry` says what that does to the sums by label, with `TotalByLabel`
to count each entry once, and `AccountCounts` and `AccountNames` what follows for
the totals and for the names. `InNames` is what `AppsExact` needs to be inductive:
the name of a snapshot or of an entry is the one its process has, or both are
names that some process took or left. From `Inv` follow `EveryByteIsOnce` and
`AppsAreExact`.

**BudgetProofs**. `DaemonInv`: what `check_budget` has read is no more than its window
carried, whatever retention prunes and however late it records, so no flag is
false (`NoAlarmIsFalse`). `Complete`: none is missing, if raw rows live at least
as long as a window (`CrossingsAreRecorded`). Like the property, it speaks of checks
whose sum could be read. For the agents a count: as long as a threshold has no
sentinel, whoever showed it is about to mark it, was killed or could not
(`Marking`); from then on only those that had decided before come to it
(`Awaiting`), and an agent is one of these or has shown it. `NotifiedOnceEach`
follows. `EightyComesFirst` follows from `ViewsAreReal`: a sentinel stands for a
notification that was tried, shown or not, and an agent comes to 100 % by way of
80 % or of its sentinel.

**WatchProofs**, in two parts.
1. `WatchInv`: the nft table is replaced only on a tick without a reading, or before
   the first one; the end of such a tick drops the baseline from before. And
   `nft_missing_ticks` is no more than the failures in a row (`MissingIsInARow`):
   it would be if anything but a good reading, or a reading of new counters,
   started the one count again and not the other. `HealthyCountersKept` follows
   where the check fails as well, `NoDeltaAcrossReinstall` since of two readings
   that are compared the first is of the table as it was last built.
2. `ExtensionInv` adds to the three properties of the extension that timer id,
   settings and widgets exist exactly while it is enabled. What a late answer finds
   is then either all of them or none, for any number of polls under way.

**ConfigProofs** (from `ConfigAssumption`: the accounts are distinct, and what is
not TOML is not a table), in three parts.
1. `InOrder(f)`, of each file that is not spoiled: at most one session is half way
   through a `set` of it, with a copy of what the file was meant to say; while it
   is about to write the file is empty, and else it says what was meant. From it
   `ConfigFilesKeepWhatWasSet`. That the file is empty is what makes the write
   leave nothing of others behind.
2. `LoadedInv`: a process that runs and is not out of date has in force what
   `Load` returns now, because whatever changes a file makes its readers out of
   date. `LoadIsDocumented` says that `Load` is the documented order of the
   layers. From both `ConfigOutOfTuneOnlyByOverride`.
3. `JammedFails`: whoever could change a file that has a value of the wrong type
   cannot load the configuration. From it the action property
   `ConfigOnlyEditorsRepair`.

Only model-checked: the liveness properties `SplitRecovers`, `BytesReachTable`,
`CapturesWhatIsThere`, `CrossingIsNotified`, `ComesBack` and `ShownCatchesUp`,
since fairness and ENABLED are outside the prover. The disagreements of the
second table of section 3 are counterexamples on small instances, and need no
more.

## 6. Plan

Done: Delta, Sampler, Store with TrafficLedger, Days, ImportedStore, NftWatch,
ProcRecorder, Budget, LanSplit, Views, TopApps, Extension, Config; proofs of all
safety properties.

Next, in this order:

1. Sharper conditions: the store's theorems without `~ClockMayStepBack`, for rows
   written before the clock was set back.
2. `LiveRates`: the session rates of `live`, and its restart of baselines when an
   interface comes and goes.
3. A calendar with changes of offset for `db.rs`'s floors and `parse_date`.
4. The LAN columns of an imported day.
