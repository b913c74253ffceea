# Argus Quant — TLA+ models and proofs

Argus Quant scans futures markets, publishes signals, tracks them, and can trade
them on paper or on an exchange. It is one Python asyncio process in front of
PostgreSQL, Redis, Telegram and several exchanges. Coroutines interleave at
every `await`; a database session (`app/database/session.py`, `get_session`)
commits once at its end and rolls back on any exception; no row is locked by a
query, and PostgreSQL runs at READ COMMITTED. This directory holds TLA+ models
of the program, the TLC configurations that check them, and TLAPS proofs. Paths
below are relative to `src/app/` unless they begin with `docs/` or a report's name.

## 1. Inventory

| Part | State | Operations | Hard behaviour | Correct when |
|---|---|---|---|---|
| Live trading (`execution/live_trading/service.py`) | `live_orders`, `live_positions`, `live_trades` | `open_position`, `close_position`, `emergency_close_position` | one to six exchange calls between read and commit; timeouts; partial protection; rollback | no accepted order is lost, rows tell the truth, closes only reduce |
| Exchange adapters (`exchange_adapters/`) | clock offset, filters; the account itself is remote | `open_order`, `close_order`, `set_tp_sl`, `get_positions`, `cancel_all_orders`, lookup by client id | lost answers, gate re-checked per request, exchanges that answer differently | no write after the gate is shut, except the one under way; a row is ended only when its position is |
| Database session (`database/session.py`) | — | `get_session` | commit at the end, rollback on an exception | a session writes all or nothing |
| Models, repository, migrations (`database/`) | all tables | queries, archive, dedup and backfill scripts | scripts read and write in different sessions beside the bot | a row is in the table or in the archive |
| Recovery (`recovery/engine.py`) | `live_positions` | import at start-up, `sync_tp_sl` | races live trading; reads of a mock account | it never forgets or duplicates a position |
| Reconciliation (`reconciliation/`) | issues | detect, de-duplicate, alert (nothing resolves an issue) | failed reads, a sweep over the API beside the loop | one open issue per difference; what lasts is alerted |
| Live beta, pilot (`execution/live_beta`, `pilot.py`) | memberships, exposure | apply, approve, suspend, gate | caps counted on committed rows only | caps hold up to the requests under way |
| Break-even and trailing (`break_even.py`) | none of its own | plan the next stop | plans overtaken by the market, intents that fail | the working stop only tightens |
| Safety (`safety/`) | switches, lockouts | `check`, `trading_blocked`, kill, resume | check and act apart; streak lockouts | a blocked user opens nothing |
| Auto engine (`auto_engine/`) | executions | fan-out of a signal to users | one session for all users | one position per user and signal |
| Paper engine (`paper_engine/`) | balance, positions, trades | open, close, reset, settle | concurrent closes, absolute balance writes | money is conserved |
| Scanner and tracker (`scanner/`, `main.py`) | `signals`, cooldowns, hourly budget | scan, publish, track, expire | a transaction per call, restarts in between, two events in one candle | followers act on what is recorded; a target once reached is kept |
| Order failures (`order_failures/`) | failures | classify, retry decision, resolve | retry of an ambiguous order, two calls on one row | bounded retries, none of them blind |
| Accounting (`accounting/`) | ledger, daily rows | `record_trade` | read-modify-write of the day, in the session of the close | the day never tells more than the ledger |
| Exchange vault (`exchange_vault/`) | `exchange_accounts` | connect, test, disconnect, plan a quantity | validation awaited between read and write; five exchanges' answers | every key in use was found fit |
| Authentication (`auth/`) | users, sessions, tokens | register, login, refresh, reset, second factor | overlapping requests on one row | revoked stays revoked |
| Admin (`admin/`) | the switch of live trading | toggle, restore at start-up | memory and row are switched apart | a restart keeps the switch |
| Risk filters and levels (`risk/`) | — | stops, targets, regime gate, caps | engines that fall back on each other | an emitted signal has sound levels |
| Telegram bot (`telegram_bot/`) | message ids, pause flag | broadcast, retry, event replies | lost answers, floods, pause during a broadcast | posts are not repeated without need |
| Market data (`market_data/`) | price cache | poll, fetch on demand | overtaking requests, stale stamps | fresh means recent |
| Scoring, indicators, strategies (`ai_scoring/`, `strategies/`, `quality/`, …) | — | layers, tier, confidence | thresholds moved between two reads | the gate only tightens |
| Analytics and reports (`analytics/`, `reporting/`, `performance/`) | daily tallies | a dozen counts over the same rows | filters that differ | all reports tell one story |
| Backtesting, shadow mode (`backtesting/`, `shadow/`) | — | candle replay | snapshots kept between candles | no look-ahead |
| Dashboard (`dashboard/`) | — | HTTP presentation | — | not modelled |
| Utilities and configuration (`config.py`, `utils/`) | — | settings, logging, limiter | — | not modelled |

**How they meet.** A signal (scanner → `main._handle_signal`) fans out to
Telegram, the tracker and the auto engine; the auto engine and the API call live
trading or the paper engine; live trading asks safety and the beta gate, takes an
adapter by the *live gate* (`exchange_adapters.live_gate_open`, whose run-time half
is the administrator's switch), sizes the order with the vault's preflight,
records a failure with the order-failure engine and a close with accounting, and
writes rows that recovery and reconciliation compare with the exchange.

## 2. Modules

| Module | Role |
|---|---|
| `LiveTrading` | the core: coroutines serving open, close and emergency-close requests over one exchange account |
| `EntryBook` | abstract specification: what an entry order's life looks like from outside |
| `LiveTradingBook` | the refinement mapping from `LiveTrading` to `EntryBook` |
| `MCLiveTrading` | instance for TLC (symmetry of handlers) |
| `LiveTradingProofs` | proofs, with and without the sweeps of `Recovery` |
| `Recovery`, `MCRecovery` | recovery sweeps, composed with `LiveTrading` (it EXTENDS it: same tables, same account) |
| `Reconciliation`, `MCReconciliation`, `ReconciliationProofs` | detection of differences, their issues and alerts, over an abstract account |
| `Signals`, `MCSignals`, `SignalsProofs` | a signal from the scanner's finding to its end in the tracker, and the paper and auto positions that follow it |
| `Publisher`, `MCPublisher`, `PublisherProofs` | from an analysed symbol to its posts: cooldowns, budget, guards, broadcasts |
| `Paper`, `MCPaper`, `PaperProofs` | paper accounts under overlapping sessions, with the auto engine on top |
| `Gates`, `MCGates`, `GatesProofs` | safety, live beta, pilot and the opt-in of the auto engine |
| `Accounts`, `MCAccounts`, `AccountsProofs` | the rows of an account: vault, sessions, second factor, administrators, the live switch |
| `Levels`, `Analysis` | stops, targets and the decision on a candidate |
| `Failures` | the order-failure engine |
| `BreakEven` | the break-even planner and a caller |
| `Permissions`, `Sizing` | what the vault believes of a key; from an amount to an order the exchange accepts |
| `MarketFeed` | the price cache |
| `Venues` | how the exchanges' adapters differ |
| `Backtest`, `Outcomes`, `Migrations` | the candle replay; the story of a signal as reports read it; the scripts that move signals |
| `Exposure`, `Accounting` | portfolio caps and news locks; the ledger and the row of the day |
| `Upkeep`, `MCUpkeep`, `UpkeepProofs` | the twelve modules that work on their own on one set of variables, one of them at a time; the instance of each for TLC; proofs |

## 3. Runs

| Run | Bounds | Shows |
|---|---|---|
| `live_netting` | 4 requests, 1 symbol, LONG and SHORT, MARKET, no faults beyond lost answers | closes never enlarge or flip; no position without an open row or a request at work. Four requests: two entries that net and two closes that race |
| `live_faults` | 2 requests, LIMIT and MARKET, three legs, aborts, failing lookups, moving gate | rows and trades tell the truth |
| `live_fair` | 2 requests, weak fairness, no faults beyond lost answers | every accepted entry is booked, and `LiveTrading` implements `EntryBook` |
| `recovery` | two settings, see Recovery | review flags stay, no row is closed as vanished while its position is there, a row is certified only while its legs work, sweeps end |
| `recovery_gate_shut` | 1 request, 1 sweep, moving gate | a sweep with the gate shut closes live rows (a violation, PROJECT.json, findings) |
| `recon` | two settings, see Reconciliation | one issue per drift alone and one per sweep together, no alarm without a drift, a new drift that lasts is alerted unless the alert has no room for all |
| `signals` | 2 signals of 1 symbol, every fault, the default settings | followers act on recorded events only; no outcome before the fill, no expiry after it; the status never falls back |
| `paper` | 1 user, 2 positions, 1 signal, 2 requests | books balance, hand-opened positions are credited once, a signal is traded once |
| `gates` | 2 users, 2 requests, 2 symbols, 2 sizes, 3 deployments, clock to 3 | caps are exceeded by no more than the other requests, of what the gate was told; shut means shut |
| `publisher` | 5 deployments, see Publisher | signals keep their distance, posts are repeated for lost answers only, one post after a pause |
| `accounts` | 2 requests, 2 keys, 2 sessions, 2 tokens, 3 registrations | every key was found fit and came by a connect; the switch survives a restart |
| `upkeep` | twelve small instances, see Upkeep | a property for each of the small parts |

Two of whatever overlaps is what the hazards here need: one step goes between
another's read and its write. Where a third matters (a net of two entries and two
closes; a read overtaken by an entry and by the close of another) the run has it.
Deadlock is checked unless everything really may come to an end: requests that are
served once, a clock that stops at its bound, migrations that are done. Handlers,
ids, keys, symbols are symmetric in the runs without liveness.

`TypeOK` of a module is a theorem for six of them (section 5); of the others that
state it, adding it to the INVARIANTS of the run checks it within the same bounds.

## 4. The modules

### LiveTrading
A handler `h` is one coroutine. `pc[h]` is the await it stands at, `req[h]` the
call, `adapter[h]` what `resolve_adapter` returned, `placed[h]`/`unsafe` the
outcome of `set_tp_sl` so far, `wire` the handlers whose write has passed
`_guard` and left. `exch` is the netted position per symbol, `resting` the
working LIMIT entries, `orders` the protective orders; `row` and `trades` are
committed tables; `kill` and `gate` are the switches. `landed`, `executed` and
`late` are history: what the exchange accepted, which closes it executed, how
many writes of a handler were executed since the gate was shut.

One exchange write takes two steps: `Send` (guard passed, request gone) and the
answer, which is the operation's own action (`EntryAccepted`, `EntryRejected`,
`EntryTimesOut`, `LegPlaced`, `LegFails`, `CloseAccepted`, `CloseFails`,
`EmergencyCancel`). A timeout leaves both outcomes open. Row changes happen in
the commit actions only, because `get_session` commits at the end; `Aborted` is
the rollback. Quantities are in units of one entry.

`WF_vars(HandlerStep(h))` is the fairness: an await on the exchange ends because
the HTTP client has a total timeout of 15 s (`binance.py`, `_client`), and the
event loop resumes a coroutine whose await has ended. Callers, the exchange's
own fills and the administrator are not fair. Fair runs have no `abort`: a
process that may crash at any time promises nothing.

`EntryBook` is what this promises of one entry: it is refused without an order, or
taken and then booked, and what is closed never comes back. `LiveTradingBook`
maps a handler's `pc`, `landed` and `row` to a state of the book;
`ImplementsEntryBook` is the refinement, with the book's own fairness.

**Left out**: the reads that size an order (filters, balance, clock; see `Sizing`)
change no state here; the gates before `resolve` are in `Gates`, other exchanges in
`Venues`, accounting in `Accounting`; audit rows and failure records live in
sessions of their own; `set_leverage` and the endpoint that edits TP/SL.

### Recovery
A sweep `s` is one call of `recover_user_positions`; the one at start-up is a
task that runs beside the API. `rpc[s]` is its await, `known[s]` the open rows
as it queried them, `listed[s]` the positions it was told, `via[s]` the adapter
it resolved last, `at`, `seen`, `tries` the state of the row whose protection is
being synced, `verdict[s]` the `tp_sl_status` decided per symbol, `drift[s]` the
issues its session holds. `SweepStart` is the query, `ReadPositions` or
`PositionsUnreadable` the answer of the exchange, `SyncStart`, `Place` and
`Verify` one turn of `sync_tp_sl_for_position`, and `SweepCommit` writes imports,
vanished rows, verdicts and issues together, since one session commits at its
end. An autoflushed row is locked until then: `LockedBy(s)` are those
rows, `LiveStep` makes requests wait for them. What a sweep writes are the
columns it changed, over whatever a request has committed in between (`Synced`).

`MCRecovery` runs two settings in one graph. *calm*: two requests of either side
with both legs beside one sweep, gate open, nothing aborts; *failing*: one LONG
request with a stop beside two sweeps, while the gate moves and everything may
abort. Two requests are what a sweep needs to be overtaken by an entry and by the
close of another; one symbol suffices because a sweep treats symbols separately.
`CertifiedIsProtected` leaves out a symbol with orders of both sides, which the
code's reading mixes. Fairness, in the failing setting, asks what `LiveTrading`
asks (awaits end in the client's timeout), for sweeps as for requests, a
request's step being one that its locks allow.

**Left out**: users and accounts but one; the recovery endpoints' listings;
`mark_position_unsafe`; prices of an import.

### Reconciliation
A sweep `s` is the periodic `Loop` or an API call (`Runs`). `rows`, `list`,
`orders` are what it has read, `found` what `reconcile_symbol` made of it,
`added` the issues in its session, `issues` the committed unresolved ones per
drift (a symbol and a type). The account is abstract: `ex` is a *shape* per
symbol (whatever a comparison tells apart), `guarded` the symbols with
protective orders, `row` the open rows, `imported` those with status `RECOVERED`.
It moves by trades on the exchange (`Outside`), requests (`TradeExecuted`,
`TradeCommitted`) and recovery (`Import`); `Moves` switches each.
`Summary` are the lines of `summarize_critical`, of old and new drifts alike, `Body` those
that are sent: `Lines` of them, which stands for the 20 of `loop.py:88` and the 1200 characters of
`alert_admin`, whichever is less. `LoseAlert` is an alert that reaches nobody: the bot is not
started, there are no admins, or each send fails, which `alert_admin` logs and swallows; one
admin reached is reached. `told` and
`real` are history: drifts alerted since they began, and drifts there were while
a sweep was reading.

`MCReconciliation` runs two settings in one graph. *quiet*: the loop alone over two
symbols traded on the exchange directly, reads and alerts succeed; *mixed*: the
loop and an API run, where everything moves and fails, for the symbols that are not
`Watched`. Two symbols tell de-duplication per symbol from de-duplication per type;
one shape besides `Flat` gives every difference but the mismatch of two shapes,
which is treated like the others. An alert has room for one line, so that a new drift may be
crowded out by one that stands. The fairness is that of the loop's own step:
`reconciliation_loop` sleeps and sweeps for ever and survives errors.

**Left out**: several accounts in one session (an error for one loses the issues
of all, and the drifts of others take up lines of the alert), the row lock on an account's `last_reconciled_at`, report listings.

### Signals
The scanner (`spc`, `cand`, `saved`) hands a finding to `main._handle_signal`:
`Guard`, `Save` (with the unique index of `database/session.py` on open rows),
`OpenPaper`, `OpenAuto`. The tracker (`tpc`, `polled`, `cur`, `queue`, `reach`)
reads the open signals (`Poll`) and serves them one by one: `NoPrice`, `Wait`
(not filled: expired or left alone) or `Check`, which notes the fill and derives
the events from the candle; each event is then recorded (`Apply`) and told
(`TellPaper`, `TellAuto`). Every call is a transaction of its own, so each is a
step, and `Crash` may come between any two. `sig` is the table; of
`diagnostics` a row keeps the fill, the best target and the stop. A price is the
highest target its candle reaches (`tp`), how low it goes (`low`: above the
entry, at it, at the stop) and whether it touches the entry band; sides mirror
each other and are left out.

Signals of different symbols share nothing but the tracker's poll; two of one
symbol bring the duplicate guards and a poll with two rows. The run has no
fairness; `FairSpec` (either loop is restarted by `utils/helpers.run_forever`) is
what `PaperFollowsToTheEnd` is refuted under.

**Left out**: what is decided before and after (in `Analysis` and `Publisher`),
percentages, several users of the auto engine and its stops (in `Paper`), the
settings that switch the guards off.

### Publisher
One scan analyses all symbols side by side. `task[m]` is where the analysis of a
symbol stands: `GuardActive` (`has_active_signal`), `GuardSilence` (the silence after
a close), `CanEmit` (the cooldown, from memory in `marked` or from the table),
`Gates`, and `Full`/`Spend` (the hourly budget, `slots`). `found` are the results in the
order of `as_completed`; `hand` is `_handle_signal` with one of them: the second
guard, `CreateSignal`, the pause flag, the third guard (`Exclude`), then chat after
chat. A post may be answered, answered by a flood error, refused, or delivered without
an answer; `_tg_send_with_retry` sends again and a card that cannot be sent falls back
on text, which is where posts may repeat. `Record` stores the message id in a
transaction of its own. `Track` moves a signal as the tracker does, `Tell` posts its
event, `Pause` is `/pause` and `/resume`, `Crash` forgets `task`, `found`, `marked`, `slots`,
`hand`, `news`. Times are ticks.

The deployments: one that scans and posts nothing, with a clock to 4, three signals
and crashes (a cooldown and an hour are 2, the silence 1: an emission, its row and
the next emission fall into different ticks); and four that post with the clock
standing still: one chat with every fault, one without a card and with Telegram's
faults only, two signals in one chat, one signal in two chats. Retries times chats is
what makes the graph large; faults of two chats are independent.

`SavedIsPosted` (a stored id names a post) holds for any (`RowsNamePosts`).

**Left out**: the followers (in `Signals`), `/setcooldown` and `/setmaxsignals`, the
commands that only read, the order of chats, TP2 apart from TP1, signal and event
chats that differ.

### Paper
A request (`req[r]`) loads the account (`Load`), finds its position (`FindPosition`,
404/409), awaits the mark price and commits (`CommitClose`); `Credited` is the column
write: the loaded balance plus the result, skipped where nothing changed. `Open`
inserts and `CommitOpen` commits after the price; `CommitReset` clears the account in one step.
`fan` is `on_new_signal`: `Serve(u)` for one user after the other
(`Executed` asks the executions, `Allowed` the limits, `Sized` the risk), one
`CommitSignal` for all, `FailSignal` the rollback of all. `ev` is `on_signal_event`:
`Manage(p)` settles, or moves the stop by `Tighten`, for each position of the
signal, committed together. `acc[u].in` is a ghost: how often each result is in the
balance; `mixed` marks users of whom two sessions overlapped.

Two positions, two requests, a fan-out and an event let each pair of sessions meet; a
second user would only meet in `fan`'s shared commit, which the rollback of one
shows too. Moves of -2 and 1 on a margin of 2 give a loss of everything and a gain.
`BreakEvenHolds` (a stop after a break-even never loses) holds in the same instance and is
proved (section 5).

**Left out**: sides (short mirrors long), leverage (positions of one unit), the reason a client
names for a close ("MANUAL" stands for all; one named "SL" would look like the engine's stop),
`check_liquidations` (nothing calls it); a LIMIT paper order opens at once and is
therefore the same as MARKET.

### Gates
`safe[u]` is the row of `safety_states` (kill switch, lockout and its reason), `paper[u]`
the trades that `trading_blocked` and `check` read, `member[u]` the beta's membership,
`rows[k]` how many OPEN live rows there are of a kind (user, symbol, what it is worth, what
the gate has seen of it, through the pilot). The two sizes differ because the code has two: the
gate is asked about `notional_usdt`, or else the quantity at the price the client names
(`service.py:221`); the order and the row have the client's quantity, if there is one
(`:235`, `:405`), and the row is summed at the price of the fill (`live_beta/service.py:147`).
`CommitOpen` takes any size, therefore, and `CapsOvershoot` counts the lesser of the two. A
request that names neither, to be sized by risk, is refused by a beta (a notional of nothing). A request is `asked`, then `clear` of the safety gate (`SafetyGate`), then
`sent` past the beta or the pilot (`Enter`), then `CommitOpen` or `FailRequest`: the rows the
gates read do not hold it until then. `RequestAccess`/`CommitAccess` are an application
for a seat. `fan` is the auto engine: `EligibleUsers` at its start, `MaybeOpen(u)` one after
the other. The three deployments switch the beta, the pilot and the auto engine on.
A sum over rows (`Count`, `Notional`) is the number of the units its terms stand for, which is
what can be reasoned about; the assumptions say that users, symbols, sizes and requests are finite.
A clock to 3 with a day of 2 and a week of 3 has a lock end, a day change and a
trade after it. The constraint `Calm` keeps the graph small: the clock runs in the deployment
of the auto engine only, since nothing in the others sets a lock, and one switch at a time is
thrown. Two sizes and caps of 2 and 3 let one row, two rows of one symbol, and rows of two users
reach them.

**Left out**: the pilot's static limits on one order (notional, leverage), the audit
rows (a REJECTED one is rolled back with the error it documents), listings.
The live branch of the auto engine is `LiveTrading`'s open.

### Accounts
Every request loads rows, waits, and commits; `Update(row, seen, new, always)` is
SQLAlchemy's unit of work: a column is written only if its value changed against what
was *loaded*. `vault` is the row of a key: `Connect` validates (`Validate`), then loads
the row (`LoadConnect`) and writes; `TestConnection` loads first and validates
afterwards; `Disconnect` wipes. `sess` and `token` are sessions and reset tokens,
`user` the second factor and the status, `people` the registrations (`Role`: an
administrator if it counted no user), `live` the switch: `SetLiveTrading` sets the memory,
`StoreSetting` the row, `Restart` reads it. Topics do not meet, so a run chooses one
at its start. Requests may begin again for ever; two at a time overlap in each pair of
kinds, two keys tell a key that was found fit from another. A third registration
comes after two that overlapped.

The properties of the switch hold under the condition that toggles neither overlap nor
fail to be stored (`unruly`), which the code leaves to its one administrator.

**Left out**: password hashes, mails, the lockout counter and an ERROR status for a
key that cannot be decrypted (both are rolled back by the error they document),
everything an answer "unavailable" does not change.

### Upkeep
Twelve modules have no state in common with the rest and are small. `Upkeep` chooses
a topic at its start and runs that module, instantiated on shared variables; each
module's `ConstantsOK` is assumed for its constants, and its properties are restated
with the topic as a premise. `MCUpkeep` gives the constants their values; the theorems are
about `Upkeep`, that is about any. Its runs may end, so deadlock is not checked.

- **`Levels`, `Analysis`** (topic *analysis*): the stop engines with their fallbacks,
  the targets, the ladder, the regime gate (`Levels`), and `_analyze_symbol` from the
  layers to the verdict, with the regime read twice from a cache that moves (`Analysis`). Distances
  from the entry mirror LONG and SHORT; targets and the band, multiples of the risk and of the
  volatility, are counted in thousandths of a unit and so exact. The snapshots bracket every threshold: volatility
  below, in and above each engine's band, swings and pools near and far.
  `LevelsAreSound` says an emitted signal has its stop and first target outside the entry
  band, a rising ladder, and the nearest target that pays enough. `too_close`'s reject and
  indicators themselves are left out; the 5-minute momentum bonus reads a field no
  snapshot has, so it adds nothing; nobody reads the `adaptive_*` settings that
  `adaptive/engine.py` writes.
- **`Failures`**: `record_failure`, then calls that read the row, decide and commit
  (`NoteRetry`, `NoteTerminal`, `MarkResolved`). `RetriesAreBounded` counts the retries
  granted against the budget and those that overlapping calls made the row forget.
  `NoBlindRetry` holds too. The circuit breaker, the duplicate check and the idempotency
  key have no caller.
- **`BreakEven`**: the planner and the caller that executes intents in order and may fail
  between them. Without lost answers and users who move the stop themselves, the
  working stop only tightens and TP1's slice is closed once; with either it does not
  (`ConstantsOK` admits both faults). Only the tests call the engine.
- **`Permissions`**: what a validation makes of each exchange's answer about a key with
  any subset of rights; a key that may withdraw is never connected without a warning.
- **`Sizing`**: `PlannedQty` against a reference definition (the largest acceptable
  quantity within the amount, or the least acceptable), the preflight, and an order's
  life in a row that keeps the quantity asked for. Amount and least notional are divided as
  floats before the decimal rounding (`binance_preflight.py:239`, `:244`), so a quotient may be a
  hair off (`Noise`): 16.5 at 1.1 plans 14 and not 15. A hair matters only where the exact quotient
  is a whole number of steps (`Tied`); there `PlansAreBest` asks for the best plan but for one
  step, elsewhere for the best. A plan beyond LOT_SIZE's maximum, which is not read, is outside the
  property (`PlansAreTaken`, section 6). The divisions by a step are of decimals of short
  strings and exact. A symbol without LOT_SIZE (step 0, nothing rounded) is left out.
- **`MarketFeed`**: the polling loop and callers that fetch for themselves.
  `FreshIsRecent` bounds the age of what is taken for fresh by the staleness limit plus
  one request.
- **`Venues`**: opens, recovery sweeps and closes through five adapters that differ in
  what they list, how they place legs, and which errors they swallow. A handler is one
  step; interleavings are `LiveTrading`'s and `Recovery`'s. `ListedRowIsTrue` holds under
  failing reads and lost answers.
- **`Backtest`**: the walk over 15-minute candles with snapshots of the higher ones,
  rebuilt when one of theirs closes. `NoLookAhead`: a trade rests on every candle
  closed by its entry and none that closed later.
- **`Outcomes`**: one row of a signal, its booking, the backfill, the rebuild and all
  reports' filters, with `lifecycle_pnl_enabled` (the branch without it is left out).
  `OneStory`: they count the same wins and losses, and what counts as a
  win booked money. It needs a share booked at the first target and the break-even stop
  on; both are the defaults.
- **`Migrations`**: archive, dedup and backfill scripts that read and write in
  different sessions beside a tracker (its TP2 is treated like TP1) and are stopped anywhere.
- **`Exposure`**: the portfolio caps and the news locks, as a caller would use them (only
  diagnostics and tests do, and they are off by default). `RefusalsStand` is
  proved, `StackingCosts` holds; caps count open positions, not pending orders.
- **`Accounting`**: closes that record themselves in the session of the close.
  `DayNeverOvercounts`: the row of the day never tells more than the ledger and
  agrees with it if no closes overlapped. Accounting is off by default, and callers
  pass neither funding nor commission.

## 5. Proofs

All theorems hold for any values of the constants that satisfy the modules'
assumptions, all numbers of handlers, requests, sweeps, ids, and every fault.

**Live trading.** `TypeCorrect`: the type invariant, strengthened to `IInv` (a handler
past `idle` has a request and, past `resolve`, an adapter; a closing handler's target is
a row that exists), which is what makes the updates of `row[Target(h)]` well typed.
`RowsTellTheTruth`, `TradesAreReal` and `GateStopsWrites` follow from one inductive
invariant `SInv`: what is on the wire belongs to a live adapter at
a writing await (`WireInv`), an entry is accepted at most once and only by an open
request (`LandedInv`, `IdleInv`), a booked row belongs to a request that is done
(`BookedInv`), a handler waiting to commit a live close has it executed
(`ExecutedInv`), and a handler has at most one late write, none if one is still on the
wire (`LateInv`). None of the three properties is inductive alone: a row is truthful
only because nothing can be accepted for its request after it was written.
`ClosedForGood` and `ClosesReduce` are action properties from `IInv`; `NoFillIsLost`
says that with no faults every accepted entry is being served or booked;
`ImplementsBook` is the safety half of the refinement, step by step.

`NoOrphans` is about a *calm* deployment, `Calm`: `Faults = {}` and market orders only
(`Orderly` is what of it speaks of constants that a setting of the recovery run keeps). Answers may still be lost, legs trigger, requests be rejected and interleave at will.
The four ways out of `Calm` (an abort, a failing lookup, a moving gate, a LIMIT order) each
make TLC find an orphan, so the hypothesis is sharp. The property is about a *net* position,
which no invariant about single rows bounds: `Backed` says it is never larger, on
either side, than the number of accepted entries of that side that are not over. An
entry adds one to both, a triggered leg takes off the position only, and a close whose order
was executed is counted as over before it commits (`Finishing`), with at least one off
the position. `CalmInv` has the plain facts (live adapters only, no resting order, a row
stands for an accepted entry). `Backed` has a parameter for rows that others than the
handlers are about to end: nobody here, the sweeps in recovery. Its lemmas are about a step in which
no gate moves and nobody dies (`Undisturbed`), not about constants, so that they serve any
program that has such steps only, for the time it does.

**Recovery** (for any retry budget; an import may be long or short, so the theorems
assume `Sides = {"LONG", "SHORT"}`). The invariant `RInv` adds to what `LiveTrading` keeps
(`IInv`, `BookedInv`; *not* `RowTellsTheTruth`, which a sweep's own certification
overrides) that a queried row is stored and stays so (`KnownInv`), that a repair works on
a queried row within its budget (`RepairInv`), and `ReviewIsKept`. `KnownInv` is why
`SweepCommit` can update what it queried long ago, `RepairInv` why `tries` stays bounded.
From it follow `RecoveryTypeCorrect`, `ReviewKept` and `RecoveryReopensNothing`.
`SweepsOrphanNothing` carries `Backed` over to a system with sweeps, with the rows the running
ones saw without a position and are going to end as its parameter (`WrittenOff`): a symbol
seen flat is backed without its row, and stays so when a younger entry of the symbol
fills, which brings a row of its own. `CalmVanishedIsGone` follows, and `CalmSettingVanishes` says it
of the program the run checks: one that has faults, and a calm setting whose moves are
`Undisturbed` ones, gets `VanishedMeansGoneWhenCalm`, provided no lookup fails and orders are market
orders; the premise of the property is part of the invariant. `CertifiedForReal` has the two hypotheses the code lacks:
no trailing stop, which a reading cannot tell from a stop-loss (`NoTrail`; section 6), and,
in the property, no order of the other side at that symbol.

**Reconciliation.** `DuplicatesBounded` holds for any finite set of API runs. The bound is not
inductive: `DInv` counts the issues of a drift together with the sweeps that are about to
commit one (`issues[d] + |Committing(d)| <= |Sweepers|`): a sweep adds an issue only where
none is recorded, when the sum is the number of sweeps at most, and a commit moves one
from the second term to the first. With no API run the bound is one (`LoopRecordsOnce`).
`AlarmsAreTrue` holds while positions move on the exchange only and can be read: its
`TruthInv` says, of a watched symbol, that the rows a sweep has read are still the rows, that the
drifts there are while it reads are collected in `real`, and that what it compares after its reads
is among them. With trades by requests, imports or failed reads of the watched symbols it is
false (section 6). `WatchedAlarmsAreTrue` and `AloneRecordsOnce` are about the two settings of
`MCReconciliation`, whose steps are steps of the program (`SettingsAreSteps`), for any constants:
in the mixed one reads fail and other symbols are traded and imported, and the watched ones
still get true alarms (`SettingTruth`); in the quiet one, a loop that no API call joins,
`AloneInv` has every other sweeper idle, so that the loop's look at the issues is never stale.

**Signals.** None of the properties is inductive: `SigInv` adds that the tracker's
copies are the rows (`CopyInv`; it is the only writer after `create_signal`), that the
queue of the signal it serves holds no step back (`WorkInv`), that what is told was
recorded (`ToldInv`), and that a status is as good as the best target (`RowTruth`), which is
`ProtectedIsNoLoss` made inductive. `RowStep` says what any step does to a row: it stays,
appears, or becomes `Later`; `SignalTypeCorrect`, `NeverAhead`, `NoOutcomeWithoutFill`,
`NoProtectedLoss` and the action property `NeverFallsBack` follow from it.

**Accounts.** `IInv` adds to the types that a key a request is about to store was found fit
and that rows a request has loaded still exist (`HeldInv`: no row disappears but the
vault's that a new connect replaces); from it `OnlyFitKeys`, `KeysComeByConnect` and
`RevokedForGood`. `SwitchIsRemembered` needs `SwitchInv`: while toggles come one by one, the
one under way stores what the memory has, and between two of them the memory is what a
restart reads. `NoRowAssumption` (NULL is no row) is what a model value gives TLC.

**Publisher.** Four properties, four invariants over `TypeInv`. `PostInv` says that each
post a chat holds while the signal is still to be sent to it was one whose answer
was lost (`Owed`), so that an answer, which ends the attempts, adds the only other
one. `PauseInv` says that while broadcasts are paused what was posted since is the
signal the handler has under way past the flag. `SpaceInv` is why restarts do no harm:
between `can_emit` and its row a symbol is in one place (its task, the results, the
handler), and there the rows of its symbol and side are a cooldown old, because the
*table* said so; that the memory was lost does not matter. A crash empties the three
places. `SavedInv` says that each chat whose id the handler is going to save has the post, and so
has each chat a row names: a refusal or a crash saves nothing. From them
`RepeatsNeedLostAnswers`, `PauseStopsSignals`, `CooldownIsKept` and `RowsNamePosts` (of
`SavedIsPosted`, in no run).

**Paper.** `PInv` is the type invariant with what every session holds between its reads and
its commit: a row of its own that no one else has (`HandInv`), the rows of a signal that is
being served, one per user without one (`FanInv`), the rows an event loaded, which stay their
owners' (`EvInv`), and an execution record for each committed row of a signal (`RecordInv`).
The last two carry `OnePositionPerSignal`. For `CreditedOnceByHand`, `CreditInv` says that *every*
account that was read, in whatever session and however long ago, lacks the result of a
position that is not over (`Fair`): a session loads the account before it finds its position
open, so the absolute balance it writes cannot hold that result already. Events load in
the other order, and for positions of a signal the property is false (section 6).
`BooksAlwaysBalance` speaks of users of whom no two sessions ran at once (`mixed`), while
others overlap as they like. `Books` says of such a user that one request, one served signal
or one watched event of it is under way at most (`Alone`); that what it has read still holds
(`Current`): the account is the committed one, the position it closes or the event settles is
open, and the margins in use with that of the row being opened are within the balance; and
that no position that is not over has a trade (`Balanced`), so that a settlement adds a trade
that is new. `Settling` and `Opening` are the two steps that move money, `Elsewhere` all that
concern someone else. `OwnInv` keeps the rows their owners'. That a sum over a finite set takes
one more term whatever the order (`SumPlus`) is proved here from the library's definition of the
fold, without its induction theorems: of the subsets for which a claim fails one has the least
size (`LeastOf`, `BySubsets`), and `SumExists` builds the function that the fold chooses.
`BreakEvenNeverLoses`: `EvenInv` says that a break-even stop is at the entry or above it in the
row, in the copy an event loaded and in what it decided, and that a position that has a trade is
over, so that no later event can mark it.

**Gates.** `GatesTypeCorrect` is the base. For `CapsBounded` no invariant on the rows alone is
inductive: a request was measured against the rows of *its* moment, and others commit in
between. `FullBeta`, `FullPilot` and `FullSeats` count what is booked of a kind together with
what requests past the gate are about to book, and say that the sum is within the cap plus, for
each *other* request, the most it can ask: `LoadStep` shows that only a request that passes the
gate adds to the sum, at a moment when the booked part was within the cap; a commit moves a
term (and no more of it than the gate has seen, whatever the row is worth), a close takes one away. The sums are sizes of finite sets of units, so that the library's
facts on cardinality apply (`UnitsTake`, `UnitsMore` and their like), and the greatest size is
found by `GreatestOf`. `GatesStayShut` is an action property: each action that lets a request past
a gate asks `Blocked` and the membership at that step, and a kind of row can only grow by a
request that is already past.

**Upkeep.** Each theorem has an invariant of its topic and holds for any constants that
satisfy the module's `ConstantsOK`.
- `SoundLevels`: `AnalysisInv` says that levels on the way to a signal are `BuildLevels` of the
  snapshot and of the thresholds of the regime that judged them, which may not be the regime of
  now. `StopIsOutside` goes through the four stop engines and their fallbacks (the volatility of
  a candle is floored and that of a tradable market bounded, so that the band is narrower than any stop), `NearestIs` is the choice among the
  targets that pay. Targets are exact, in thousandths of a unit: with rounded ratios two of
  them tie that are not equal, and the property was false for some snapshots.
- `GateIsTighter` (of `GateOnlyTightens`, in no run): outside a quiet market `Thresholds` are never
  looser than the base's, whatever a regime's own parameters say, and every engine but the
  balanced ones puts the stop where it would without the gate, or refuses.
- `RefusalsAlwaysStand` (of `RefusalsStand`, in no run): what the filter refuses of a part of
  the book, or on a better day, it refuses of all of it. `FullestGroup` picks the group of the fullest cap
  (`GreatestOf`), and the counts of a part are no more than those of the whole.
- `RetriesStayBounded`: the count of the row may pass the budget, because a refused retry is
  counted too. `FailuresInv` says that what it exceeds the budget by are refusals
  (`Refusals`, `Counted`), for the row and for every copy a call has read, so that one that is
  granted was within the budget, or is among those a later writer made the row forget.
  `NothingResentBlindly` (of `NoBlindRetry`, in no run) adds `Looked` to the row and the copies:
  a write may mix columns of two decisions, but both were of the same class.
- `FreshStaysRecent`: a request is over by its limit and stores without another wait, so the
  age of a stamp and the age of its price differ by one request at most.
- `WithdrawalsAreKnown`, `RowsAreMoved`, `NoLookAheadEver` (a snapshot is missing or that of the
  candles seen), `ListedRowsAreTrue` (a row ends by a close that emptied the position, or by a
  listing that named every position).
- `ProtectionGrows` needs `Faults \subseteq {"fail"}`: `TP1Sound` and its like show that a plan is a
  `Sound` sequence (one slice, stops that rise from the one in force, the trailing last),
  `RestSound` that what is left of it is sound for the stop that came of its head. An unknown
  result or a user who moves the stop makes the property false, and TLC shows it.
- `OneStoryTold` needs a share booked at the first target and the stop at the entry after it
  (the defaults): `BlendedPays` is where, since a stop at its first place, or
  nothing booked, makes a win that did not pay. `StoryInv` says that a row the filters leave out
  (open or expired) is neither won nor lost, and that a history a backfill is about to write
  over a newer one tells the same as it. Only what it says of money has the hypothesis (`Pays`);
  the rest gives `WinsAreKept` (of `WinsStayWins`, in no run) for any shares and with the stop
  anywhere: `WonAt` is a target in the history or in the status, and no step loses both.
- `DayIsNeverAhead`: `DayInv` says that what a close has *read* of the day is within the ledger of
  now (`Within`), which only grows, and is the committed row unless a close committed since,
  which it will know. So what it writes back is within the ledger with its own trade, and exact
  if nobody came in between. The ledger is counted cent by cent, as the size of a set
  (`CentsMore`: a close more adds its cents), so that the library's facts on cardinality apply.
- `BestIsPlanned`: everything is counted in steps of the symbol. `DownIs` and `UpIs` say that the two
  roundings give the most steps an amount pays and the least that are worth a minimum, wherever
  in its hair a quotient is, but for the number of steps that is the amount itself
  (products of two variables, hence `TimesOrder`). `PlanInNumbers` goes through the ways the
  minimums can bind over an abstract function of what steps are worth, so that no product is left
  in it; `PlanInSteps` puts the products back, and `PlanIsBest` says it in quantities again.

**Only model-checked**, and why:
all liveness (`FillsGetBooked`, `SweepsEndWhenFailing`, `NewDriftIsAlerted`) and the fair half of
the refinement, which are out of this prover's reach. Every invariant and every action property
of a passing run is a theorem.

No module with a theorem has a recursive operator.

## 6. Where the code does something else

`recovery_gate_shut` is the disagreement a maintainer should see first. Five more have a
configuration of their own, which TLC refutes in seconds to a minute:
`tlc -config X.cfg M` with `M` the MC module.

| Configuration | Property | What happens, and what it disagrees with |
|---|---|---|
| `LiveEmergencyMark` | `FailedEmergencyIsMarked` | an emergency close that fails after it cancelled the working orders leaves its row unmarked: the mark is rolled back with the error (`live_trading/service.py`, `emergency_close_position`) |
| `LiveDoubleClose` | `OneTradePerPosition` | two closes of one position both book a trade (`live_trading/service.py:460`) |
| `SignalsZombie` | `ClosedIsTerminal` | the status of a closed signal changes (`scanner/tracker.py`) |
| `PaperDoubleCredit` | `CreditedOnce` | a tracker event settles a position that a request closed after the event loaded it (`paper_engine/service.py:351`) |
| `GatesStreak` | `StreakLocksOnce` | the lock of a losing streak expires and the same streak sets it again (`safety/service.py:247`; `docs/reports/sprint/SPRINT20E_SAFETY_LAYER_REPORT.md:38`) |

The modules state more of what comments, reports or names say and the code denies. They
are violated in instances of the module like those of the runs, with the constants
named here where those of the run do not show it:

| Module | Property | Why it fails |
|---|---|---|
| `LiveTrading` | `FillAccounted` with `"lookup"` or `"abort"` | a lookup that fails is taken for "no such order" (`service.py:71`); a crash between fill and commit loses the row (`service.py:347`) |
| `LiveTrading` | `NoOrphanPosition` with LIMIT | a resting entry fills after an emergency close ended its row (`service.py:610`) |
| `LiveTrading` | `TradeModeIsPositionMode` | with the gate shut a LIVE position is closed on the mock adapter (`service.py:516`) |
| `Recovery` | `OnlyMissingIsPlaced` | a working leg is placed again after an attempt or a reading that failed (`engine.py:192`: "Re-place ONLY the missing protective legs") |
| `Recovery` | `CertifiedIsProtected` with TRAIL | a trailing stop passes for the stop-loss (`engine.py:126`) |
| `Recovery` | `OnlyOrphansAreImported` | the position of an entry not committed yet is imported (`engine.py:322`) |
| `Reconciliation` | `OneIssuePerDrift` with an API run | two sweeps record one drift twice (`engine.py:355`) |
| `Reconciliation` | `NewDriftIsAlerted` with an API run or failing alerts | a drift first recorded over the API, or whose alert failed, is never alerted (`loop.py:85`, `:95`) |
| `Reconciliation` | `NewDriftIsNamed` | an alert has 20 lines and 1200 characters; drifts that stand are listed again and crowd out the new one (`loop.py:88`, `bot.py:580`) |
| `Gates` | `ExposureIsCapped` | the gate measures the notional a client names, the row has the quantity (`live_trading/service.py:216`, `:221`, `:235`) |
| `Reconciliation` | `DriftIsAlerted`, `UnprotectedIsAlerted` | issues are never resolved (`loop.py:6`); no expectation of protection is passed in (`engine.py:350`, `loop.py:5`) |
| `Reconciliation` | `NoFalseAlarm` with imports or failed reads | a RECOVERED row is invisible to the query (`engine.py:302`); after a failed read every row is missing (`engine.py:327`) |
| `Signals` | `OneTrackedPerSymbol` | a signal at TP1 or TP2 does not block a second one (`repo.py:23`, `config.py:118`) |
| `Signals` | `PaperFollowsToTheEnd` | a paper position stays open when its signal expires, or when the event came before it was opened (`tracker.py:156`, `main.py:204`) |
| `Publisher` | `OneLivePerSymbol`, `NoEventBeforePost`, `PausedIsSilent` | as above; the tracker does not wait for the broadcast; events are posted while broadcasts are paused (`telegram_bot/bot.py`, `broadcast_event`) |
| `Publisher` | `QuietAfterClose`, scanning | a signal at its first target ends while the next one of its symbol and side has passed the check (`config.py:122`) |
| `Accounts` | `CodesWork`, `ConnectedIsWhole`, `SwitchIsStored`, `OneFirstAdmin`, `SomeAdmin` | a setup begun during a confirmation; two overlapping tests; two overlapping toggles; two first registrations; a first login by Google |
| `Analysis` | `GateNeverAdmits`, `JudgedByItsRegime` | the balanced engine falls back to a tighter stop where the gate narrows it; the regime is read twice |
| `Failures` | `ResolvedIsQuiet` | a retry that read the row before it was resolved leaves a retry due |
| `Permissions` | `OnlyProvenKeys` | a read-only key of Bitget, or of OKX without a list of rights, is CONNECTED |
| `Sizing` | `PlansAreTaken`, `PlansAreExact` | LOT_SIZE's maximum is not read (`binance_preflight.py:143`, `:223`); a float quotient a hair below a whole number of steps loses one (`:239`), one above gains one (`:244`) |
| `Sizing` | `RowIsWhatWasBought`, `ClosesFlat`, `WarningsAreTolerated` | the row keeps the quantity asked for; an empty balance is a warning that fails the preflight |
| `MarketFeed` | `PricesGoForward`, `EnsuredIsFresh` | an older answer stored later; a caller goes on after a failed request |
| `Venues` | `EndedIsFlat`, `OneOrderPerLeg` | OKX lists `BTC-USDT-SWAP` where the row says `BTCUSDT`; its orders are never read |
| `Backtest` | `ExpiredUntouched` | a trade without an exit is closed at the candle after the last one that was looked at (`historical.py:194`) |
| `Outcomes` | `StatusTellsTheSame`, `TrackedIsLeftAlone`, `ClosedKeepsItsMoney` | `rebuild.py:67`; `backfill_tp_history.py:122`; a signal stopped after a target keeps a status that is still polled, and each poll writes its profit again |
| `Migrations` | `LeftoversGo`, `CopyIsLast`, `OnlyOpenExpires` | a row whose copy was committed but not its deletion stays for ever (`archive_legacy_signals.py:297`); the copy is older than the row; a closed signal is expired |
| `Exposure` | `CapsHold` | pending orders fill past the caps |
| `Accounting` | `DayIsSumOfTrades`, `AccountingNeverBreaksTheClose` | overlapping closes lose an update (`models.py:61`); a failed flush poisons the session of the close (`service.py:973` of live trading) |

One divergence from a document has no property: the silence after a close is of a symbol
*and side* (`repo.py`, `in_post_close_cooldown`), where
`docs/reports/audits/DUPLICATE_SIGNAL_GUARD_REPORT.md:42` says "any side".

## 7. Not modelled

- **Dashboard** (`dashboard/`): HTTP presentation of the other parts. The actions it
  triggers are modelled where they are carried out.
- **Utilities and configuration**: settings, logging, formatting; the limiter of
  `utils/ratelimit.py` is a per-process fixed-window counter per client address
  in front of the HTTP API, whose state no other part reads.
- **Indicators** (`indicators/`, `liquidity/`, parts of `strategies/`): numeric functions of
  price series; `Analysis` takes what they say as input.
- **Cards, formatting, translations, layouts of reports; shadow mode** (telemetry).
- **Parts of modelled components** are named as left out in section 4 and in
  PROJECT.json.

## 8. Plan

Everything planned is modelled. What would add most next:

1. Several users in one recovery or reconciliation session; the endpoint that edits TP/SL.
