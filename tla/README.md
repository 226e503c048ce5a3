# A TLA+ model of optionwright

optionwright (`src/optionwright`) is an agent that sells vertical option spreads
and iron condors through Alpaca and keeps its positions in Postgres. This
directory models the parts of it that are hard to test: two jobs on two threads
that move the same rows while the broker fills, drops and settles orders on its
own; the reconciler that makes the table match the broker; a cycle of the entries
job, from the expiry to the last rung, with the question to the LLM in it; the risk
gates over a book that changes under them; the exit rules on what the network gives;
the rules table with the people and the nightly job that change it; and the caches
through which the threads read it. TLC checks the models on small instances,
TLAPS proves the main safety properties of the order lifecycle, and that the
history tells the rules table, for every value of the constants.

Paths below are relative to `src/optionwright` unless they start with `docs/` or
`README.md`, which are the repository's.

## 1. The system

### Components

| Component | Code | State it keeps | Here |
|---|---|---|---|
| Scheduler and process | `api/main.py` 24-43 | two APScheduler jobs, `max_instances=1` each, in one process | `OrderLifecycle` (partly) |
| Entries job | `agent/runner.py` run_entries, `agent/loop.py` run_cycle, _place, _open_condor | locals of a pass | `OrderLifecycle`, `EntryCycle`, `EntryPass` |
| Exits job | `agent/runner.py` manage_positions, _resolve_pending, _close | locals of a pass, `_reconcile_ok` (a global) | `OrderLifecycle` |
| Positions table | `storage/store.py` | `positions`, `reconcile_log` | `OrderLifecycle`, `PositionLifecycle` |
| Reconciler | `reconcile.py`, `reconciler.py`, `agent/runner.py` 319-422 | none; reads table and broker, returns resolutions | `Reconciler`, `ReconcilerCheck` |
| Broker adapter | `broker/alpaca.py` | none; orders, positions, activities live at Alpaca | external actions of `OrderLifecycle`; expiries and quotes in `EntryCycle` |
| Risk gates | `policy/gates.py`, `store.build_policy_state` | none; thresholds come from the `rules` table | `EntryGates`, `EntryPass` |
| Rules and proposals | `policy/params.py`, `store.py` 227-268, 321-369, `api/main.py` 194-291 | `rules`, `rules_history`, `rule_proposals` | `RuleProposals` |
| Exit rules, position state | `agent/exits.py`, `agent/state.py`, `agent/runner.py` 158-221 | credit, fill and peak of a row; `position_ticks` | `ExitRules`, `ExitWatch` |
| Replay | `replay.py` | none; reads the ticks | `ExitRules`, `ExitWatch` |
| Nightly learning | `learning.py`, `agent/learning.py` | locals of a night; writes proposals | `RuleProposals`, `TradeStats` |
| LLM analyzer | `agent/analyzer.py` | none | `EntryCycle` |
| Chain and selection | `options/` | none | `SpreadSelection`, `EntryCycle` |
| Caches | `agent/runner.py` 43-108, `api/main.py` 127-141 | `_params_cache`, `_clock_cache`, `_cache` (globals, no lock) | `TimedCaches` |
| Perception | `agent/perception.py` | none | not modelled: real arithmetic on quotes |
| Universe, settings, schema, metrics, heartbeat, notifications, dashboard | | configuration or observability | not modelled |

### How they interact

The entries job runs every 180 s and the exits job every 60 s, on different
threads, so a pass of one overlaps any number of passes of the other. They share:

* **the `positions` table.** A row is `pending` (its entry order is working),
  `open`, `closing` (its close order is working), `closed` or `unfilled`. Rows are
  inserted by the entries thread (`record_position`) and by the reconciler
  (`adopt_position`); all other changes are made by the exits thread. Each
  statement is a transaction of its own; some have a guard on the status in their
  WHERE (`mark_unfilled`, `revert_closing`), others have none (`confirm_fill`,
  `close_position`, `reactivate_position`).
* **the broker account.** A sent order works until the broker fills it, in whole
  or in part, or drops it. Legs held are net signed quantities: the broker does
  not know about spreads, the table does.
* **the `rules` table.** Requests of the API change it on threads of their own
  (`PATCH /api/rules`, the decision on a proposal), each start seeds it; the nightly
  job reads it and stores proposals, which only a person turns into a change.
* **three caches.** Both jobs read the parameters and the market clock through
  globals of `agent/runner.py`; requests read tables through `_cache` of `api/main.py`,
  from which the requests that change the rules drop an entry after their commit.
  None is under a lock: two threads may refill one at once.
* **`_reconcile_ok`.** The exits job sets it at the end of its pass from the
  comparison of the two books; the entries job reads it once, at the start of a
  pass, and does nothing when it is false. It is true after a restart.

### What is hard, and what makes it right

* *Fills race cancels.* The entry ladder cancels a rung and re-reads it before the
  next; a stale pending row is canceled and marked unfilled; a stale close is
  canceled and its row opens again. Right: no order fills that no row accounts
  for, and no row is settled by another row's order.
* *A call fails half way.* An order is sent before it is recorded. Right: each
  failure loses track of at most one order, and the reconciler notices.
* *Decisions are applied late.* The reconciler reads the table, then the broker,
  then the evidence, then applies fixes one at a time, while the entries thread
  records rows. Right: what it decided is still true when applied, a fix never
  reopens or closes a row without evidence, and not more than so many a day.
* *One leg, many rows.* Spreads can share a leg. Right: no contract at the broker
  explains two rows.
* *Gates look, then orders go out.* The book changes between. Right: caps, daily
  budget, spacing and the same-strike rule hold on the book that results.
* *A cycle is a chain of calls that fail one by one.* Two readings of the calendar,
  two chains, a spot, up to three LLM answers, quotes at each rung. Right: whatever
  fails, what is traded is a capped spread on an expiry in reach, that an answer
  decided, and its limits only walk down to what the market gives.
* *Values are kept instead of read.* A read fails, takes long, or overlaps another or
  a change. Right: what is answered is outdated by no more than it is old, does not go
  back by itself, and is current in the end.
* *Rules applied to what is not known.* Every input of the exit rules but the quote
  may be missing. Right: the loss is capped whatever else is missing, nothing is
  left to sleep on an unknown, and the replay of the recorded ticks decides as the
  job did.
* *A person decides in two transactions.* A proposal is marked, then applied, while
  other requests, the nightly job and restarts go on. Right: the history tells the
  table, an approved proposal is applied, a decision is not taken back, and
  unanswered proposals end.

The hazards, each at its line and with the properties that cover it, are listed
in `PROJECT.json`.

## 2. Modules

| Module | What it is |
|---|---|
| `Reconciler` | Pure part of the reconciler: `expected_legs`, `diff`, `_find_order`, `resolve`. Lists of rows are visited in the order given, because the code consumes contracts row by row; the pairing of leftover legs, which depends on the order of a dict and of orders, is a parameter over which the state machine chooses. |
| `OrderLifecycle` | The core: broker, table, entries thread, exits thread, reconciler, restart; its properties and its fairness. |
| `OrderLifecycleInv` | The inductive invariants: `Inv`, and `CountedInv`, which also accounts for the orders astray. |
| `PositionLifecycle` | Abstract specification: the status graph of a row and nothing else, with the promise that a row does not stay `pending` or `closing` for ever. |
| `OrderLifecycle_proofs` | Proof of `Inv` and of the properties it implies; of `CountedInv`, that no order is lost sight of but for a fault of its own; and that `OrderLifecycle` implements `PositionLifecycle`. |
| `ReconcilerCheck` | One reconciler pass on its own, started from every small disagreement, with spreads that share legs. |
| `ReconcilerCheck_proofs` | Proof of `PassInv` and of the two properties of `ReconcilerCheck`. |
| `DocClaims` | Sentences of the repository's documents that the order lifecycle does not satisfy, one property each. |
| `EntryGates` | Pure part of the gates: `evaluate`, and the inequalities its last four gates are documented to keep (`Fits`). |
| `EntryPass` | `build_policy_state` and the cycles of the entries job over a small book, condors included, while the exits job changes it. |
| `EntryPass_proofs` | Proof of `GatesInv` and of the six properties of `EntryPass`. |
| `SpreadSelection` | Pure part of the choice of a spread: liquidity, width, the short leg by delta, the long leg by width. Where the code takes the first of equals, which depends on the broker's listing, `build_spread` is the set of what it may return. |
| `EntryCycle` | One cycle on one underlying, call by call: expiry, spreads, LLM, gates on the trade itself, ladder. |
| `EntryCycle_proofs` | Proof of `CycleInv` and of the four properties of `EntryCycle`. |
| `TimedCaches` | The caches of the parameters, of the market clock and of the API. |
| `TimedCaches_proofs` | Proof of its two safety properties. |
| `ExitRules` | Pure part of the exits: the clock, the six rules in their order, the tick, the replay. |
| `ExitWatch` | One position from its entry to its end: the credit the store keeps for it, the passes that watch it, their ticks. |
| `ExitWatch_proofs` | Proof of the types, `LossCapped`, `SleepsBalanced` and `ReplayAgrees`. |
| `TradeStats` | Pure part of the nightly job: what it measures of closed trades. |
| `RuleProposals` | The rules table, its history and the proposals; requests, the nightly job, restarts. |
| `RuleProposals_proofs` | Proof of `ProposalsInv` and of the six safety properties of `RuleProposals`. |
| `Sums_proofs` | Lemmas about sums over finite sets and division, by induction over sets. |
| `MCOrderLifecycle`, `MCReconcilerCheck`, `MCEntryPass`, `MCEntryCycle`, `MCTimedCaches`, `MCExitWatch`, `MCRuleProposals` | Instances for TLC. |

### OrderLifecycle and the code

One action is one call to the broker, or one transaction of the database with
the reads it rests on. `epc` and `xpc` say where each thread is.

| Thread | `pc` | Action | Code |
|---|---|---|---|
| entries | idle | `StartEntries` (reads `ok`), `EndEntries` | run_entries 569-606 |
| | pass | `BeginPlace(v, n)`: the gates pass a spread | run_cycle 325-333 |
| | submit | `SubmitEntry`: send the rung; a reply without id records an open row | _place 141-144 |
| | wait | `WaitEntry`: filled, dropped, still working, or unreadable (recorded pending) | _place 145-170 |
| | cancel, wait2 | `CancelRung`, `WaitCanceled` | _place 159-167 |
| | any | `PlaceRaises`: a call raises and the loop goes on with the next symbol | run_entries 596-604 |
| exits | resolve | `ResolveRow` (final order), `FindStale`, `CancelStale`, `EndResolve` | _resolve_pending |
| | manage | `KeepOpen`, `SubmitClose`, `EndManage` over `get_positions(200)` | _manage_positions |
| | closewait, revert | `WaitClose`, `RevertClose` | _close, _settle_close |
| | live, broker, evidence | `ReadLive`, `ReadBroker`, `ReadEvidence` | _reconcile, _auto_reconcile |
| | apply, log | `ApplyFix(r)`, `LogFix`, `EndReconcile`, `ReconcilerFails` | _auto_reconcile, _apply_resolution |
| broker | | `BrokerFill`, `BrokerPartialFill`, `BrokerDrop`, `Settle`, `NewDay` | external |
| process | | `Restart`: both passes are lost, the table and the broker stay | |

Failures are bounded by `MaxFaults` and counted in `faults`: a call that raises
before or after it took effect, a reply without an id, a cancel without effect,
a restart. What the broker does on its own (fills, drops, partial fills, expiry)
is not a failure and is not bounded.

Abstractions worth knowing:

* An order number stands for its price and its age: later orders are newer, and
  an order may be too old at any pass. The decision to close is free. The gates
  are the duplicate guard only (the others are `EntryPass`'s subject).
* `ReadEvidence` is one action although the code makes three reads (orders,
  activities, unfilled rows): only fills may fall between them, and a fill that
  falls between is the same as one just before or just after for what `resolve`
  looks at, which is filled orders of the past.
* The cancel of a first wing left pending (loop.py 214-215) has no action: what it
  may do is what `BrokerDrop` does on the working order, and the row stays pending
  either way. A condor is two `BeginPlace`s; its second duplicate guard is
  evaluated later in the model than in the code, which only narrows what the code
  may send. `EntryPass` models it as the code does.
* `row.how`, `row.exit`, `row.entry` and `row.born` are evidence kept for the
  properties: how a P&L came about, the order it rests on, the order that opened
  the row and the last order sent when it was opened.

### EntryPass and the code

`row` is the positions table with what the gates read: spread, contracts,
`max_loss`, day, measured delta. `RunCycle` and `OpenCondor` read
`build_policy_state` and keep only the approved size and the wings, as the code
does; the orders then take their time while the exits thread runs. `Insert`
recomputes `max_loss` from the fill (store.py 86-87) and so does `ConfirmFill`
(108-109): a fill may be worse than the mid or, as in tests/test_store_db.py 53-55,
better, and `Slips` has both. A tick of `now` is a cooldown unit; `DayLength` ticks are a day.
Fractions of equity are given as dollars. The gates that read one input alone
(confidence, blackouts, reward/risk floor) can only make a cycle not happen and
are left out. `net_delta_usd` is a set of at most one number: empty is the code's
None. One set of rules stands for all scopes.

### EntryCycle and the code

`pc` says which call of `run_cycle` is next; a call that fails and is caught is a
disjunct of its own (`NoFurther`, `read` false, an empty `spot`, an empty `q`), and one
that is not ends the cycle (`CycleRaises`, caught by run_entries).

| `pc` | Action | Code |
|---|---|---|
| expiry | `FindExpiry(m, read, r)`: `nearest_expiry`, by sessions or, unread, by days; then the regime | loop.py 238-246, alpaca.py 191-250 |
| spreads | `ReadSpreads`: both chains, the width, both spreads | loop.py 250-258 |
| further, walk | `LookFurther`, `NoFurther`, `WalkOn`: later expiries, nearest first | loop.py 263-282 |
| screen | `Screen`: the volatile regime may forbid entries | loop.py 284-288 |
| ask, fallback | `AskPrimary`, `AskFallback`: an answer, which may be a failure, and what it is parsed to | analyzer.py 62-217 |
| route | `Route`: one side, or both as a condor, or nothing | loop.py 303-323, 194-197 |
| gates | `Approve`, `Veto`: confidence, loss and reward/risk; the book's gates may veto | gates.py 125-127, 189-199 |
| submit | `SubmitFirst`, `SubmitNext`: the limit of the next rung | loop.py 46-62, 129-141 |
| wait | `NextRung`, `Filled`, `Unfilled`, `Pending`: what `_place` makes of the order | loop.py 142-170, 208-222 |

A chain is one for puts; that of calls is the mirror image of another. An answer is a
failure, a body without content, one of blanks, one that is no object, or an object with
a direction and a confidence, which may be no number. Prices are whole half cents, so
that a mid is exact; `round` to cents may go either way at half a cent (`Cents`),
because it depends on the float. `seen`, `dead`, `known`, `limits` and `asked` are
evidence for the properties. The state of the book, the size of the trade and what
becomes of its order are `EntryPass`'s and `OrderLifecycle`'s.

### TimedCaches and the code

A behaviour is about one of the three caches, `kind` says which: they share `Hit`,
`Miss`, `Read`, `Store`, and differ in what a failed read does (`KeepParams` stores the
last value or the defaults as if read; `RetryClock` and `GiveUpClock` try twice, then
answer an entry up to 15 minutes old without making it younger; `RequestFails` raises).
The code takes the time once, at the start of a call, so an entry is as old as the call
that stored it: `call[r].age` goes on counting while a call reads. `Write` and `Pop` are
the commit of a request and its `_cache.pop`. Instants are kept as ages up to `Old`.
`gone` (since when a version is outdated), `failed`, `overlap` and `newest` are evidence
for the properties. The API's cache uses the wall clock, taken here to run evenly.

### ExitWatch and the code

A pass is one quote at one instant of a list of days and seconds to the close.
`WatchRow` is the body of the loop of `_manage_positions` for the row: it saves the
peak, decides, closes or not, and then records the tick. `Inputs` are the
measurements, each of which may be missing (an empty set), the volatility and the
delta of the book only where a rule asks for them; `Clocks` are the clock, the
clock without a next close, and none. A close fills, works, or reverts; the order
behind it is `OrderLifecycle`'s. `fill` is `fill_credit`, `credit` the column the
rules read. A tick holds what the replay reads, rounded as it is stored: times to
hundredths of an hour (state.py 138-139), the delta of the short leg to four decimals
(134), while the job decides on what it measured. Deltas are in hundred-thousandths, one
digit more than a tick keeps. `Round` is to the nearest integer, halves up where Python
looks at the parity or the float; no property rests on the direction. A tick that fails to be recorded, and a close that raises, are faults.

### RuleProposals and the code

One action is one transaction, or the SELECT of one that takes no lock. A request
is at `mark` (decide_proposal has read the row), `old` (set_rule has validated the
scope), or `write`. `MarkDecided` updates by id alone, as store.py 263-264 does. The
nightly job is at `expire`, `read` or `add`; `todo` holds what it will add, computed
from one reading of the rules. The two keys of `REGISTRY` are those the night
proposes; values are counted in ten-thousandths and `Absent` is a missing row. `NaN`,
which the string "nan" is converted to, is below no minimum and above no maximum, so
`Coerces` lets it through as the code does (params.py 56-59), and the night, whose
comparisons with it are all false, proposes nothing from it. A
refused scope, key or reason changes nothing and is left out. `Concat` is the loop that
extends the list of proposals bucket by bucket. The kept `asof`, `batch`, `stored`,
`seen`, `by` and `was` are evidence for the properties. What a night
measures is a choice among buckets; `MCRuleProposals` gives the trades that measure
so, and `NightsAreMeasured` has TLC compute them with `TradeStats`. `Measure` gives a set
of at most one result: where the mean of no losses would raise (learning.py 101), none,
and such a night ends before it changes anything.

## 3. Runs

| Run | Question | Instance | Result |
|---|---|---|---|
| `lifecycle_faults` | Do the safety properties and the refinement hold with a failure anywhere? | 1 spread, 3 orders, 5 rows, 1 fault, 1 extra rung, 1 fix a day | hold |
| `lifecycle_lots` | ... with two spreads in flight and partial fills? | 2 spreads, 2 orders of up to 2 contracts, 6 rows, no fault | hold |
| `lifecycle_live` | Does every row get out of `pending` and `closing`, is a disagreement noticed, are the entries unblocked? | 1 spread, 2 orders, 4 rows, 1 fault, fairness | hold |
| `reconciler_pass` | Does a pass leave the books equal on all it did not hand to a person, with no contract explaining two rows? | spreads over 3 legs that overlap, rows of up to 2 contracts, every small broker book and evidence | hold |
| `gates` | Do caps, strikes, daily budget and spacing hold on the book that results, and is every size the largest the documented inequalities allow? | 2 symbols of one group, 3 spreads, 3 rows, 3 instants over 2 days | hold |
| `exits` | Is the loss on the actual fill capped, does nothing sleep on an unknown, does the replay decide as the job did? | 1 position, 4 instants over 3 days, 3 quotes, 2 ticks, 4 parameter sets, 1 fault | hold |
| `rules` | Does the history tell the table, is what was approved applied, does a decision stand, does a proposal end? | 1 group, 2 requests at once, 2 proposals, 2 changes, 1 fault, fairness | hold |
| `cycle` | Are the spreads those asked for, on an expiry in reach; is what is traded what was decided; do limits only walk down? | 4 calendars, 8 chains a side, 3 spots, 3 configurations of the LLM, 12 answers, 4 pairs of quotes a rung, 3 rungs | hold |
| `caches` | How outdated may an answer be, can it go back, is it current in the end? | 2 threads, 1 change, 2 failed reads, a time to live of 2 ticks, fairness | hold |
| `claim_one_row_per_entry` | One entry order, one live row? | no fault | **violated** |
| `claim_closed_means_gone` | Closed in the table only when gone at the broker? | 1 fault | **violated** |
| `claim_one_open` | One open proposal per scope and key? | no fault, a night with two buckets of a group | **violated** |

### The properties

* `OrderOwnership`: a row waits only for an order sent for its own legs, in the
  right direction, and no two rows for the same one.
* `PnlHasEvidence`: a realized P&L rests on a close order on the same legs, sent
  after the row was opened, that filled, or on the expiry of both legs; the one
  exception is the close whose reply had no id.
* `OpenHasFill`: a row is open only on the strength of a filled entry on its legs.
* `DecisionsStand`: what the reconciler decided is still true when it is applied,
  whatever the entries thread and the broker did meanwhile.
* `NoOrphanEntries`, `NoLostFill`: without failures no entry order works
  unfollowed or fills unrecorded, and each failure accounts for at most one.
* `FixesCapped`: the cap of automatic fixes, up to one per failure: a fix applied
  whose log row is lost is not counted (the cap counts log rows).
* `LifecycleSafe`, `LifecycleSpec`: the two jobs implement the status graph, and
  under fairness its promise.
* `DriftNoticed`, `EntriesUnblocked`: a disagreement is over or blocks the entries;
  if the books agree for good the entries are eventually unblocked.
* `AgreeOrAsked`, `ExplainedIsHeld`: of a reconciler pass, as above.
* `CapsHold`, `DayRiskBounded`: the caps and the daily budget on the book that
  results, the second wing of a condor left aside. The risk of a row is counted at
  the mid, at which the gates sized it, or at the fill where that was better: the
  gates see the smaller `max_loss` and give away what it freed, so the sum at the mid
  is not bounded, and the sum at the fill exceeds the budget by what fills below the
  mid gave up, which no gate knew. `OneBetPerStrike`,
  `EntriesSpaced`: the same-strike rule with pending rows, the cooldowns with rows
  of every status; rows the reconciler brought to life passed no gate and are left
  aside. `SizedRight` compares `evaluate` with the inequalities of docs/RULES.md in
  every reachable book.

* `SpreadsAsAsked`: a spread loses less than its width, which is the width asked for
  within the tolerance; no liquid contract is nearer the delta; crossing both legs costs
  no more than the liquidity gate allows; and calls are treated as the mirror image of
  puts. `ExpiryInReach`: what is traded expires on a listed day between the minimum and
  the fallback's reach, and as near as live chains allow while the calendar can be read.
  `OpenedAsDecided`: only the last answer counts, the ones before it were none, and
  what is traded is the side or the condor it came to, confident and paid enough, the
  second wing only after the first filled. `RungsWalkDown`: limits do not rise, stay
  at a cent or more, do not undercut the market unless an earlier one did, and the
  last asks for what the market gives.
* `AgeBounded`: whatever overlaps and fails, an answer was current when it was read, so
  it is outdated by less than the time to live or than the call itself has taken; older
  only if the rules could not be read in that time, and for the clock by less than the
  stale limit and the attempts. `NotUndone`: without overlapping calls no answer goes
  back, neither to the defaults nor to before a change that was answered.
  `EventuallyCurrent`: once changes and failures are over, answers are current.

* `LossCapped`: a pass that sees the loss on the *fill* reach the cap decides to
  close, whatever other input is missing; rows the reconciler revived, whose credit
  is not the fill, are left aside. `SleepsBalanced`: what is held at bedtime is
  known to be small in a book known to be balanced, in the mode that allows it.
* `ReplayAgrees`: from its ticks the replay closes at the pass
  where the job first decided to, provided no tick was lost and the rules use
  nothing a tick does not hold (volatility, the book), and that nothing is so near a
  threshold that rounding matters: passes are at whole hundredths of an hour
  (`OnTheHundredth`) and no recorded delta is within half of its last digit of the stop
  (`ClearOfTheStop`). Where rounding matters it may close at an earlier pass, never at a
  later one if the thresholds are as rounded as what they are compared with, whole
  hundredths of an hour and a stop of four decimals, as the defaults are, and the near
  take-profit is not above the far one (`RoundsEarly`). Both halves are one property.
* `TypeOK` of `RuleProposals`: a number in the table is within its bounds, whichever
  of the three ways it came; what else stands there is NaN. `HistoryTellsTable`: a value
  ever changed is what its last history row says, in spite of concurrent requests and of seeds at a restart. `ApprovedIsApplied`: an
  approved proposal is in the history, or a request is about to apply it, or a
  failure fell between. `DecisionStands`: a proposal decided by one request at a
  time is applied at most once, only if approved, and not expired under a decision
  already made.
* `OneOpenAcrossNights`: a night does not repeat what an earlier one left open.
  `MovesAtMostAQuarter`: what a proposal applies is within a quarter below the value
  in force for its group, if nobody changed that since the night read it and the
  night read it from the table, not from the registry's defaults.
  `OverdueEnds`: again and again no proposal is past its time.

### Bounds, and why they are enough

Three orders are an entry, its second rung and a close, or two entries and a
close: each race of the code is between at most two orders and a row. Five rows
let the reconciler adopt an order twice next to the row the entries thread
records. One fault in any place is every single-failure scenario; the theorems
cover any number. Two contracts are the least that can fill in part, two spreads
the least that can be mixed up. `MaxFixes` 1 makes the cap bind at the second
fix. In `gates` the caps are 2 with three rows, so the third entry tests them;
cooldowns are shorter than the run and the day ends within it; the loss of a
contract, the budgets, the share of 3/5 and the delta cap are chosen so that each
limit is the smallest one in some state; orders fill a dollar above or below the mid,
and a pending row stands for a fill at it; a close loses, and two losses stop the entries
for the day (a gain only loosens the gates on the day's P&L and on the streak, which no
property is about: with closes that gain 1 as well, 1.4 million states, the same holds). In `exits` two ticks are one that sets a
peak and one that falls from it, and the instants are a bedtime, an hour before the
last day's close, a bedtime that rounds, and the day of expiry; quotes are a take
profit, a gain that arms the trail, and a loss between the cap on the fill and the
cap on the mid; one delta is just under the stop that four decimals put on it (0.44996
for 0.45), and one just over a stop of five decimals that they put under it (0.30004
for 0.30002), so both ways in which the replay may differ are there. In `rules` two
requests and two proposals are the least that race and the least that repeat each other,
the values people set are one out of bounds and NaN, and a later start seeds one from
which the night proposes the minimum; `ProposalTTL` 0 has one model day stand for
the whole time a proposal may be open. In `cycle` there is one chain for each way a side
can come out (a good ladder, a hole within and one past the tolerance, ties, a poor
credit, inverted and mispriced quotes, nothing liquid) and one calendar for each
(a weekend, weeklies only, a holiday with an expiry on it, a calendar that ends); the
window of 2 and 3 sessions and its fallback of 6 are those of the settings; three
answers are all `propose` can ask for, and three rungs have a first, a middle and a last.
In `caches` two threads are the two jobs; two failures are the attempts of a clock read;
one change tells old from new, and with two changes (1.9 million states) the same holds;
the stale limit is past the time to live, and both are reached. Every mutant listed in `PROJECT.json`
(a dropped guard, an off-by-one, a status left out of a query, a wrong order
accepted as evidence) is caught by its property under the same instance, so the
instances are large enough to see those bugs.

Deadlock is checked in the runs of `OrderLifecycle`, `RuleProposals`, `EntryCycle` and
`TimedCaches`. It is not in the runs of
`ReconcilerCheck`, where one pass ends and nothing follows, and of `EntryPass`,
where time and rows run out, nor of `ExitWatch`, where a position ends.

### Fairness

`Fairness` is `WF(ExitsStep)`, `WF(PlaceStep)` and, for each row,
`SF(FindStale(i))`. The scheduler runs the exits job for ever and every call has a
timeout, after which it raises: both threads are weakly fair inside a pass.
Nothing makes the entries job start an entry, nothing is assumed of the broker,
and failures are never fair. `FindStale` is strongly fair because an order's age
only grows: in the model "too old" is a choice, which an unfair run could refuse
for ever, and the row is looked at again in each pass. In `RuleProposals` the
nightly job and the days are weakly fair: the scheduler starts the job every night
where `LEARNING_CRON_UTC` is set, each of its calls ends, and time passes; that it gets
as far as its proposals supposes that what it measures does not raise, which it would
night after night while a bucket has losses and none of them a credit (learning.py 101).
No person
has to answer, and failures may end any night, of which there are finitely many. In
`TimedCaches` time passes; a read of the clock ends, because the broker's client has
timeouts on every call (alpaca.py 33-55), which is also why time waits for it past
`MaxRead`; what was read is stored, which is local. A read of the database or of a
request is not assumed to return, and no thread has to call.

### The violations

* **`claim_one_row_per_entry`.** The entries thread has an entry order working, or
  a pending row for it. The order fills. The exits pass reads live rows (`open`,
  `closing`: reconcile.py 11), finds legs it has no row for, finds the filled
  entry as evidence and adopts it; then the pending row is confirmed as well, or
  `_place` records its row. Two rows count one fill, and one close order is
  evidence for both: its P&L is realized twice. store.py 187: "A spread the broker
  holds and the DB does not".
* **`claim_closed_means_gone`.** The reply to a close has no id; `_close` takes it for
  a fill and closes the row at the mid (runner.py 242-245), above the check that
  should stop it. runner.py 231-232: "Never "closed" in the DB while the legs are
  still at the broker."
* **`claim_one_open`.** Proposals come one per bucket and a group has several. What
  is pending is read once, before the loop that stores them, so two buckets of one
  group that ask for the same key leave two open proposals. learning.py 206: "one
  open proposal per (scope, key)"; docs/RETROSPECTIVE.md tells of five identical
  ones.

Other consequences of the code that are in the models, and that no run states:

* the reconciled flag is read once per entries pass (runner.py 583), so a pass that
  started goes on after a disagreement is found;
* the duplicate guard looks at the table before the order goes out (loop.py 326): the
  exits thread can adopt or revive a row on the same legs in between;
* `get_positions(200)` pages over rows of every status, so an open row older than 200
  others is not managed;
* two rows whose spreads share a leg and that lost one leg each go to a person and
  consume nothing (reconciler.py 114-118): the legs they leave can pair up as a
  third spread that once filled, whose adoption takes the table farther from the
  broker;
* the size of a trade is fixed at the mid and `max_loss` recomputed at the fill
  (store.py 87), so a trade of the whole budget ends above it when it fills below the
  mid; when it fills above, what it freed is given to later entries, and the risk of the
  day at the mid passes the budget;
* a float rule can be set to NaN, by a request or by the environment (params.py 53-60),
  and every comparison with it is then false: a cap or a budget vetoes nothing, a stop or
  a take-profit does not fire, no proposal is made from it. The change stands although
  the answer to the request that made it cannot be written as JSON. `RuleProposals` has
  it; the gates and the exits of the other modules have numbers for thresholds;
* two requests can decide one proposal, one approving and one rejecting it: it is then
  applied, whichever mark is last (store.py 256-266); and a proposal applied after
  its value moved may move it by more than a quarter, or up;
* a start seeds a value that had no row, over which a proposal may be pending that a
  night made from the registry's default (params.py 140; the database was down at the
  first start, api/main.py 46-58): applied, it moves the seeded value by as much as the
  environment differs from the default, and it seems nobody changed anything, since a
  seed leaves no row in the history. TLC finds it; `MovesAtMostAQuarter` leaves it aside;
* a pass asks once whether the market is open; for an underlying it comes to after the
  close `_minutes_since_open` is None and the next close is tomorrow's (runner.py 80-86,
  111-124, 535), so neither blackout vetoes and an entry is sent after hours;
* a condor's wings pass the gates on one state (loop.py 198-199): on a balanced book one
  below the cap it opens two, though the repository's README.md 101 says of the cap "No
  more than N concurrent spreads" (`CapsHold` leaves the second wing aside);
* a revived row has its fill but keeps the credit of the mid (store.py 202-206), from
  which the exit rules go on, though store.py 82 says of the fill "it IS the credit"
  (`LossCapped` leaves revived rows aside);
* a confidence out of 0..1 is clamped (analyzer.py 84), as test_analyzer_parse.py 36
  asserts, and so is a NaN, to 1.0; analyzer.py 64-65 says it "collapses to a safe
  ABSTAIN";
* an empty answer of a native primary endpoint is not retried (analyzer.py 123, 187-190),
  although 171 says of an empty answer that `propose` "retries it ONCE"; only the other
  endpoint raises on it;
* the walk to later expiries starts after the window (runner.py 530), so one inside it
  after the nearest is never tried, although docs/RULES.md 60-61 has the cycle walk "the
  next listed expiries"; if only the second reading of the calendar fails it starts
  at so many calendar days, which may be inside the window or before it;
* the last rung asks for the natural credit whatever it is, down to a cent: the
  reward/risk floor the gate checked at the mid is not checked again;
* a parameters call that overlaps another may put back the older reading, and with a
  first read that fails next to one that succeeds, the defaults, for one time to live,
  although runner.py 94-95 says "never the registry defaults while a better value
  existed"; an old value stored after a request's `pop` is answered for up to 10 s;
* the replay passes neither volatility nor the book's delta (replay.py 46-51), so with
  the default `trail_vol_ref_pct` 0.8, or in `delta` mode, it may differ from the job;
* a tick keeps hours to a hundredth (state.py 138-139), so with a threshold in time that
  is no whole hundredth (31 minutes before the close), or a near take-profit above the
  far one, which the registry allows (params.py 98-99), the replay may close later than
  the job did; and so with a stop of more than four decimals, since a tick keeps four of
  the delta (134). With the default stop a delta of 0.44996 closes the replay and not the
  job (`ReplayAgrees` leaves all of these aside);
* the average loss of rule B is the P&L of all the contracts over the credit of one
  (learning.py 101): with two contracts half a credit lost counts as a whole one; and in
  a bucket with losses of which none has a credit it is the mean of nothing, which raises
  and ends the night.

## 4. What is proved

The bounds are parameters everywhere: nothing in the proofs uses their size. What is
assumed of the constants is named in the modules that declare them, and TLC evaluates it
on every instance.

* `OrderLifecycle_proofs`: any set of legs and spreads (two different legs each,
  `SpreadAssumption`), any number of orders, rows, contracts, rungs, fixes and faults, any
  page size (`BoundsAssumption`).
* `ReconcilerCheck_proofs`: the same, and no two symbols in one place of the alphabetical
  order (`RankAssumption`); any broker books of whole contracts, and any evidence of one
  filled order of each spread and side at most and of any activities, with room for the
  orders and for the three rows of the start (`StartAssumption`).
* `EntryPass_proofs`: any candidates that can lose something, as build_spread gives them
  (`CandidatesAssumption`); symbols in one group each, as parse_groups gives them
  (`PeersAssumption`); parameters in the ranges of the registry (`RulesAssumption`); whole
  dollars and any bounds, fills above the mid as well as below, but none above the width
  of its spread, which nobody pays (`DollarsAssumption`, `BoundsAssumption`); what the reconciler
  adopts is a put or a call spread (`StraysAssumption`).
* `EntryCycle_proofs`: any market of numbered days, of which the broker lists finitely many,
  any windows that do not begin today (`MarketsAssumption`: the code takes the session at
  `min - 1` of the list); any finite chains, quotes in whole cents, at most one price of the
  underlying, any integer deltas, share, tolerance and liquidity in `sel`, and a step of the
  ladder that is not negative (`QuotesAssumption`); any answers, whose confidence is one
  number or none, and any thresholds (`AnswersAssumption`).
* `ExitWatch_proofs`: any mids, fills and prices that are no debit (`MoneyAssumption`), any
  list of instants (`TimesAssumption`), any parameters whose overnight mode is one the code
  knows, with thresholds of time in seconds, of profit in hundredths of a percent and of
  delta in hundred-thousandths, of any sign (`RulesAssumption`).
* `RuleProposals_proofs`: any groups, none called `global`, and any finite set of requests
  (`ScopesAssumption`); bodies of a scope and key that exist, with any number or NaN,
  which is no number (`NaNAssumption`), and environments the registry accepts, NaN
  included, as `seed_from_settings` sees to (`InputsAssumption`); any measures of any number of buckets (`NightsAssumption`).
* `TimedCaches_proofs`: any set of threads, any time to live no longer than the stale
  limit, any number of attempts and bound of their duration, changes and failures
  (`CachesAssumption`).

| Theorem | Statement |
|---|---|
| `Invariance` | `SafeSpec => []Inv` |
| `TypeCorrect` | `SafeSpec => []TypeOK` |
| `OwnOrders` | `SafeSpec => []OrderOwnership` |
| `PnlEvidence` | `SafeSpec => []PnlHasEvidence` |
| `OpenEvidence` | `SafeSpec => []OpenHasFill` |
| `DecisionsHold` | `SafeSpec => []DecisionsStand` |
| `FixCap` | `SafeSpec => []FixesCapped` |
| `Accounting` | `SafeSpec => []CountedInv` |
| `OrphansBounded` | `SafeSpec => []NoOrphanEntries` |
| `FillsRecorded` | `SafeSpec => []NoLostFill` |
| `Implements` | `SafeSpec => LifecycleSafe` |
| `PassInvariance` | `PassSpec => []PassInv` (of `ReconcilerCheck`) |
| `PassIsOfTheJob` | `PassSpec => [][Next]_vars` (of `ReconcilerCheck`) |
| `ExplainedHeld` | `PassSpec => []ExplainedIsHeld` (of `ReconcilerCheck`) |
| `BooksAgree` | `PassSpec => []AgreeOrAsked` (of `ReconcilerCheck`) |
| `Promised` | `Spec => []GatesInv` (of `EntryPass`) |
| `TypeCorrect` | `Spec => []TypeOK` (of `EntryPass`, of `ExitWatch`, of `RuleProposals`) |
| `CapsAreHeld` | `Spec => []CapsHold` (of `EntryPass`) |
| `StrikesDiffer` | `Spec => []OneBetPerStrike` (of `EntryPass`) |
| `DayIsBounded` | `Spec => []DayRiskBounded` (of `EntryPass`) |
| `CooldownsAreKept` | `Spec => []EntriesSpaced` (of `EntryPass`) |
| `SizesAreRight` | `Spec => []SizedRight` (of `EntryPass`) |
| `Cycles` | `Spec => []CycleInv` (of `EntryCycle`) |
| `ExpiriesAreInReach` | `Spec => []ExpiryInReach` (of `EntryCycle`) |
| `TradesAreDecided` | `Spec => []OpenedAsDecided` (of `EntryCycle`) |
| `LimitsWalkDown` | `Spec => []RungsWalkDown` (of `EntryCycle`) |
| `SpreadsAreAsAsked` | `Spec => []SpreadsAsAsked` (of `EntryCycle`) |
| `Watched` | `Spec => []ExitsInv` (of `ExitWatch`) |
| `LossIsCapped` | `Spec => []LossCapped` (of `ExitWatch`) |
| `SleepersAreBalanced` | `Spec => []SleepsBalanced` (of `ExitWatch`) |
| `ReplaysAgree` | `Spec => []ReplayAgrees` (of `ExitWatch`) |
| `MarksAreCounted` | `Spec => []ApprovedIsApplied` (of `RuleProposals`) |
| `DecisionsStand` | `Spec => []DecisionStands` (of `RuleProposals`) |
| `NightsAddOnce` | `Spec => []OneOpenAcrossNights` (of `RuleProposals`) |
| `AQuarterAtMost` | `Spec => []MovesAtMostAQuarter` (of `RuleProposals`) |
| `HistoryTells` | `Spec => []HistoryTellsTable` (of `RuleProposals`) |
| `AnswersAreOfBoundedAge` | `Spec => []AgeBounded` (of `TimedCaches`) |
| `AnswersDoNotGoBack` | `Spec => []NotUndone` (of `TimedCaches`) |

**The argument.** None of the properties is inductive. That a row waits for its own
order when `SubmitClose` and `WaitClose` are done needs to know that the order in
hand is on the row in hand and that no other row waits for it (`Managing`,
`Placing`), which needs that orders and rows are numbered without gaps
(`OrdersNumbered`, `RowsNumbered`). That a P&L rests on a *later* close needs that
a row is not older than the orders sent (`RowsNumbered`) and that a closing row's
order is newer than the row (`ClosesAreLater`). That decisions stand when applied
needs that the rows they are about are distinct and in a status only the exits
thread changes (`Reconciling`): the entries thread only inserts rows and the
broker only makes orders final, so evidence never goes away (lemma `FactsStay`).
The cap needs to know where a fix stands between its application and its log row
(`Budget`). `Inv` is the conjunction of five parts, one per owner of state
(`BrokerInv`, `TableInv`, `EntriesInv`, `ExitsInv`, `CountInv`). The proof has a
lemma for each operation of the table and of the broker, frame lemmas for what a
thread leaves alone, and then one lemma per action. `Implements` maps a row to
its status: lemmas say which edge each operation takes, and that a step takes one.

*Orders astray.* `NoOrphanEntries` and `NoLostFill` bound two sets of orders by the number
of failures. One set holds them both: an entry order is astray when it works and neither
the entries thread nor a row has it, or filled and no row was opened for it. An order can
pass from the first kind to the second without a failure, so neither bound is inductive
and the bound on both is (`Accounted`). A step of the two threads changes a row, an order
or the order in hand in one of a few ways (`AccountStep`), each of which leaves astray
what was astray and nothing else, one order at most excepted, and then a failure is
counted.

*A pass of the reconciler.* `AgreeOrAsked` and `ExplainedIsHeld` speak of the state in
which a pass has applied all it decided. `PassInv` says the same of every state from the
decision on, of what the books will come to (`Final`): a settled row is counted with what
the decision leaves it, and the row an adoption or a reactivation will add is counted
before it is there. Three arguments make it true when the decision is taken. The rows are
gone through one by one, and each takes no more than is left: by induction over the
listing, what is left of a leg lies between nothing and what the broker holds
(`LeftBetween`), and what the rows took of it is what is missing (`TakenIs`). A row is
left with what it took, or a person is asked about it and it took nothing (`RowFate`,
`RowsStay`). A leg nobody explains arrives with its pair in full, for the pairs share no
leg, or a person is asked about it (`PairsIs`, `LegsArrive`): here two symbols must not
share a place in the order, because the pairing looks only at the legs that come before.
After that, each resolution that is applied moves one row from what will be to what is.
No other resolution is about that row or those legs, so the sums stay (`FixedFinal`,
`AddedFinal`), and the order of the resolutions does not matter. The steps of a pass are
steps of `OrderLifecycle` (`PassIsOfTheJob`), which gives `PassInv` all of `Inv`.

*The gates.* Between the gates and the fill the exits thread goes on, so what the gates
found must be a promise that its steps keep (`GatesInv`): there is room under each cap and
in the day's budget for the spread of the cycle (`RoomKept`), no live row is short a
strike of it, and earlier entries are a cooldown away (`CooledDown`). A row that is
confirmed, closed, or reverted stays counted or leaves, and does not count for more than
before: a pending row counts at the mid (`RowsNumbered`), and a fill can only lower that
(`Risked`). What the gates add up is never less than what is counted, so their room is
room. A row that is adopted is left aside by the properties; an entry uses the promise up, and a second wing is placed only on a
first that filled (`CondorsStand`). The daily budget and the size are sums over rows: that
a sum grows by what is added, whichever element the fold chooses first, is proved by
induction over subsets (`Sums_proofs`). `SizedRight` needs that each of the four limits is
a quotient rounded down, so that a size is within it if and only if its inequality holds.

*The cycle.* `CycleInv` has a part for each stretch of `pc`, and what one stretch leaves is
what the next starts from. `LookupInv`: the nearest of the first window, and every one
ahead in the walk, is in reach, and what was passed over is dead. The window is given by
its first and last day, chosen as those up to which so many sessions count; that they
exist is an induction over the number (`NthIs`), and that the calendar in between has no
more and no fewer is that counting to a later day counts no less (`CountMono`).
`AnswersInv`: until a decision the answers so far were none, and after it the proposal is
what the last one is parsed to, so that the retry and the fallback never mix two answers.
`WingsInv`: a wing stands alone only if it was decided alone or its pair was given up, and
the second of a pair has the first filled before it; what passed the gates goes on passing
them, because the proposal does not change after them. `LadderInv` is `RungsWalkDown`
itself, which is inductive as soon as limits are integers: `RungIs` says that rounding,
which may go up by half a cent, stays under the limit before because that one is in whole
cents, and that a limit is never rounded to nothing because half a cent makes one.

*The selection.* `SpreadsAsAsked` is looked at when both spreads have just been built
(`SeenInv`), so what it says is what `build_spread` and `width_for` compute. A width is a
whole number of steps nearest the share of the spot (`RoundsNear`), and a step is the least
of finitely many gaps, none of them nothing (`StepIs`). That a leg crossed costs what the
liquidity gate allows needs mids that are exact, hence quotes in whole cents. The mirror
image is proved the way the selection goes: reflecting is its own inverse and leaves
prices and deltas alone (`MirrorTells`), so what each stage picks from a reflected chain is
the reflection of what it picks from the chain (`MirrorPicks`, and one lemma per stage),
the answer that there is no spread included (`MirrorBuilt`).

*The exits.* `decide_exit` is the first of eight rules that applies. Said by a least index
instead of a selected sequence, it is enough to know which rules come before: the loss cap
is second only to rules that close as well, and a row sleeps only if the rule that puts it
to sleep was reached. `LossCapped` compares the cap on the fill with the cap on the credit
in the row, so the invariant says which of the two the credit is (`ExitsInv`).

*The replay.* `ReplayAgrees` is about all the ticks of a position at once, so each of them
must go on telling of its pass (`TickTells`, `TicksInv`): the high-water mark that pass
decided by, which clock it had, rounded, and that its decision is the one these two make.
What the rules come to when neither volatility nor the book is asked is one condition
(`ShouldClose`, lemma `ClosesIff`), the same for the job and the replay. They differ in
three inputs. The mark is in the row for one and recomputed from the ticks by the other; that
both are the greatest captured so far is an induction over the ticks (`PeaksExist`,
`PeakGrows`, `OnePeak`). The times and the delta are rounded for the other. Rounding
passes no whole hundredth of an hour and keeps one (`RoundStays`), so what was due stays
due (`ClockReplayed`); it moves a delta by half of the last digit at most and passes no
number of four decimals (`RoundsNear`), so a stop of four decimals that was reached still
is, and if no recorded delta is that near the stop, it is reached for both or for neither
(`DeltaReplayed`). While the job watches a position it may decide to close more than once,
if a close does not fill; the first tick at which the replay closes is the least of a
finite set and not after the job's first.

*The proposals.* A night reads the rules once; days and transactions later its proposal is
applied. `ProposalsInv` says of each proposal, in the table or still to be added, that it
is `Sound` (a number the registry accepts, lower by a quarter at most) and `InForce`: while no
row of the history touches its key in its scope or the global one, the value it read is
the one that a reader of its group still gets. An append touches it or leaves it; a seed
fills only what has no row, and so cannot change what was read from the table. That is why
`MovesAtMostAQuarter` holds, and why it must ask that the value was stored. That what is
approved is applied is a count again: a failure cuts at most one request of each thread
(`OnePerRequest`). That decisions stand needs to know where a request that found a
proposal pending is (`Decided`): it has it still, or wrote it, or was refused or cut.
That two nights leave no two open proposals needs what the job knows of the pending ones
when it adds (`NightKnows`). What a night proposes is the concatenation of its buckets'
proposals, by induction over its length (`JoinsExist`, `ConcatIs`).

`HistoryTellsTable` adds to it that no change leaves the mark of a missing row, which a
seed at a restart would fill (`Present`), and says which change is the last by a witness
rather than a choice (`Told`), so that the append of `WriteRule` and the seed of `Restart`
are the only two steps with work to do.

The properties of `TimedCaches` are about what may be answered now; what is answered
later comes from readings in flight and from an entry too old to answer, which an
unreadable clock may still use. `CacheInv` says it of them all: each is dated, by the end
of its version or by a failed read (`AgesTell`), and while calls do not overlap one at
most is in flight, nothing is valid under it, and neither the entry nor what it read is
behind what was handed out (`Ordered`). That Tick keeps the dates is that growing older
is monotone (`OlderMonotone`), the cap on ages included.

*Induction.* The library's induction theorems take a predicate as a parameter, which the
provers cannot instantiate. `Sums_proofs` derives from a well-founded order that a set with
0 and the successor of each member holds every number (`NatSetInduction`), and the same of
the subsets of a finite set (`SubsetInduction`): the set is what the predicate would be.

**Model-checked only.** Liveness (`LifecycleSpec`, `DriftNoticed`, `EntriesUnblocked`,
`EventuallyCurrent`, `OverdueEnds`) is beyond the prover. Every safety property of the
passing runs is stated by a theorem.

## 5. Not modelled

Prices in the order lifecycle, except for their effect on the selection and the limits
in `EntryCycle`, on the loss of a position in `EntryPass` and on the exit rules in
`ExitWatch`. Greeks, bars and the indicators computed from them (`agent/perception.py`,
real arithmetic): the regime and the volatility are free choices. How a contract's quote
is read from the broker's answer, the span of strikes asked for, and the cache of chains
of one pass, which one thread uses: a chain is any of a set. The text of the prompt and
of the rationale; an integer in the model's answer too large for a float, which raises out
of the parser and ends the cycle with nothing traded, as `CycleRaises` does elsewhere. The blackouts by the clock in the gates (a pass outside hours sends
orders the broker drops). The command line of the broker and its parsing; what the
reading routes return; rendering, metrics, the external heartbeat and notifications. The
deployment has one replica and strategy Recreate, so there is one process in the model.

## 6. Plan

1. An abstract specification of the proposals: decided once, and in force when
   approved, which `RuleProposals` implements where one request at a time decides.
2. The exits over a book of several positions, with the delta of the book measured
   once per pass; the claim that rule B looks at the losses per contract.
3. The scope of a single underlying (`policy/params.py`); the heartbeat, which counts
   the closes of the exits job as cycles (runner.py 564-565, agent/heartbeat.py 22-23)
   and may take a hung entries job for a live one while they go on.
