# Nectar Network: TLA+ models, checks and proofs

Nectar pools USDC in a vault contract on Stellar/Soroban.  Depositors own shares
of the pool.  Keepers, off-chain processes that have staked USDC with a registry
contract, watch a lending pool, draw capital from the vault to fill the
liquidation auction of an underwater position, and return the capital with a
profit that makes everybody's shares worth more.

This directory holds TLA+ modules for that system, the TLC runs that check them
on small instances, and TLAPS proofs of the properties that matter most for
every size of the system.  Paths in this file are relative to the repository.

## 1. The system

| Component | State | Operations | Talks to |
|---|---|---|---|
| Vault (`contracts/nectar-vault`) | configuration; `VaultState` (total_usdc, total_shares, total_profit, active_liq); one `Depositor` per user; one `KeeperDraw` per keeper with a draw open | initialize, deposit, withdraw, draw, return_proceeds, set_config | token (transfer); registry (get_keeper, mark_draw, clear_draw, record_execution) |
| Registry (`contracts/keeper-registry`) | configuration; paused flag; one `KeeperInfo` per keeper; the list of keepers and its length | initialize, register, deregister, pause, unpause, slash, set_config; for the vault only: mark_draw, clear_draw, record_execution | token (stakes in, refunds out, slashed stakes to the vault) |
| Token (`contracts/mock-token`) | balances, allowances | transfer, and operations no contract calls | |
| Liquidation lab (`contracts/liquidation-lab`) | positions, at most one auction per user | new_liquidation_auction, submit, admin operations | called by keepers |
| Keeper (`keeper/`) | none that survives a restart; metrics and an event ring for its HTTP API | poll, create auction, draw, fill, return, with retries | the contracts, over RPC; browsers, over HTTP and an event stream |
| Vault page (`frontend/app/vault`, `frontend/lib/stellar.ts`) | the wallet, the form, what it last read of the contracts | connect, disconnect, deposit, withdraw, register, deregister; queries | the contracts, over RPC; wallets |
| Home page's log (`frontend/lib/sse.ts`, `Hero.tsx`) | a connection or a timer; the last lines | connect, reconnect with backoff, show | a keeper's event stream |
| Tables (`PerformanceDashboard.tsx`, `MonitorFeed.tsx`, `KeeperRegistry.tsx`) | the last answers, or demo data | poll; read the registry | a keeper's API; the registry |

What is hard in it, and what makes each part correct:

* **Vault.**  A call is one transaction, but calls of depositors, several keepers,
  the admin and strangers arrive in any order and with any amounts.  The vault
  keeps one global figure of capital that is out and one record per keeper, and
  the two are updated by different rules; it divides integers in both directions.
  Correct means: shares add up and are never diluted by rounding, no USDC is
  unaccounted for, an idle vault can pay everybody.
* **Registry.**  It copies a fact of the vault's (who has a draw open), and it
  holds other people's stakes while its configuration changes.  Correct means: it
  agrees with the vault on open draws, and it can always refund every stake.
* **Keeper.**  Its calls take several round trips, may time out with an unknown
  outcome, are retried, and race with those of other keepers; it may stop between
  any two of them, and it keeps nothing on disk.  Correct means: capital drawn is
  capital returned, and its statistics count what happened.
* **HTTP API and event stream.**  Shared by the loop's goroutine and one
  goroutine per request.  Correct means: subscribers see events in order, limits
  are kept, snapshots are not changed under a reader.
* **Frontend.**  One thread, but every `await` lets anything else happen: the
  visitor clicks, disconnects or switches wallets while a transaction or a query
  is under way, and a handler goes on with the values it was started with.
  Correct means: what a page says of a transaction, of a wallet or of a keeper is
  what the ledger or the keeper said; connections, timers and intervals are
  neither lost nor doubled.

## 2. The modules

| Module | Stands for |
|---|---|
| `RustInts` | the integer operations in which Rust and TLA+ differ |
| `Storage` | a contract's persistent storage as a function; the sum of a store |
| `Token` | the token's transfer, as the contracts call it |
| `ShareMath` | the exchange between USDC and shares |
| `KeeperRegistry` | the registry: its variables, one action per call |
| `NectarVault` | the vault, composed with the registry and the token (EXTENDS KeeperRegistry) |
| `SharePool` | the abstract specification: a pool that is fair to those who stay |
| `LiquidationLab` | the lending pool for tests: reserves, positions, auctions |
| `KeeperLoop` | several keepers, the network and all contracts together (EXTENDS NectarVault, LiquidationLab) |
| `EventStream` | the ring of events, its broadcast, `/api/events` and `/api/state` of one keeper |
| `LiveLog` | the hook that connects to the event stream again and again, and the log that shows its lines (EXTENDS EventStream) |
| `Display` | what the frontend makes of numbers before it shows them |
| `VaultPage` | the vault page with its wallet, form, queries and transactions, in front of the contracts (EXTENDS NectarVault, Display) |
| `Site` | the pages that poll: tables, demo data, the effects and their intervals (EXTENDS Display) |
| `MC...` | the small instances for TLC |
| `VaultMath_proofs`, `NectarVault_proofs`, `KeeperLoop_proofs`, `EventStream_proofs`, `LiveLog_proofs`, `VaultPage_proofs`, `Site_proofs`, `Display_proofs` | the theorems |

**How the model corresponds to the code.**  A Soroban call is atomic: it returns
Ok and all its writes stay, or it fails and none does.  So each public function
that writes is one action whose guard collects the early returns, the asserts of
the contracts it calls and the traps (a division by zero), and whose primed
variables are the writes of *all* the contracts the call reaches: `Draw` is
vault, token and registry in one step.  A call that fails is the action being
disabled.  A persistent key per address is a function whose domain is the set of
addresses with an entry (`info`, `depositors`); `keeperDraw` is total with 0
for "no entry", which is how every reader reads it.  Admin calls carry no caller,
because the comparison with the stored admin leaves only one.  Amounts may be
negative or zero: the functions take an `i128` and most do not check it.

`windfall`, `writtenOff` and `slashed` are history variables, and so are the
keepers' `fills`, `lostRaces` and `unpaid`: no guard reads them.  The environment is
part of the model: anyone may call `slash`, USDC may move without the contracts
taking part (`PlainTransfer`, along the `Routes` of the instance), ledgers close
(`Tick`).

**Left out**, because no property depends on it: a keeper's name, registration
time and `active` flag (written once), `deposited_at` (never read), events
(written only), the lifetimes of storage entries, the width of `i128` (the
workspace is built with overflow checks, so an overflow reverts; amounts are far
below it), and a change of the token's address by the registry's `set_config`.
The counters of a keeper do saturate at `U64Max`.

**Keepers** (`KeeperLoop`).  A keeper is a program counter with the local
variables of `handleLiquidation` (`loop`), the state of the call it is making
(`call`), and nothing else, since it writes nothing to disk.  A call is what
`InvokeWithRetry` and `Invoke` do: read the sequence number, simulate and send,
poll for the result; each is one step, so that anything may happen in between.

* A call that simulation refuses is reported with the contract's code and never
  sent (`Refused`); one that fails on the ledger is reported without it (`Await`).
* A transaction that has been sent is in `pending`, from where the network may
  include it at any time, in the order of sequence numbers, or never (`Include`);
  a failed call uses its sequence number, too.
* `Fault` is every error of a round trip: one that `isRetryable` accepts or one
  that it does not.  In `Await` it leaves the transaction pending, or included
  without the keeper's knowing.  Its time bound of 30 seconds is not modelled:
  transactions may be included later than in reality.
* `SequencesFor` may be stale, because Horizon and the RPC server differ.
* `Crash` may come at any step; pending transactions survive it.

Prices are left open: any position with debt may be found underwater at a poll,
and an auction with a bid may be profitable or not.  The response time is 1 where
the code measures one and 0 where it passes 0.

**Event stream** (`EventStream`).  Each goroutine is a program counter; a section
under a mutex, a channel operation or an atomic operation is one step.  Go slices
are modelled with their arrays, because what can go wrong with them is sharing:
`memory` holds the arrays, `ring` the slice.  `unsubscribe` changes its list in
place, too, but `addEvent` copies it first, so that `subs` is a plain sequence;
the mutant that does not copy reads the shared array as Go would.

**Home page's log** (`LiveLog`).  The composition of the stream's server side
with its client: `es` and `timer` are the hook's variables, `wire` is what has
been written to the connection and not yet read.  The server sends its headers
with the first event, so that `onopen` comes no sooner, and the backoff is reset
no sooner.  A request is used again for a later connection once its handler is
over and no broadcast holds its channel (`Unused`), so that two suffice for any
number of reconnections.  `Break` is a connection that fails at both ends, each of
which comes to know it in its own time; `Unreachable` a request that gets lost.
React renders once for whatever was set in between (`Render`).

**Vault page** (`VaultPage`).  A step is one turn of the browser's event loop.  The
variables of `useState` are variables of the model; a handler that awaits is a
record in `calls` with the values of its closure (its wallet, its amount), and a
query in flight is a record in `reads`.  The contracts are those of `NectarVault`: a
simulation asks `DepositAllowed` and its like, an included transaction is the
contract's action.  An account has a sequence number, and the network holds one
transaction of an account at most; another one is answered TRY_AGAIN_LATER, which
the page does not tell from PENDING.  `Elsewhere` is what happens to the contracts
without the page: time, keepers that draw and return, other depositors, and the
admin who changes the vault's configuration, so that what the page has read of them
grows old.  The browser's clock may be off by `skew` (`TickClock`).  Draws of a
keeper with the visitor's own address use no sequence number of the page's account.
Merged into one step: the queries of one refresh, `getAccount` with the simulation,
signing with sending, opening the wallet picker with its answer, the kit's
disconnect with what follows.  Left out: wording, the minimal stake, the wallet's
own balances, the operator's name and the error of the operator's panel; and, among
what others do, the admin's calls to the registry, slashing and USDC sent to the
vault directly, since what the page sees of them (a transaction that is refused, a
keeper without a draw) other calls show it, too.  Amounts are integers; the
conversion of what is typed from a floating-point number is not modelled, that of
what is shown is (`InCents`).

**Tables** (`Site`).  `intervals` counts the intervals that are set, because the
question is whether cleanups clear them; `fetches`, `refreshes` and `cancelled` are
what is in flight.  An effect that depends on an object that each render makes anew
is run again by each render (`Render`).  Health factors are in tenths.  An answer
that comes after its page was left changes nothing and is left out; the queries of
one refresh are answered together; time does not pass, so that an interval may fire
at any moment.  `reported` and `asked` are history variables.

## 3. The runs

| Run | Instance | Shows |
|---|---|---|
| `vault_draws` | 2 keepers, 1 depositor, half of a stake slashed | the books agree whatever two keepers do with overlapping draws; what is left of every stake can be refunded |
| `vault_shares` | 2 depositors, 1 keeper, 2 units of profit, a deposit cap | share price, share sums, refinement of `SharePool` |
| `last_one_out` | violation | a draw returned in two parts makes the vault count money it does not have |
| `loop_one` | 1 keeper: 1 poll and 1 restart with all faults; 3 polls without any | a fill is always backed by a draw, only fills are counted, polls end; without faults capital comes back (liveness) |
| `loop_race` | 2 keepers that can pay one return, 2 polls each, slashing; or 1 poll each while auctions are cleared | only a keeper that lost a race on the ledger, or had a return refused, owes capital |
| `losers_return` | violation | the loser of a race keeps the capital |
| `event_stream` | 2 clients, limit 1, a reader, a ring of 3, 5 events | nobody is skipped, nobody is left behind, an encoded snapshot does not change |
| `live_log` | 3 requests, limit 1, 2 events, 1 failure of the network, backoff up to 3 | one connection or one timer; the backoff doubles, stops at the largest and is reset; the log is in order; the loop never waits for a client; a slot is always given back; the page is connected again in the end (liveness) |
| `vault_page` | 1 or 2 wallets, 1 or 2 transactions, with faults and losses, with keepers that draw, with an admin who lifts and sets the limits, or with another depositor and a clock that is off by 1 | the card tells the truth; no transaction is started twice; the panel is busy when it is; no endless poll while nothing goes wrong; with the vault's configuration, a clock that is not behind and a count that is not too high the page refuses only what the vault refuses |
| `late_read` | violation | a late answer makes one wallet's shares another's |
| `site` | 1 demo keeper, 1 other, 3 fetches at a time per component | rows add up; no interval is left; a refresh answers what is shown |
| `feed_drifts` | violation | positions under the heading "live data" that no keeper has reported |

*Mistakes.*  Operators whose comment starts with "Mistake" are no part of the model:
each is a definition of the model changed the way a plausible bug would change the
code (a retry not counted, a list not copied, a rounding in the other direction),
and `PROJECT.json` names the property that TLC then finds violated.

*Bounds.*  Amounts are -1..2 and balances at most 2 per account.  Small numbers make
both divisions inexact, which round ones would hide: a price of 3 units for 2 shares
occurs with a profit of 1.  Two keepers suffice for every interference through the
global `active_liq`, two depositors for every transfer of value between depositors,
and time needs only "before" and "after" each timeout (`MaxTime` 1).  There is one
configuration of the registry; a slash makes the stake differ from what it asks for.
A second slash of the same stake, and an admin who changes `min_stake` or the rate
meanwhile, make the graph too large and are left to the theorem `RegistryBacked`.
`MaxProfit` bounds `total_profit`, which a keeper could otherwise
raise for ever; `U64Max` is 1 so that the saturating counters saturate.  Users and
keepers are symmetric: no definition names one of them.  Deadlock is checked in
every run but `live_log`, where a page that has been left and a keeper without
further events may well stop.

For keepers, one borrower suffices: races need two keepers at one auction, and
two polls (three for one keeper alone) to see what an earlier poll left behind.
The debt is 20 so that the bid, half of it, leaves a profit of 1.  A keeper has 4
units beyond its stake: enough for the tenth it must add to each return; in
`loop_race` it has 1, so that a second return may be refused.  `Worlds`
says what may go wrong and for how many polls, and one world is chosen at the
start.  With all faults, one poll and one restart make two passes through all
calls, with transactions of the first pending in the second.  For the event
stream, a channel holds one event, so that it is full as soon as it is not read;
two clients suffice for a removal to move another client's channel; five events
fill the ring of three, make it move inside its array and leave it for a new one.

For the page's log, the limit of one client makes the page's dead connection hold
the only slot, which is the hard case of a reconnection: one failure of the network
is followed by requests that are refused, so that the backoff grows to its largest
value, and is reset by the connection that opens in the end.  The third request is
one that is sent while the keeper has not yet forgotten two others.  For the vault
page, `Worlds` again says what may go wrong: two transactions interfere through the
form, the panel and the account's sequence number; two wallets through late answers;
and a visitor who has deposited before meets the cooldown.  The vault has a cap of 3
and a cooldown of 1 when the page is opened; in one world the admin lifts both and
sets them again at any time.  A cent is three units, so that
rounding loses something.  For the tables, a keeper that is in the demo and one that
only the API knows, with and without the optional fields, give every source of a
row; two refreshes in flight are enough for one to be late.

*Fairness.*  `LoopFairness`: a keeper takes its next step, since every request has
the timeout of its HTTP client and `AwaitTx` its deadline; and a network that is
not `Faulty` includes what is sent.  Without the latter nothing is assumed of the
network.  `LiveFairness`: goroutines are scheduled, and a `select` that finds
several cases ready over and over takes each of them at some time (Go chooses at
random), which is strong fairness of `Notice`; the browser runs the callbacks and
the timer that are due; and a connection that one end has closed is at last closed
at the other, too.  Nothing is assumed of new events, of writes, which may block for
ever, and of the visitor, who may leave or stay.

*Seen on the way*, and not worth a run of their own.  In the contracts and the
keeper:

* `max_draw_per_keeper` limits one call: two draws within it leave a keeper with
  more (`README.md:83` says "max draw 10k USDC/keeper").
* Neither `initialize` nor `set_config` of the registry asks that `slash_rate_bps` is at
  most 10000 (`keeper-registry/src/lib.rs:16-31`, `328-333`).  With a higher rate a
  slash takes more than the stake, out of the other keepers' stakes, and leaves a
  negative one.
* `slash` clears the flag that `deregister` looks at, so a slashed keeper can leave
  with its draw open at the vault, and its return then fails until it registers
  again.
* `keeper/vault/client.go:52` says that the registry skips the response time 0 of a
  keeper that lost a race; `record_execution` counts it, as a successful execution
  with a response of 0 ms.
* A keeper that lost the race before it sent its fill returns the capital with a
  tenth on top (`keeper/main.go:353`), although the comment at line 341 says that it
  won't profit: it pays a profit that no auction made.
* A draw that is retried after a lost answer may be made twice; one bid is returned
  for both, the vault closes the draw with it, and the rest leaves its books.
* The number of stream clients is read and only later added to (`keeper/main.go:420`
  and `434`), so that more than `maxSSEClients` may get in together.

In the frontend:

* `handleDeregisterKeeper` does not look at `success`; a failed deregistration is
  shown as done until the next read.
* An exception of the wallet picker after a confirmed transaction is shown as
  "Transaction Failed" (`VaultApp.tsx:211`, `217`).
* A transaction that is lost is polled for without end (`stellar.ts:246`).
* Switching tabs during a transaction resets the form; the confirmation that follows
  names the operation of the new tab and no amount.  Disconnecting during one brings
  the wallet picker, and perhaps the wallet, back when it is confirmed.
* MAX rounds to two digits, possibly up, and then asks for more shares than there are.
  The states "simulating" and "submitted" are set and replaced before they are
  rendered, and the form's summary states a share price of 1.0099.
* The countdown compares the ledger's timestamps with the browser's clock: one that is
  behind makes the page refuse withdrawals whose cooldown is over.
* The checks before a transaction are "against on-chain config" (`VaultApp.tsx:174`) as
  it was when the page was opened, or after its own last success (lines 78 and 209).  A
  limit that the admin has lifted since is still enforced, and as long as the page
  refuses it does not look again.
* The performance page says LIVE over the demo's numbers from its opening to the first
  poll if the API knows no depositors, and shows the demo's second keeper under LIVE
  in any case.  Its effect of the registry's answers is run again by each of them, so
  that the registry is read without pause while data are live.
* Answers to overlapping refreshes are applied as they come: older data may stay.
* Events that arrive together make one line of the log: the others are skipped.  A
  "reconnecting" note counts as a live line, and ends the static ones.

*The property `IdleVaultPays`* is stated for one depositor redeeming all its
shares; since its redemption never lowers the price for the others
(`SharePriceNeverFalls`) and leaves the vault idle, it applies to the next one.

## 4. The proofs

| Module | Theorems | Of |
|---|---|---|
| `NectarVault_proofs` | `TypeCorrectness`, `SharesBacked`, `SharesWorth`, `Conservation`, `ActiveLiqBounded`, `Solvency`, `DrawsAgree`, `RegistryBacked`, `ProfitBacked`, `RosterAgrees`, `PriceMonotone`, `Refinement` | the contracts |
| `VaultMath_proofs` | `DepositFair`, `WithdrawFair`, `TotalChange` | the arithmetic they rest on |
| `KeeperLoop_proofs` | `LoopTypeCorrect`, `FillsAreFunded`, `NoPhantomFills`, `OwingIsExplained`, `KeepersKeepBooks` | the keepers in front of the contracts |
| `EventStream_proofs` | `StreamTypeCorrect`, `NobodySkipped`, `RosterIsExact`, `SnapshotsStand` | the ring of events and its clients |
| `LiveLog_proofs` | `LiveTypeCorrect`, `NeverTwoNeverNone`, `ReconnectsSkipNothing`, `WaitsDouble`, `LogIsInOrder` | the reconnecting page |
| `VaultPage_proofs` | `PageTypeCorrect`, `OneSubmitAtATime`, `PanelIsBusy`, `TheCardIsTrue`, `RefusalsAreFair`, `PollingEnds`, `ContractsStandBehindThePage` | the vault page in front of the contracts |
| `Site_proofs` | `SiteTypes`, `OnlyWhatIsShownIsSet`, `NoIntervalLeaks`, `EveryRowAddsUp` | the tables |
| `Display_proofs` | `DurationReadsBack`, `RateIsFraction`, `CentsAreNear` | what is shown of numbers |

All hold for all constants that satisfy the assumptions of the modules they are
about; for the contracts also `FiniteKeepers` and `FiniteUsers`.  With them, every
invariant and action property that a passing run checks is a theorem; `StakesBacked`
under the hypothesis `RatesWithinStake`.  Each proof
module has an inductive invariant in named parts, one lemma per action or group of
actions, and short temporal proofs at its end.

*The contracts.*  `IInv` is the conjunction of the invariants, without
`IdleVaultPays` and `RosterCoherent`, and of `Uninitialized`: a vault or registry
that has not been initialized has empty books.  `Uninitialized` is what makes
`initialize`, which writes zeros, harmless; `ShareWorthAtLeastOne` is what makes the
type of `total_usdc` and of a depositor's shares inductive, since it refuses the
negative withdrawal; `ActiveLiqIsOut` and `CashConserved` give `IdleVaultPays`.  The
lemmas of `Draw` and `ReturnProceeds` are about any integer, not about the instance's
`Amounts`, because keepers and the page compute what they send.  `RegistryBacked`
covers an admin that chooses among any configurations at any time, as long as none of
them has a slash rate above 10000; without that hypothesis it is false, a slash being
able to take more than the stake, and all other theorems hold without it.

`RosterInv` adds that a registry without configuration has no keepers: `register`
appends a keeper that has no entry, hence is not in the list, and `deregister` keeps
the other elements in order.  The loop of `deregister` is `Without`, which says at
which place each kept element ends up by counting those kept before it: an
explicit definition, where the filter of the library is a recursive one.

*The arithmetic.*  `VaultMath_proofs` shows that both conversions are fair and how a
sum changes when one entry does.  `Total` is defined by cardinality instead of
recursion for this reason: the effect of an update follows from the theorems about
finite sets.  Induction over naturals is used in the form of sets: a non-empty set
of naturals has a least element (`LeastElement`), and one that is bounded a greatest.

*The keepers.*  `FillsAreFunded` rests on sequence numbers: whatever is pending of
an account has its next sequence number (`PendingOK`), so the transaction that is
included first makes all others of the account void.  Hence a keeper that learnt
that its draw succeeded has nothing left in the network that could close it
(`DrawnForFill`), and all it sends until it is done with the fill are fills.
`NoPhantomFills` counts the result that is known and not yet looked at (`Counted`).
`OwingIsExplained` needs a second invariant for a network without faults
(`CalmInv`): all the network holds of a keeper is the transaction that the keeper
waits for, with a sequence number that is not stale; a fill that failed is a lost
race; and capital that is out is either between its draw and its return, or has one
of the two reasons of the property (`Explained`).

*The stream.*  `SnapshotIntact` is not inductive: one has to know that a slice in a
reader's hands that shares the ring's array ends no later than the ring does, and
that `append` writes behind the ring's end only, or to a new array (`SliceInv`).
`StreamInv` says of a subscribed request that what it was sent, with what it missed,
are exactly the events since it joined up to the latest one that the broadcast in
progress has brought to it (`Latest`); the targets of a broadcast are told apart from
the list of subscribers that changes meanwhile.

*The page's log.*  `OneConnection` needs that nothing has been issued before the
page is mounted and that a backoff is at least 1, so that a timer that is armed is
told from none; the keeper's state has no part in it.  `WaitInv` follows the backoff
through an error, the timer and the next attempt, with `PowersOfTwo` for the
exponents.  `LogInOrder` is a chain along which every event moves: the lines shown,
the wire, the channel of the current connection (`FlowInv`), whichever connections
they came over; `ShownInv` is its last link, the line that is set and not yet
rendered.  Both rest on the stream's invariant, kept while requests end and are used
again (`KeeperInv`).

*The vault page.*  `PageInv` has a part for the contracts, the network, the form,
the operator's panel, the queries and the handlers that poll.  In the network an
account has one transaction pending at most, with the account's own sequence number,
so that inclusion makes no other one void.  The form's flag alone does not exclude a
second submission; what does is that no submission but the abandoned ones is in
progress when the form is idle.  The panel stays busy through the query after a
registration, which is why the query must belong to the one open call.
`NoVainRefusal` holds because a deposit only moves the record's time forward, and
the record on the page is an earlier one of the wallet it was read for
(`StaleDepositor`): a countdown that is not over has not begun later on the ledger.
Its premises are what the page cannot know: a configuration that was changed after
it was read, a clock that is behind, and USDC that has left the vault each refute
it.  `ContractsStandBehindThePage` states the
vault's invariants for the page's own amounts.

*The tables.*  Each effect's cleanup clears the interval that its last run set, so
that a render replaces one interval by one, and a page that is left takes all of
its own along.  A row adds up because each of its sources does, and because
executions and fills fall back from one source to the next under the same
conditions.  A refresh in flight that has not been cancelled was made for the keepers
on the screen, because a page that has rendered a keeper's data does not go back to
the demo's.

*What the proofs changed.*  An instance may hide what a theorem needs to state:

* The text of an error may outlive the state that shows it; what the card says is
  the two together (`CardTellsTheTruth`).
* A keeper that cannot pay the tenth on top of its draw has its return refused and
  stays in debt although nothing else went wrong; keepers in the runs were too rich.
  `OnlyLosersOwe` names this case, and the keepers of `loop_race` meet it.
* A visitor that has been here before must have had what it deposited and staked
  (`PastAssumption`), and real positions drift within bounds only if the factors that
  a keeper reports are naturals (`SiteAssumption`).

*Assumptions worth knowing.*  `Routes` never debit the two contracts; the code
relies on the token's authorization for it.  `slash_rate_bps` is any natural number,
as the `u32` of the code; only `RegistryBacked` has a hypothesis about it.  The part
of a position that is auctioned is not negative (`LoopAssumption`); keepers always
ask for 50 (`keeper/main.go:268`).

*Only model-checked.*  Liveness (`CyclesEnd`, `CapitalReturns`, `BroadcastEnds`,
`HangUpReleases`, `ComesBack`) is out of the prover's reach, and so is whether an
action is enabled, hence the absence of deadlock.  The four properties that the
program does not have are refuted by runs.

## 5. What is left

1. *The page in front of the abstract pool*: that `VaultPage` and `KeeperLoop`
   implement `SharePool`, and that no step of theirs lowers the price of a share, as
   `NectarVault` alone does.
2. *Relations between theorems*: that between two polls of a faultless network the sum
   of what keepers owe is at most what lost races and refused returns leave behind.
3. *Larger instances* of the vault page with three transactions.

*Not modelled.*

* `/api/performance` encodes a map whose entries the loop changes meanwhile: a data
  race whose outcome is a response with counters of different moments.  `/metrics`
  prints counters.
* Auction phases, profitability and health factors (`keeper/blend`): floating-point
  arithmetic over prices, which `KeeperLoop` replaces by every possible result.
* `admin_set_reserve` of the lab, which changes prices only, and the token's `mint`,
  `approve` and `transfer_from`, which no contract calls.
* The performance page's tables of depositors and of liquidations, which are printed
  as they come, the static pages, deployment scripts, configuration and logging,
  which keep no state; and the encoding of XDR values, a matter of test vectors.
