# A specification of substrate_dex_orderbook

TLA+ modules, TLC configurations and TLAPS proofs for the order book exchange in this
repository: a Substrate chain with two pallets of its own, `pallet_tokens` (fungible
tokens and their balances) and `pallet_trade` (trade pairs, limit and market orders, the
matching engine and market data).

Every definition is translated from the code; `PROJECT.json` names the lines of each one.
A reference like `trade/lib.rs:880` means `src/pallets/trade/src/lib.rs`, line 880;
`list.rs` is `src/pallets/trade/src/linked_price_list.rs`, and `tokens/lib.rs` is
`src/pallets/tokens/src/lib.rs`.

Contents: 1 the system · 2 the modules · 3 how the code became actions · 4 what is checked
· 5 bounds and fairness · 6 what is proved · 7 where code and comments disagree · 8 what is
not modelled · 9 the plan · 10 running it.

## 1 The system

| component | its state | its operations |
|---|---|---|
| `pallet_tokens` | `Tokens`, `Owners`, `BalanceOf`, `FreeBalanceOf`, `FreezedBalanceOf`, `OwnedTokensIndex/Total`, `Nonce` | extrinsics `issue`, `transfer`; for the other pallet `do_issue`, `do_transfer`, `do_freeze`, `do_unfreeze`, `ensure_free_balance` |
| orders and matching | `TradePairs`, `TradePairsHashByBaseQuote`, `Orders`, `OwnedOrders`, `TradePairOwnedOrders`, `OwnedTPOpenedOrders`, `OwnedTPClosedOrders`, `Trades` and four indexes of trades, `Nonce` | extrinsics `create_trade_pair`, `create_order` (limit or market), `cancel_limit_order`; `order_match` |
| price list | `LinkedItemList`: (pair, `Option<Price>`) -> `PriceItem` | `append`, `remove_order`, `remove_item`, `update_reduce_amount`, `remove_order_match_price`, `remove_orders_in_one_item` |
| order arithmetic | none (pure) | `ensure_bounds`, `ensure_counterparty_amount_bounds`, `calculate_ex_amount`, `price_matched`, `is_finished` |
| market data | fields of `TradePairs`, `TPTradeDataBucket`, `TPTradePriceBucket` | `set_tp_market_data`, hooks `on_initialize`, `on_finalize` |
| runtime | the composition of the pallets | block execution, the pallets' constants |
| node | none of its own | the Substrate node template: service, CLI, RPC |

**How they interact.** A user's extrinsic reaches a pallet through the runtime; the runtime
executes extrinsics one after another, between `on_initialize` and `on_finalize` of the
block. `pallet_trade` calls `pallet_tokens` directly (its `Config` requires it): it freezes
what an order sells when the order is placed, and when two orders trade it releases the
traded part on both sides, transfers it to the other side, and releases what a filled order
no longer needs. It calls the price list through the alias `OrderLinkedItemList`, and the
price list reads `Orders` back through a type parameter (`remove_orders_in_one_item` asks
each order whether it is finished). Storage is the only shared state; there are no
callbacks, no off-chain workers and no messages.

**What is hard.** There is no concurrency inside a block, so the hazards are those of one
long operation on linked data:

- `order_match` is a loop in a loop over a copy of the queue of a level, while each trade
  changes the list that the outer loop reads next. It ends only if every trade gets ahead.
- One trade makes four to six calls of `pallet_tokens`, each with checks of its own, and
  then four checked subtractions, and any of them may fail after orders have been written.
  The rollback of the extrinsic is all that keeps such a failure from doing damage, and a
  limit order that fails for the orders it meets could never be placed.
- Funds are frozen per account and token, not per order. That each order finds its own
  part is a matter of all orders of an account, over all pairs, being accounted for.
- The amounts are rounded twice, once against the buyer and once against the seller, with a
  correction of one unit; the last unit of an order is where this can go wrong.
- The list is kept by the price of the neighbours, without pointers that could be checked:
  a level that is linked wrongly is simply not found.
- A market order is a sequence of limit orders made by recursion, whose rest is settled
  after the fact.
- Volume and price windows are kept incrementally by two hooks and by trades in between.
- The release profile of the workspace does not check for overflow: additions of u128 wrap.

`PROJECT.json` lists 28 hazards with their lines and with the properties aimed at each.

**What makes each component correct.** Tokens: no tokens are made or lost, none are spent
while frozen, the three balances agree. Order arithmetic: a trade fills one order, never
overdraws one, leaves each enough to pay for the rest it asks for, and stays near the maker's price. Price list: sorted, linked both ways, no
empty level. Orders: the frozen funds are what the orders still sell; each order is in the
book exactly while it is unfinished; it is filled at its price or a better one; best price
first and oldest first; the book is never crossed; finished is for good, and what is not
finished can be canceled. Indexes and market
data: they say of the trades what happened.

## 2 The modules

| module | models |
|---|---|
| `StorageMaps` | `StorageMap`/`StorageDoubleMap` of frame_support, as the pallets use them (external) |
| `Tokens` | `pallet_tokens`, with its properties |
| `SumProofs` | induction over finite sets and over numbers, recursive functions and sums: the facts the theorems about loops and supplies rest on |
| `TokensProofs` | the theorems about `Tokens` |
| `OrderMath` | the arithmetic of an order and of one exchange, as operators |
| `Exchange` | chains of exchanges between orders, apart from the rest of the system: where the arithmetic is checked over many prices and amounts |
| `ExchangeProofs` | the theorems about `Exchange` |
| `PriceList` | the linked list of one pair: every function takes a list and returns the list it leaves in storage |
| `PriceListProofs` | theorems about every function that writes the list, with the loops |
| `MarketData` | the buckets, the rolling data of pairs and the two hooks, with their properties |
| `MarketDataProofs` | the theorems about `MarketData` |
| `Trade` | `pallet_trade`: it EXTENDS `PriceList` (which extends `OrderMath`), and composes `Tokens` and `MarketData` by INSTANCE over its own variables |
| `TradeProperties` | what `Trade` promises |
| `TradeProofs` | the theorems about `Trade`: its book, its finished orders, the order of its trades, and what it records: volumes, indexes and vectors |
| `FundsProofs` | the theorems about `Trade` with `Tokens` and with the arithmetic of exchanges: frozen funds, supplies, cancellations, the prices orders trade at, that matching does not fail, and that `Trade` implements `OrderBook` |
| `OrderBook` | an abstract specification: what the exchange promises, said with a set of orders and what accounts own. It models no code, so `PROJECT.json` maps it to none |
| `OrderBookProofs` | a theorem about `OrderBook` |
| `TradeRefinement` | the mapping by which `Trade` implements `OrderBook` |
| `MCTokens`, `MCExchange`, `MCMarketData`, `MCTrade` | instances for TLC |

Some definitions are preceded by a variant marked "Mutant": the same definition with a
plausible mistake. `PROJECT.json` pairs each property of each passing run with such a
mistake that it finds.

## 3 How the code became actions

**Storage.** A storage map is a function whose domain is the set of keys written so far; an
index map with a counter is a sequence. The variable names follow the code; the comments
at VARIABLES name the storage items. The three balance maps of `pallet_tokens` are one
record `ledger`, because `pallet_trade` makes several calls on it in one step; `held` is
the set of keys of `FreeBalanceOf`, which the checks look for.

**Hashes.** The hash of a token, pair, order or trade mixes in the pallet's nonce, and every
new one takes a nonce of its own. The models use the nonce. In `Trade` the nonces of pairs,
orders and trades come from one counter as in the code, so a larger order hash is a newer
order. In `Tokens` the bound on tokens bounds the nonce.

**Checks.** A call that returns an error writes nothing (dispatchables are transactional),
so a check made before the first write is a guard. For the helpers of `pallet_tokens`,
`CanX` is the conjunction of the checks of `do_x` and `DoX` the ledger it writes. Where a
check follows a write, inside `order_match`, its failure is an action of its own that
restores the storage the extrinsic started from (`Rollback`, with `saved`): this covers the
errors of the token calls, the `checked_sub`s, a level that is missing (`unwrap` on it is a
panic), and a market order whose next round is refused.

**Steps.** `CreateTradePair`, `CancelLimitOrder`, `Issue` and `Transfer` are one action
each. An order is placed in several, so that TLC sees what a loop does and whether it ends:

- `CreateLimitOrder` is `do_create_limit_order` up to the call of `order_match`: all checks,
  the funds frozen, the order written, the opened vector, the indexes, and the sentinels of
  the list when the pair has none.
- `MatchLevel` is the head of the outer loop. It takes the queue of the best level, or ends
  the loop; the rest of `do_create_limit_order` follows in the same action, which appends an
  unfilled order to the list, or moves a filled one to the closed orders.
- `MatchOrder` is one round of the inner loop, with everything it writes: the exchange, the
  payments and releases, both orders, opened and closed vectors, market data, the totals of
  the level, the levels and orders swept out of the list, the trade and its indexes.
- `CreateMarketOrder`, `PlaceMarketOrder` and `SettleMarketOrder` are
  `do_create_market_order`: the request, the limit order that one round of it places at the
  best price (matched by the same two actions), and what happens to the rest of it.

`call` is the extrinsic in progress. Nothing else can start while it is not idle.

**Loops that do not end.** The loops inside the price list are functions of the number of
rounds. When a loop is not at its end after more rounds than there is work for it, the
operator says so and the extrinsic goes to the phase `looping`, where it stays. So
termination is a property that can fail in the model as it can in the code, and in the run
`any_cancel` it does.

**The abstract order book.** `OrderBook` knows what each account owns, the unfinished
orders, the order that is being matched, what market orders left behind of an account's funds
(`stranded`), and the state before the extrinsic. It has no price list, no statuses, vectors or
indexes, and no frozen balances: an account can spend all it owns but what its unfinished
orders sell and what is stranded. An order may be placed if
its owner has not offered those funds in another order; it trades with the best and oldest
order of the other side, one of the two is filled at the price of the older one up to a unit,
and each can pay for its rest; it rests when nobody accepts its price, and not before; no
limit order is undone after it was placed; a market order is a series of such orders that is
kept or undone as a whole. A rest that a market order leaves is given up, and its funds are
stranded; no other step strands any, and none releases them. `TradeRefinement` maps `Trade` to it:

| abstract | in `Trade` |
|---|---|
| `wealth` | `BalanceOf` |
| `book` | `Orders`, those that are not finished; not the linked list |
| what an account offers | the sum over its orders; not `FreezedBalanceOf` |
| `stranded` | `FreezedBalanceOf` less what the unfinished orders of the account sell |
| `taker` | `call.order` from its placement until its extrinsic goes on without it |
| `before` | `saved`, while an extrinsic is in progress |

`MatchOrder` maps to `Trade`, the end of the loop to `Rest`, `SettleMarketOrder` to `Rest` or
`Commit`, `Rollback` to `Undo`, `CreateTradePair`, the hooks and the rounds without a trade to
stuttering. This is a safety refinement: each step of `Trade` is one `OrderBook` allows, which
does not say that `Trade` can take every step `OrderBook` allows. It does not read the list, so
matching through the list trades as the promise says; and as frozen balances enter
only as `stranded`, the one step that leaves funds frozen with no order to sell them is the one
that marks the rest of a market order as filled (`trade/lib.rs:779-786`).

**Reads that write.** `read` of a price that is missing writes the three sentinels of the
list anew (`list.rs:98`). The operators `Ensure` and `ItemAt` keep that.

## 4 What is checked

Passing runs (numbers of distinct states in brackets):

| run | question and answer |
|---|---|
| `tokens` (37057) | Three accounts, two tokens, every order of issue, transfer, freeze, unfreeze and settlement: supply conserved, the three balances consistent, nothing paid with frozen funds, everything owned can be moved. |
| `exchange` (43760) | All prices up to 5/3 and amounts up to 9, each order with its whole history of trades: one order of each trade is filled, none is overdrawn, each has left at least what the rest it asks for costs at its own price, the price is the maker's up to a unit. |
| `market_data` (160495) | Six blocks with a day of three; the pair may be created in any of them: the volume is that of the last day at every moment, and no price older than a day is reported. |
| `limit` (163325) | The core run: a buyer and a seller, three limit orders at four prices with amounts up to six, most of which leave fractions, with cancellations and refusals for want of funds. Frozen funds are what orders still sell; the book is linked, complete, in price-time order and uncrossed; no order pays more than its price over its whole life, every trade moves both tokens; matching never fails and always ends. Every step is one the abstract order book allows. |
| `market` (62253) | Market orders that walk two levels, end in the middle of an order, or are refused half way and rolled back, or find an empty side: no order lacks its funds or gets a worse price, every unfinished order can be canceled whatever market orders left behind in its level, every extrinsic ends, each market order is kept or undone as a whole, and what is frozen with no order to sell it is exactly what market orders left over (`OrderBook`, `stranded`). The code never releases it, and no run says it does. |
| `two_pairs` (194527) | Two pairs with a token in common, one account on both sides (meeting its own orders), vectors at their caps: funds, vectors, indexes and market data of the pairs are not mixed up, and the opened vector drops its oldest order when a new one does not fit. |
| `genesis` (6386) | From the empty chain, over three blocks with both hooks: the seeded states of the other runs are of the kind that the program reaches, the composed market data is right, and the order book is implemented from its initial state on. |
| `any_cancel` (225918) | Any order may be canceled, which can damage the list (section 7); products of `calculate_ex_amount` exceed the width and wrap; a buyer can afford the largest price, at which matching loops at the sentinel. In all of this no tokens are made, frozen funds are what orders still sell, finished orders stay finished, and every unfinished order can be canceled. |

Violation runs show a disagreement between the code and what its comments say: see section 7.

The properties that carry most weight, in `TradeProperties`:

- `FrozenIsRemaining` relates `FreezedBalanceOf` to the sum of the remaining amounts of all
  unfinished orders of the account that sell the token, in every state, also in the middle
  of an extrinsic and after a rollback.
- `OrdersFilledAtTheirPrice` relates an order to the trades recorded for it: at every moment
  of its life what it has given is worth no more than what it has had, at its own price.
- `ImplementsOrderBook` is the refinement of section 3.
- `OrdersCanBeCanceled`: between extrinsics neither `remove_order` nor `do_unfreeze` would
  refuse the owner of an unfinished order, whatever became of the level of the order.
- `MatchNeverFails`: no step of matching takes the order being placed away, that is, once
  the checks have passed no limit order is undone because of the orders it meets.
- `PriceTimePriority` compares, at each trade, the maker with all unfinished orders of the pair.
- `BookHoldsLiveOrders` and `BookIsLinked` relate the list to the orders, both ways.
- `OpenedAndClosed`: an unfinished order that the opened vector of its owner lacks is older than
  all orders in it, and enough newer ones were placed to push it out.
- `FinishedForGood` compares with the orders as the last extrinsic left them, so that a
  rollback does not count as a change.
- `ExtrinsicsEnd` is the termination of the loops and of the recursion.

## 5 Bounds and fairness

**Bounds**, all CONSTANTS or in the MC modules:

- `MaxAmount` (the largest u128) is 1000 in most runs, 20 in `genesis`, 10000 in
  `exchange`: above every product in the run, so that no value wraps. In `tokens` it is 4,
  above the supplies of 2. What the helpers do when a balance wraps is proved (section 6).
- `any_cancel` is at the width: `MaxAmount` 36, which is also the supply and the largest price,
  and `PriceFactor` 6, so that the products of an order of 8 base units wrap while its terms,
  computed in U256 in the code, are accepted.
- `WidthAssumption` in `Exchange`: the orders are such that no product exceeds the width. TLC
  checks it for the instance, and the theorems of section 6 rest on it.
- `MaxOrders` (3 or 5): no further order is placed by a caller once there are that many;
  market orders may go one or two beyond. Three orders are enough for two makers under one
  taker, in one level or in two, for a maker filled in two steps, and for a taker that rests
  and is matched later; four and five orders occur with market orders and cancellations.
- Prices and amounts: with `PriceFactor` 2 a price of 1 is half a base unit and a price of 3
  is 1.5 base units per quote unit, which leaves fractions. `limit` has the widest range in the
  whole system, `exchange` a wider one for the arithmetic alone.
- `MaxBlocks` and `BlocksPerDay`: `market_data` has two full days; the composed runs have
  few blocks because an extrinsic does not see the block number except as a bucket key.
- Vector caps of 3, the number at which the first entry falls out.
- `Supplies` and `Transfers`: most runs start with tokens issued and pairs created (`MCInit`),
  a state that three or more extrinsics reach from the empty chain. `Transfers` is `{0}`
  there, which also keeps a quiet state from being a deadlock; a state with an extrinsic in
  progress has no such step, and for these the deadlock check says something: every
  extrinsic always has a next step.
- `EmptyLevels = FALSE` restricts the callers: they do not cancel the order that is alone in
  its level. The code's handling of that case leaves the list in a state in which
  `BookIsLinked`, `PriceTimePriority`, `Uncrossed`, `MatchNeverFails` and `ExtrinsicsEnd` are
  not to be expected; the runs `empty_level` and `any_cancel` set it to TRUE and are about
  what then goes wrong, and what does not.
- `SelfSettle` in `Tokens`: whether `order_match` settles an order with its own owner. The
  run `tokens` excludes it, since it makes tokens (run `self_trade`).
- `MaxBlockVolume` bounds the trades of a block in `market_data`.

`CHECK_DEADLOCK FALSE` is set where the model may stop: `exchange` when both orders are
filled, `market_data` after its last block, `any_cancel` in the phase `looping`.

**Symmetry** is not used: accounts have roles in the instances, and the liveness runs exclude it.

**Fairness.** `Fairness == WF_vars(CallStep)` in `Trade`: only the extrinsic in progress is
fair. The runtime executes a dispatchable it has started to its end, in one call, on one
thread. Callers, and the production of blocks, promise nothing. In the instances `MCTrade`
writes the same with `Running` in place of ENABLED, which is too costly to evaluate in each
state: weak fairness is that the steps happen again and again or are again and again not
possible, and they are possible exactly in the phases other than `idle` and `looping`; a
phase without a step would be a deadlock, which these runs exclude, as nothing else can happen
there. The phase `looping` is not `Running`: a loop that does not end violates
`ExtrinsicsEnd`, and is not excluded by fairness.

## 6 What is proved

Eight modules hold proofs, checked by TLAPS. The theorems about state machines have the form
`Spec => []P` (or `Spec => [][A]_v`) and follow from an inductive invariant `IInv` of their
module; what they ask of the callers, if anything, is the `ASSUME` of the theorem.

**`TokensProofs`**, for all sets of accounts, all numbers of tokens, all widths of a balance
and all amounts (assumptions `AccountsAssumption`, `BoundsAssumption`):

- `TypesHold`: `Spec => []TypeOK`; no helper leaves a balance below zero or above its width.
- `BalanceIsSplit`: `Spec => []SplitConsistent`; the balance is the sum of the free and the
  frozen part, modulo the width, including wrapped additions and settlements of an account
  with itself, which the run `tokens` does not reach.
- `OwnedIsSpendable`: `Spec => []FundsSpendable`; an account that owns some of a token has the
  storage key that every helper looks for.

`IInv` is the conjunction of the three with `NothingFrozenUnissued`. The last is needed because
`do_issue` writes the balance and the free part of a new token and leaves the frozen part
alone: the split holds afterwards only if nothing was frozen of a token that did not exist,
which holds because `do_freeze` checks that the token exists. What the helpers do is proved of
ledger values (`Good`, `Listed`, `Sound`), one lemma per helper and two about the wrapped
arithmetic, so that the proof of a settlement, a release followed by a transfer, cites both
lemmas.

Two more hold while no order is settled with its own owner (`~SelfSettle`), a case that does
make tokens (run `self_trade`, section 7):

- `SupplyIsConserved`: `Spec => []SupplyConserved`; what the accounts own of a token is its
  supply. The sum over the accounts is handled by `SumChangeOne` of `SumProofs`. A wrapping
  addition cannot lose anything, since no account owns more than the supply (`SumCovers`),
  which fits. `Accounts` is finite, as the keys of a storage map are.
- `PaymentsAreFree`: `Spec => PaidFromFree`; no step pays with frozen tokens. It rests on the
  supply as well: a balance that wraps would look like a payment.

The last section of the module is for `FundsProofs`: of a ledger whose balances make up the
supplies, and are the sums of their two parts without a wrap (`Whole`), each helper leaves
such a ledger, with the one exception of a transfer to oneself.

**`SumProofs`** has no theorem about the system. The induction theorems of the TLAPS library
take an operator as a parameter, which the provers here cannot instantiate; stated for sets
and for functions they can be proved and used: the least number of a set of numbers, induction
over the subsets of a finite set (`SubsetInduction`), that a function defined by recursion
exists and obeys its equation (`RecursionExists`), and from these the fold of the community
modules as a sum (`SumOfChosen`), what it does when one summand changes or is added, and that
it covers each of them.

**`ExchangeProofs`**, for all prices, amounts and price factors for which no product exceeds
the width (`MathAssumption`, `WidthAssumption`), and for every history of trades:

- `NeverOverdrawn`: no trade gives or takes more than either order has left, so the four
  `checked_sub`s of `order_match` do not fail.
- `EachTradeFillsOne`: every trade fills one of the two, so the loops get ahead.
- `AtTheMakersPrice`: amounts are worth the maker's price up to one unit of either token.
- `RestIsOffered`: what an order still offers pays for what it still asks for, at its price.

The last is the invariant that makes the others inductive: the correction by one unit may
only take a unit the order has to spare. The argument goes through the division: `Rounding`
says what converting an amount there and back loses, `NoWrap` and `Unwrapped` that the
wrapped products are the products, `WhichIsFilled` what the two comparisons of
`calculate_ex_amount` decide, `SellerIsFilled` and `BuyerIsFilled` what follows for the two
orders in either case, and `TradeIsSound` puts them together.

**`MarketDataProofs`**, for all lengths of a day, pairs, prices, amounts and widths
(`DayAssumption`): `TypesHold`, and `PricesAreRecent`, that the highest and lowest price
reported are those of one run of the last blocks, at most a day of them. The vectors of prices
hold no block numbers; `IInv` says that they line up with the buckets of the last closed
blocks (`InLine`) and that they are at most a day long, one less while a block is being built:
on_initialize drops an entry, on_finalize adds one, and a trade writes only the bucket of the
current block, which no vector holds yet.

The volume is added to and subtracted from a day apart, both times modulo the width of an amount,
and a sum that wraps once is not the sum any more. So there are two theorems:

- `VolumeFollowsTheDay`: whatever is traded, `one_day_trade_volume` is congruent to the sum of the
  buckets of the last day (`VolumeInItsWidth`). `VolumesKept` is inductive: `AgedVolume` takes out
  exactly the first bucket of the day, `ClosedVolume` adds the one that follows the last, and
  `TradedVolume` only writes the bucket of the open block, which is in no sum yet.
- `VolumeIsTheDays`: `Spec => []VolumeIsOfLastDay`, the sum itself, for as long as a day's
  volume fits (`DayIsBounded`: `BlocksPerDay * MaxBlockVolume <= MaxAmount`). Without
  the condition it is false; the run `market_data` satisfies it.

The last part of the module is about what a trade does to the buckets: `Recorded` says of the
prices and amounts of some trades, and of the price of the last one, what the buckets of a pair show
of them, and `TradeIsRecorded` that `Traded` adds one. `TradeProofs` uses it.

**`OrderBookProofs`**: `NeverCrossed`, that in `OrderBook` no two resting orders accept each
other's prices, for all accounts, tokens, prices and amounts. `IInv` adds that the order being
matched is in the book and inside an extrinsic, and that the snapshot has no crossing either,
which is what makes `Undo` safe; `Trade` keeps it since a trade changes nothing that decides who
trades with whom. As `Trade` implements `OrderBook` in the runs `limit`, `market` and
`genesis`, its orders are uncrossed there; for all constants it is proved of `OrderBook` only.

**`PriceListProofs`** are about operators, for lists of any length. The links first:
`RemovalKeepsLinks` and `RemovalKeepsOrder` for `remove_item`, `NewLevelKeepsLinks` for the
level `append` inserts, `TotalsKeepLinks` for `append` to a level and
`update_reduce_amount`. Then the whole list, with its loops. `Tidy` says that a list is
linked, sorted, has no empty level, and holds each order once and the older one first:

- `AppendAlwaysEnds`: the walk of `append` ends, since each round passes one more level.
- `AppendIsTidy`: it ends where the price belongs; the list stays tidy and holds the order.
- `SweepAfterTrade`: after a trade at the best level the two loops of
  `remove_order_match_price` end, take out the finished order and, if it was alone, its level.
- `RemoveOrderKeepsTidy`: `remove_order` takes the canceled order out of a level that holds
  others. (`retain` is `Without`, a recursive function of the number of entries seen.)

Each of these also says what becomes of `buy_amount`: only the level that is joined or reduced has
another one, also where a level is inserted, taken out or swept (`TotalsWith`, `SameTotals`).

**`TradeProofs`** are about the whole of `pallet_trade`, for any accounts, pairs, prices,
amounts, number of orders and width, including products that wrap. `IInv` is the inductive
invariant, and each of the theorems `InvariantHolds`, `BookStaysLinked`, `BookStaysComplete`,
`BookStaysUncrossed`, `FinishedOrdersStay`, `TradesKeepPriority` and `LoopsComeToAnEnd` has the
form `ASSUME Regular PROVE Spec => ...`. The parts of `IInv`:

- `StorageOK` of the storage: the two maps of pairs are inverse; the orders have their type;
  the list of each pair is `Tidy` and holds unfinished orders of that pair at their own price
  on their own side (`BookOK`); every unfinished order is in it (`Complete`).
- `Complete` excepts the order that is being placed, which reaches the book only when the
  loop of `order_match` ends.
- `Placing`, while an extrinsic is in progress: `StorageOK` also of the snapshot that a
  rollback restores, that the order being placed is the newest one and in no queue, and that
  no order the snapshot holds as finished has been written since.
- `Trading`, inside the inner loop: the copy of the queue that `order_match` goes through is
  the queue the best level has now. That is the point of the loop over a copy: each
  round writes the level, and `SweepAfterTrade` says that what is left of the one is what is
  left of the other. Price-time priority follows from it, and so does that a sweep may stop at the
  first unfinished order.

That the book is not crossed is a part of `Tidy`, all buy levels below all sell levels:
`append` keeps it because the outer loop goes on while the best level accepts the price of the
taker. The loops read the best level, so the proof needs that it is the best of the orders.

`LoopsComeToAnEnd`, `Spec => [](call.phase # "looping")`, is about lists and queues of any length,
of the kind that `Regular` keeps: after the only order of a level was canceled the code does loop
(`any_cancel`). It asks one thing more (`AllBelowTop`): nobody buys at `MaxAmount` either,
or the Top sentinel is a level that never gets empty (section 7). That matching also goes on is left to fairness and so to TLC.

`Regular` is what the theorems ask of the callers, and each part of it excludes something the
code does:

- no market orders: what is left of one is marked filled and stays in the book (section 7);
- `~EmptyLevels`: nobody cancels the only order of its level, which leaves the level behind,
  detached from the list (section 7);
- nobody sells at the largest price `MaxAmount`: such an order joins the queue of the Top
  sentinel, which has that key, and so is on no level.

The runs `limit` and `two_pairs` satisfy `Regular`; TLC has checked `IInv` in all their
states. `any_cancel` and `market` show what is left of these properties without it.

The rest of the module is about what `Trade` records beside the book. None of it is read by the
matching, and each has an invariant of its own, of the storage and of the snapshot that a rollback
restores, proved next to `IInv`:

- `VolumesFollowTheDay` and `VolumesAreOfTheDay`: the two theorems about volumes again, for the
  hooks as they run between the steps of `pallet_trade`. The lemmas of `MarketDataProofs`, taken
  by INSTANCE, say what each step of `stats` does; what is new is that a rollback restores the
  `stats` from before, in the same block. The second has the form
  `Spec /\ []DayFits => []VolumeIsOfLastDay`; `DayFits` says of each state that the buckets of a
  day add up to an amount.
- `IndexesNameTrades`: `Spec => []TradesIndexed`. `Indexed` says of the four maps of vectors what
  each vector holds. A trade is pushed seven times, twice to the same vector where an
  account is on both sides (`VectorsGrow`); that the two orders of a trade differ comes from `IInv`.
- `OrdersMoveWhenFinished`: `Spec => []OpenedAndClosed`, for all caps of the two vectors.
  `VectorsShow` says that the closed vector of an account in a pair `Shows` its finished orders:
  some of them, each once, and all of them until there are as many as the cap. The opened vector
  `ShowsNewest` its unfinished ones: some of them, newest first, and each one it lacks is `PushedOut`,
  older than all that are in it with cap - 1 newer orders placed. That counts orders of any status,
  since the newer ones may be finished by now. `AddNewest` is the step that pushes one out: the
  new order is newer than all, the vector is full, and its last entry is the oldest. An order that is
  full when it is placed is moved twice, by the trade that fills it and again by
  `do_create_limit_order`; `AddShows` and `DropNewest` hold for an order that is there already or
  not any more. `retain` has to keep the order of a
  vector (`WithoutKeepsOrder`, of `PriceListProofs`).
- `BucketsHaveTheirPrices` and `BucketsAddUpTrades`: what `MarketDataOfTrades` says of the buckets of
  a pair, its prices and its total. `DataInv` puts the vector of trades of each pair next to its
  buckets, through `Recorded` of `MarketDataProofs`. The total has to be stated as "if the trades'
  total is an amount, the buckets add up to it": that total only grows, so the condition of the later
  state gives that of the earlier one. Hence the form
  `Spec /\ []TradesFit => []MarketDataOfTrades` of the second; the prices need no condition.
- `LevelsCountOnce`: `Spec /\ []LevelsFit => []LevelBuyTotals`; `buy_amount` of a level is what the
  orders in its queue still ask for, although nothing in the code ever adds them up. `TotalsInv` says
  so of both storages, at prices where no order was canceled. A trade takes what the maker got
  off the total and off the maker, and the maker leaves the queue exactly when it asks for nothing
  more (`ReducedLevel`); the order that is placed adds what is left of it (`JoinedLevel`); the
  other levels keep queue, orders and total (`SameLevel`). `LevelsFit`, that what the orders of a level
  ask for is an amount, is needed since both operations wrap otherwise. A price where an order was
  canceled is excepted for good: `do_cancel_limit_order` takes off what the order asked for at
  first (section 7). TLC has checked `TotalsInv`, `LevelsFit` and `DataInv` in all states of `limit`.

**`FundsProofs`** are about the two pallets together, under `Regular` again. Funds are frozen
by account and token, and an order finds its own only if all orders of the account, over all
pairs, are accounted for. `Offered(orders, k)` is the sum of what the unfinished orders of an
account still sell of a token (`k` is the pair of both); `OfferedWhenPlaced` and
`OfferedWhenWritten` say how it moves with one order, and the three lemmas `...OnLedger` how
the frozen part of a ledger moves with one helper. `TradeIsEven` puts the six calls of a
settlement next to the two orders it writes: as much is released as is no longer offered,
whether an order is filled (what it did not need is released as well) or not. `FInv`, the
inductive invariant, has the invariant of `TokensProofs`, that the owner of an order has the
storage key of what it sells, and that `Offered` is what is frozen *modulo the width of a
balance*, for the storage and for the snapshot a rollback restores. From it:

- `FrozenIsOffered`: the equation modulo the width, with no further condition. The modulus is
  needed: `do_freeze` has no check against overflow that works, and an account that trades with
  itself makes tokens (section 7), and could make more than a balance holds.
- `BookIsTyped`: `Spec => []TypeOK`.

The rest holds as long as nothing wraps, and that is so as long as no order meets one of its
owner: `EInv` says that the ledger is `Whole` and the equation exact. The theorems have the
form `Spec /\ []NoSelfMatch => []P`, for the behaviours in which no account trades with itself:

- `FrozenIsExact` (`FrozenIsRemaining`), `FrozenSuffices` (`FrozenCoversOrders`);
- `TradesConserveSupply` (`SupplyConserved`): trades make and lose no token;
- `UnfinishedCanBeCanceled` (`OrdersCanBeCanceled`): the order is in its level
  (`Complete`, of `TradeProofs`), its owner has the key and enough is frozen.

`OneSidedNeverMeet` shows that such behaviours are not rare: `NoSelfMatch` is an invariant
whenever each account only buys or only sells (`OneSided`), as in the runs `limit` and
`genesis`. It is not implied by `Regular`: in `two_pairs` an account is on both sides.

The last part brings in `ExchangeProofs`, which speaks of two orders by themselves, in any
state that earlier trades may have left them. That the orders which `order_match` brings together
are such orders is `PInv`:

- every order is `Priced`: what is left of it can be paid for at its price (the invariant of
  `Exchange`), its amounts were exact at its price when it was placed, and it asks for
  something until it is finished;
- every order is `Accounted`: the trades that `OrderOwnedTrades` records for it come to what
  it bought, to what it gave unless a rest was released, and to no worse than its price. The
  same holds of the storage a rollback restores;
- the orders in the copy of the queue have a price the taker accepts (`QueuePriced`).

`TradeFits` then reads off `TradeSuits` of `ExchangeProofs` what a round takes, and
`AccountedWhenTraded` adds it to the sums, one trade and two orders at a time; a trade is
recorded under a new nonce, so it is in neither list yet. The theorems ask for `ProductsFit`: the
base amount of every order times the price factor fits a `u128`, as `WidthAssumption` asks in
`Exchange`. Without it `calculate_ex_amount` wraps (section 7).

- `TradesMoveBoth` (`TradesMoveBothTokens`) and `OrdersGetTheirPrice`
  (`OrdersFilledAtTheirPrice`), for all behaviours, also of accounts that trade with themselves;
- `PlacedOrdersAreMatched` (`Spec /\ []NoSelfMatch => MatchNeverFails`): each way in which
  `order_match` could fail is closed by another invariant. `SettlementSucceeds` goes through
  the six token calls: `EInv` says that both orders have frozen what they give, what is
  unfrozen is then free and stays so through the transfer before (`FreeExcept`), and what is
  left over is still frozen at the end. The four `checked_sub`s are `TradeFits`, the level that
  is reduced and swept is there by `TradedStorage`, and the level whose orders are
  read is there since `best_price` only names levels of the list.

TLC has checked `PInv` and `EInv` in all states of `limit`, whose orders satisfy `ProductsFit`
and `NoSelfMatch`.

All of this comes together in the refinement, `TradeImplementsOrderBook`:
`Spec /\ []NoSelfMatch => ImplementsOrderBook`, the mapping being that of section 3. `BookInit`
maps the genesis storage; `RefinesStep` has a case for each action, which names the action of
`OrderBook` it is:

| step of `Trade` | step of `OrderBook` | what the proof needs |
|---|---|---|
| `Issue`, `Transfer` | `Issue`, `Pay` | `FreeInBook`: what an account does not offer is its free balance, by `FrozenIsExact`; `do_transfer` does not wrap (`Whole`) |
| `CreateLimitOrder` | `Place`, or nothing if it is refused | the order offers what is free, and exactly its price; the nonce is new |
| `CancelLimitOrder` | `CancelOrder` | a level is left behind only without `Regular` |
| `MatchLevel`, the loop ends | `Rest` if something is left (`RestInBook`), else `Commit` | `NobodyAccepts`: the best level of a `Tidy` and `Complete` list is the best of all orders of that side |
| `MatchLevel`, the loop goes on | nothing | |
| `MatchOrder` | `Trade` (`TradeInBook`) | the maker is the best and oldest (`BestInBook`, from `Trading`), the amounts are fair (`TradeFits`, `LeftOfOrder`), six token calls come to two payments (`SettlementPays`), the filled leave the book (`BookWhenTraded`), and nothing is rolled back (`MatchOrderTrades`) |
| hooks, `CreateTradePair` | nothing | |

Nothing is stranded in any of these states (`NoneStranded`, from `FrozenIsExact`): what is frozen is what
unfinished orders offer (`AllIsOffered`), so everything else can be spent. The proof
adds one invariant, `PairsListed`: the tokens of a pair are tokens that have been issued. The
result says more than the theorems above together: it excludes any step that only looks
consistent, such as one which moves funds of a third account or drops an order unfilled. `NoSelfMatch`
cannot be left out: an account that meets its own order makes tokens, and that is no step
of `OrderBook`. For market orders the refinement stays with TLC (`market`).

**Only model-checked.** Every invariant that a run checks is stated by a theorem, those of
`Trade` under `Regular` and the conditions named above. What stays with TLC is what is left of
them without it: market orders (run `market`, the refinement included) and the cancellation of the only order of a level (`any_cancel`). The proofs
would need invariants of lists with detached levels or finished orders, not other means. Liveness
(`ExtrinsicsEnd`) stays with TLC in any case; that each loop of the price list ends is a part of
the theorems above.

## 7 Where code and comments disagree

Each has a run that ends in a counterexample, and an entry in `PROJECT.json` with the quoted line.

- `empty_level`: `remove_order` takes an emptied level out of the list and then writes it
  back, detached (`list.rs:266`; the comment at 262 says it is deleted).
- `self_trade`: `do_transfer` with one account on both sides keeps the increased balance;
  `order_match` reaches it when an account meets its own order (`tokens/lib.rs:168,179`).
- `opened_orders`: the limit orders a market order leaves are marked filled, and stay in the
  opened vector and in the book (`trade/lib.rs:390,785`).
- `market_data_high`: a pair created in any block of the chain but the first does not report the
  high of 24 hours. The price vectors grow by a block at a time until the first day of the chain is over, and
  from then on lose an entry for each they get; in the counterexample the pair is created in the
  last block of the first day, and its vectors stay one block long (`trade/lib.rs:62,551,567`).

Four more were met while modelling. The definitions model them; they have no run:

- The check against overflow compares a sum that has wrapped (`tokens/lib.rs:252`, against the
  comment at 249): `NoOverflow` is always true.
- What is released to a maker that is filled stays in the level's `sell_amount`
  (`trade/lib.rs:951`, against `list.rs:34`), and a cancellation subtracts from both totals what
  the order started with (`trade/lib.rs:809`). `LevelBuyTotals` is the part that holds.
- The largest price is accepted (`trade/lib.rs:998`, against the comment at 997). A buy order at
  that price takes the Top sentinel for the best sell level, which has no orders, and
  `order_match` never ends; the run `any_cancel` reaches this.
- `calculate_ex_amount` multiplies in u128 (`trade/lib.rs:1067` has a todo for it): in
  `any_cancel` a buyer may receive an amount that has nothing to do with the price. Funds and
  finished orders are safe all the same; the price is checked and proved where nothing wraps.

Consequences for the other runs: market orders leave funds frozen that no order sells
(`trade/lib.rs:779-786` writes `Filled` and calls no `do_unfreeze`), so `market` checks `FrozenCoversOrders` in
place of `FrozenIsRemaining`, and the refinement in that run says how much it is; it leaves out
`BookHoldsLiveOrders` and `TradesMoveBothTokens`; `OpenedAndClosed` is checked for limit
orders; `LevelBuyTotals` at prices where nothing was canceled.

## 8 What is not modelled

- Hash collisions and randomness; events, error codes and weights, which nothing reads.
- Symbols of tokens, which are carried along and never looked at.
- The frameworks the runtime configures (Aura, GRANDPA, Balances, fees, sudo), and the node:
  service wiring, CLI, RPC, chain specification, benchmarking. They hold no logic of this
  repository.
- `read_bottom` and `read_top`, which nothing calls.
- A block's weight limit: an extrinsic is never cut short.
- Crashes, lost messages and timeouts: the pallets handle none; a block is executed again from
  the same state by the framework.

## 9 The plan

Order of the modules, with what each one is for: `Tokens` and its proofs, `OrderMath` with
`Exchange`, `PriceList`, `MarketData`, `Trade` with its properties, the instances; then the
abstract `OrderBook` and the refinement, the arithmetic at the width, and the proofs about
tokens, exchanges, market data, the abstract order book, the price list, and the book, the
records, the funds and the refinement of `Trade`. These exist. What would come next:

1. The list by itself, driven by `append`, partial fills and removals with more levels than
   the composed runs can afford, against a sorted sequence.
2. Market orders with more makers, after cancellations and across pairs, and a market sell
   order whose best price is the largest one.
3. The refinement for two pairs that share a token, without orders that meet their own
   account (which make tokens, run `self_trade`, and so are no behaviour of `OrderBook`).
4. The refinement with market orders, whose orders stay in the price list after they are marked
   filled: `Complete` and `Regular` would have to speak of levels that hold such orders.

## 10 Running it

    tlc -workers 2 -config MCTradeLimit.cfg MCTrade.tla
    tlapm ExchangeProofs.tla

Each run of `PROJECT.json` names its module and its configuration. The longest takes about two
minutes on two cores.
