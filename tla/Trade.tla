------------------------------ MODULE Trade ------------------------------
(***************************************************************************)
(* pallet_trade (pallets/trade/src/lib.rs): trade pairs, limit and market  *)
(* orders, the matching of an order with the price list of its pair, and   *)
(* cancellation.  Composed of Tokens, which keeps the balances, PriceList, *)
(* which keeps the levels, and MarketData, which keeps the statistics.     *)
(*                                                                         *)
(* An extrinsic that places an order runs in steps: one per round of the   *)
(* loops of order_match, and one per order a market order becomes.  `call' *)
(* is the extrinsic in progress and `saved' the storage before it: an      *)
(* error rolls everything back, as dispatchables are transactional.        *)
(***************************************************************************)
EXTENDS PriceList, SequencesExt

CONSTANTS
  Accounts, MaxTokens,                        \* see Tokens
  BlocksPerDay, MaxBlocks,                    \* see MarketData
  OpenedOrdersArrayCap, ClosedOrdersArrayCap, \* T::OpenedOrdersArrayCap, ...
  Supplies, Transfers,   \* the amounts that callers issue and transfer
  LimitOrders,           \* the <<sender, otype, price, amount>> that callers place
  MarketOrders,          \* the <<sender, otype, amount>> that callers place
  Cancellers,            \* the accounts that cancel orders
  EmptyLevels,           \* whether the only order of a level is ever canceled
  MaxOrders              \* bound: no order is placed once there are this many

ASSUME TradeAssumption ==
  /\ OpenedOrdersArrayCap \in Nat \ {0}
  /\ ClosedOrdersArrayCap \in Nat \ {0}
  /\ Accounts # {} /\ IsFiniteSet(Accounts)
  /\ MaxTokens \in Nat
  /\ Supplies \cup Transfers \subseteq 0 .. MaxAmount
  /\ LimitOrders \subseteq Accounts \X OrderTypes \X (0 .. MaxAmount) \X (0 .. MaxAmount)
  /\ MarketOrders \subseteq Accounts \X OrderTypes \X (0 .. MaxAmount)
  /\ EmptyLevels \in BOOLEAN

ASSUME DaysAssumption == BlocksPerDay \in Nat \ {0} /\ MaxBlocks \in Nat

VARIABLES
  tokens, owners, ledger, ownedTokens, tokenNonce,   \* see Tokens
  block, inBlock, stats,                             \* see MarketData
  pairs,        \* TradePairs: pair hash -> [base, quote]
  pairAt,       \* TradePairsHashByBaseQuote: <<base, quote>> -> pair hash
  pairList,     \* TradePairsHashByIndex with TradePairsIndex
  nonce,        \* Nonce
  orders,       \* Orders: order hash -> order
  orderIndex,   \* OwnedOrders and TradePairOwnedOrders, with their indexes
  opened,       \* OwnedTPOpenedOrders: <<account, pair>> -> order hashes
  closed,       \* OwnedTPClosedOrders: <<account, pair>> -> order hashes
  lists,        \* LinkedItemList: pair -> price list
  trades,       \* Trades: trade hash -> trade
  tradeIndex,   \* OrderOwnedTrades, OwnedTrades, OwnedTPTrades, TradePairOwnedTrades
  call,         \* the extrinsic in progress
  saved         \* the storage before it

tokenVars  == <<tokens, owners, ledger, ownedTokens, tokenNonce>>
marketVars == <<block, inBlock, stats>>
pairVars   == <<pairs, pairAt, pairList>>
orderVars  == <<nonce, orders, orderIndex, opened, closed, lists>>
tradeVars  == <<trades, tradeIndex>>
callVars   == <<call, saved>>
vars == <<tokenVars, marketVars, pairVars, orderVars, tradeVars, callVars>>

T == INSTANCE Tokens WITH MaxBalance <- MaxAmount, Amounts <- Supplies \cup Transfers,
                          SelfSettle <- TRUE
M == INSTANCE MarketData WITH Pairs <- Nat, TradePrices <- {}, TradeAmounts <- {},
                              MaxBlockVolume <- 0

(* The hash of a pair, an order or a trade is a hash of the nonce among    *)
(* others, and each takes a nonce of its own: the nonce stands for it.     *)

Sells(o) == IF o.otype = "Buy" THEN o.base ELSE o.quote
Buys(o)  == IF o.otype = "Buy" THEN o.quote ELSE o.base

(* Order::is_finished *)
IsFinished(o) ==
  \/ o.status = "Filled" /\ o.remainedBuy = 0
  \/ o.status = "Canceled"

List(pair) == GetOr(lists, pair, EmptyMap)

-----------------------------------------------------------------------------
(* The vectors of opened and closed orders: the newest first, the oldest   *)
(* dropped when a vector reaches its cap.                                  *)

(* Mutant: it is the newest order that is dropped. *)
AddOrderDropsNewest(map, account, pair, hash, cap) ==
  LET old == GetOr(map, <<account, pair>>, <<>>)
      new == <<hash>> \o old
  IN IF Contains(old, hash) THEN map
     ELSE Put(map, <<account, pair>>, IF Len(new) = cap THEN Tail(new) ELSE new)

AddOrder(map, account, pair, hash, cap) ==
  LET old == GetOr(map, <<account, pair>>, <<>>)
      new == <<hash>> \o old
  IN IF Contains(old, hash) THEN map
     ELSE Put(map, <<account, pair>>, IF Len(new) = cap THEN Front(new) ELSE new)

DropOrder(map, account, pair, hash) ==
  Put(map, <<account, pair>>, Without(GetOr(map, <<account, pair>>, <<>>), hash))

Open(map, account, pair, hash)  == AddOrder(map, account, pair, hash, OpenedOrdersArrayCap)
Close(map, account, pair, hash) == AddOrder(map, account, pair, hash, ClosedOrdersArrayCap)

-----------------------------------------------------------------------------
(* The extrinsic in progress *)

Idle ==
  [phase |-> "idle", pair |-> 0, sender |-> NoPrice, otype |-> "Buy",
   market |-> FALSE, amount |-> 0, order |-> 0, queue |-> <<>>]

NothingSaved == <<>>

(* An extrinsic may start: the runtime executes them one after another,    *)
(* inside a block.                                                         *)
Ready == call.phase = "idle" /\ inBlock
ReadyForOrder == Ready /\ Cardinality(DOMAIN orders) < MaxOrders

Storage ==
  [ledger |-> ledger, nonce |-> nonce, orders |-> orders, orderIndex |-> orderIndex,
   opened |-> opened, closed |-> closed, lists |-> lists, stats |-> stats,
   trades |-> trades, tradeIndex |-> tradeIndex]

(* An Err or a panic: everything the extrinsic wrote is undone. *)
Rollback ==
  /\ ledger' = saved.ledger
  /\ nonce' = saved.nonce
  /\ orders' = saved.orders
  /\ orderIndex' = saved.orderIndex
  /\ opened' = saved.opened
  /\ closed' = saved.closed
  /\ lists' = saved.lists
  /\ stats' = saved.stats
  /\ trades' = saved.trades
  /\ tradeIndex' = saved.tradeIndex
  /\ call' = Idle
  /\ saved' = NothingSaved
  /\ UNCHANGED <<tokens, owners, ownedTokens, tokenNonce, block, inBlock, pairVars>>

(* The loop that is being executed never ends: a round of it has changed   *)
(* nothing that the next round reads.                                      *)
NeverEnds ==
  /\ call' = [call EXCEPT !.phase = "looping"]
  /\ UNCHANGED <<tokenVars, marketVars, pairVars, orderVars, tradeVars, saved>>

-----------------------------------------------------------------------------
(* create_trade_pair *)
CreateTradePair(sender, base, quote) ==
  /\ Ready
  /\ base # quote
  /\ {base, quote} \subseteq DOMAIN owners
  /\ sender \in {owners[base], owners[quote]}
  /\ <<base, quote>> \notin DOMAIN pairAt
  /\ <<quote, base>> \notin DOMAIN pairAt
  /\ pairs' = Put(pairs, nonce, [base |-> base, quote |-> quote])
  /\ pairAt' = Put(pairAt, <<base, quote>>, nonce)
  /\ pairList' = Append(pairList, nonce)
  /\ nonce' = nonce + 1
  /\ M!NewPair(nonce)
  /\ UNCHANGED <<tokenVars, orders, orderIndex, opened, closed, lists, tradeVars, callVars>>

-----------------------------------------------------------------------------
(* do_create_limit_order, up to the call of order_match *)

NewOrder(sender, pair, otype, price, amount) ==
  LET counter == Counterparty(otype, price, amount) IN
  [base |-> pairs[pair].base, quote |-> pairs[pair].quote,
   owner |-> sender, price |-> price,
   sellAmount |-> amount, buyAmount |-> counter,
   remainedSell |-> amount, remainedBuy |-> counter,
   otype |-> otype, status |-> "Created"]

CanPlace(sender, pair, otype, price, amount) ==
  /\ AcceptableTerms(otype, price, amount)
  /\ LET o == NewOrder(sender, pair, otype, price, amount) IN
     T!CanFreeze(ledger, sender, Sells(o), amount)

Place(sender, pair, otype, price, amount, market) ==
  LET o == NewOrder(sender, pair, otype, price, amount) IN
  /\ CanPlace(sender, pair, otype, price, amount)
  /\ orders' = Put(orders, nonce, o)
  /\ ledger' = T!DoFreeze(ledger, sender, Sells(o), amount)
  /\ nonce' = nonce + 1
  /\ opened' = Open(opened, sender, pair, nonce)
  /\ orderIndex' = [owner |-> PushTo(orderIndex.owner, sender, nonce),
                    pair  |-> PushTo(orderIndex.pair, pair, nonce)]
  /\ lists' = Put(lists, pair, Ensure(List(pair), NoPrice))
  /\ call' = [phase |-> "match", pair |-> pair, sender |-> sender, otype |-> otype,
              market |-> market, amount |-> 0, order |-> nonce, queue |-> <<>>]
  /\ UNCHANGED <<tokens, owners, ownedTokens, tokenNonce, marketVars, pairVars,
                 closed, tradeVars>>

(* create_order with OrderOpt::Limit *)
CreateLimitOrder(sender, pair, otype, price, amount) ==
  /\ ReadyForOrder
  /\ Place(sender, pair, otype, price, amount, FALSE)
  /\ saved' = Storage

(* create_order with OrderOpt::Market *)
CreateMarketOrder(sender, pair, otype, amount) ==
  /\ ReadyForOrder
  /\ call' = [Idle EXCEPT !.phase = "market", !.pair = pair, !.sender = sender,
                          !.otype = otype, !.market = TRUE, !.amount = amount]
  /\ saved' = Storage
  /\ UNCHANGED <<tokenVars, marketVars, pairVars, orderVars, tradeVars>>

-----------------------------------------------------------------------------
(* do_create_market_order *)

(* A market order of quote units is a limit order at the best price of the *)
(* other side, of as many base units as the truncated price says.          *)
MarketAmount(otype, price, amount) ==
  IF otype = "Buy" THEN MulWrap(amount, price \div PriceFactor) ELSE amount

PlaceMarketOrder ==
  LET price == Best(List(call.pair), Opposite(call.otype)) IN
  /\ call.phase = "market"
  /\ \/ /\ price # NoPrice
        /\ Place(call.sender, call.pair, call.otype, price,
                 MarketAmount(call.otype, price, call.amount), TRUE)
        /\ UNCHANGED saved
     \/ /\ price # NoPrice
        /\ ~CanPlace(call.sender, call.pair, call.otype, price,
                     MarketAmount(call.otype, price, call.amount))
        /\ Rollback
     \/ /\ price = NoPrice
        /\ lists' = Put(lists, call.pair, Ensure(List(call.pair), NoPrice))
        /\ call' = Idle
        /\ saved' = NothingSaved
        /\ UNCHANGED <<tokenVars, marketVars, pairVars, nonce, orders, orderIndex,
                       opened, closed, tradeVars>>

LastOrderOf(account) == Last(orderIndex.owner[account])

(* After the limit order: what is left of it is taken off the order, and   *)
(* becomes the next market order.                                          *)
SettleMarketOrder ==
  LET hash == LastOrderOf(call.sender)
      o    == orders[hash]
      left == IF call.otype = "Buy" THEN o.remainedBuy ELSE o.remainedSell
  IN /\ call.phase = "settle"
     /\ IF IsFinished(o)
        THEN /\ call' = Idle
             /\ saved' = NothingSaved
             /\ UNCHANGED orders
        ELSE /\ orders' = [orders EXCEPT
                  ![hash] = [@ EXCEPT !.sellAmount = @ - o.remainedSell,
                                      !.buyAmount = @ - o.remainedBuy,
                                      !.remainedSell = 0,
                                      !.remainedBuy = 0,
                                      !.status = "Filled"]]
             /\ call' = [call EXCEPT !.phase = "market", !.amount = left]
             /\ UNCHANGED saved
     /\ UNCHANGED <<tokenVars, marketVars, pairVars, nonce, orderIndex, opened,
                    closed, lists, tradeVars>>

-----------------------------------------------------------------------------
(* order_match *)

Taker == orders[call.order]

(* The price after which an order is said to have seen all levels.  The    *)
(* loop walks the other side, whose end is the other sentinel.             *)
LoopEnd(otype) == IF otype = "Buy" THEN Bottom ELSE Top

(* Mutants: the loop ends after one trade; the price is not compared. *)
NothingToMatchOncePartial(taker, best) ==
  \/ taker.status # "Created"
  \/ best = LoopEnd(taker.otype)
  \/ best # NoPrice /\ ~PriceMatched(taker.price, taker.otype, best)

NothingToMatchAtAnyPrice(taker, best) ==
  taker.status = "Filled" \/ best = LoopEnd(taker.otype)

(* The loop ends: the order is filled, or the best price of the other side *)
(* is not one it accepts.                                                  *)
NothingToMatch(taker, best) ==
  \/ taker.status = "Filled"
  \/ best = LoopEnd(taker.otype)
  \/ best # NoPrice /\ ~PriceMatched(taker.price, taker.otype, best)

AfterPlacing == IF call.market THEN [call EXCEPT !.phase = "settle"] ELSE Idle

(* The rest of do_create_limit_order: an order that is not filled enters   *)
(* the price list.                                                         *)
FinishPlacing ==
  /\ IF Taker.status = "Filled"
     THEN /\ opened' = DropOrder(opened, Taker.owner, call.pair, call.order)
          /\ closed' = Close(closed, Taker.owner, call.pair, call.order)
          /\ UNCHANGED lists
     ELSE /\ lists' = [lists EXCEPT ![call.pair] =
               AppendOrder(@, Taker.price, call.order, Taker.remainedSell,
                           Taker.remainedBuy, Taker.otype)]
          /\ UNCHANGED <<opened, closed>>
  /\ call' = AfterPlacing
  /\ saved' = IF call.market THEN saved ELSE NothingSaved
  /\ UNCHANGED <<tokenVars, marketVars, pairVars, nonce, orders, orderIndex, tradeVars>>

(* The head of the loop: it ends, or the orders at the best price of the   *)
(* other side are taken one after another.  A level without an order leaves*)
(* nothing to do, and is the best price again in the next round.           *)
MatchLevel ==
  LET list == List(call.pair)
      best == Best(list, Opposite(Taker.otype))
      ends == NothingToMatch(Taker, best)
      stuck == /\ Taker.status # "Filled"
               /\ ~AppendEnds(list, Taker.price, Taker.otype)
  IN /\ call.phase = "match"
     /\ \/ ends /\ ~stuck /\ FinishPlacing
        \/ ends /\ stuck /\ NeverEnds
        \/ ~ends /\ best \notin DOMAIN list \ {NoPrice} /\ Rollback
        \/ /\ ~ends /\ best \in DOMAIN list \ {NoPrice}
           /\ list[best].orders = <<>>
           /\ NeverEnds
        \/ /\ ~ends /\ best \in DOMAIN list \ {NoPrice}
           /\ list[best].orders # <<>>
           /\ call' = [call EXCEPT !.phase = "trade", !.queue = list[best].orders]
           /\ UNCHANGED <<tokenVars, marketVars, pairVars, orderVars, tradeVars, saved>>

-----------------------------------------------------------------------------
(* One trade: the body of the loop over the orders of a level *)

(* The calls of pallet_tokens, each on the ledger the one before left. *)
Unfreezing(r, account, token, amount) ==
  [ok |-> r.ok /\ T!CanUnfreeze(r.ledger, account, token, amount),
   ledger |-> T!DoUnfreeze(r.ledger, account, token, amount)]
Transferring(r, from, to, token, amount) ==
  [ok |-> r.ok /\ T!CanTransfer(r.ledger, from, to, token, amount),
   ledger |-> T!DoTransfer(r.ledger, from, to, token, amount)]
Releasing(r, account, token, amount) ==
  IF amount = 0 THEN r ELSE Unfreezing(r, account, token, amount)

Settlement(taker, maker, give, have) ==
  LET sold   == Sells(taker)
      bought == Buys(taker)
      r0 == [ok |-> TRUE, ledger |-> ledger]
      r1 == Unfreezing(r0, taker.owner, sold, give)
      r2 == Unfreezing(r1, maker.owner, bought, have)
      r3 == Transferring(r2, taker.owner, maker.owner, sold, give)
      r4 == Transferring(r3, maker.owner, taker.owner, bought, have)
      r5 == Releasing(r4, taker.owner, sold, Leftover(taker, give, have))
  IN Releasing(r5, maker.owner, bought, Leftover(maker, have, give))

(* The opened and closed vectors of an order, once it is filled. *)
Opened(map, hash, o) ==
  IF o.status = "Filled" THEN DropOrder(map, o.owner, call.pair, hash) ELSE map
Shut(map, hash, o) ==
  IF o.status = "Filled" THEN Close(map, o.owner, call.pair, hash) ELSE map

(* Trade::new *)
NewTrade(taker, maker, ex) ==
  [base |-> pairs[call.pair].base, quote |-> pairs[call.pair].quote,
   buyer  |-> IF taker.otype = "Buy" THEN taker.owner ELSE maker.owner,
   seller |-> IF taker.otype = "Buy" THEN maker.owner ELSE taker.owner,
   maker |-> maker.owner, taker |-> taker.owner,
   otype |-> taker.otype, price |-> maker.price,
   baseAmount |-> ex.base, quoteAmount |-> ex.quote]

(* Mutant: OrderOwnedTrades names the taker twice, and not the maker. *)
IndexTradeOfTaker(taker, maker, makerHash) ==
  LET pair == call.pair IN
  [order     |-> PushTo(PushTo(tradeIndex.order, call.order, nonce), call.order, nonce),
   owner     |-> PushTo(PushTo(tradeIndex.owner, taker.owner, nonce), maker.owner, nonce),
   ownerPair |-> PushTo(PushTo(tradeIndex.ownerPair, <<taker.owner, pair>>, nonce),
                        <<maker.owner, pair>>, nonce),
   pair      |-> PushTo(tradeIndex.pair, pair, nonce)]

(* The four implementations of add_trade, for the taker and for the maker. *)
IndexTrade(taker, maker, makerHash) ==
  LET pair == call.pair IN
  [order     |-> PushTo(PushTo(tradeIndex.order, call.order, nonce), makerHash, nonce),
   owner     |-> PushTo(PushTo(tradeIndex.owner, taker.owner, nonce), maker.owner, nonce),
   ownerPair |-> PushTo(PushTo(tradeIndex.ownerPair, <<taker.owner, pair>>, nonce),
                        <<maker.owner, pair>>, nonce),
   pair      |-> PushTo(tradeIndex.pair, pair, nonce)]

MatchOrder ==
  LET taker == Taker
      hash  == Head(call.queue)
      maker == orders[hash]
      ex    == CalculateExAmount(maker, taker)
      give  == IF taker.otype = "Buy" THEN ex.base ELSE ex.quote
      have  == IF taker.otype = "Buy" THEN ex.quote ELSE ex.base
      paid  == Settlement(taker, maker, give, have)
      taker1 == AfterTrade(taker, give, have)
      maker1 == AfterTrade(maker, have, give)
      orders1 == [orders EXCEPT ![call.order] = taker1, ![hash] = maker1]
      finished == {h \in DOMAIN orders1 : IsFinished(orders1[h])}
      swept == Sweep(ReduceAmount(List(call.pair), maker.price, have, give),
                     Opposite(taker.otype), finished)
      fails == \/ ~paid.ok
               \/ give > taker.remainedSell \/ have > taker.remainedBuy
               \/ have > maker.remainedSell \/ give > maker.remainedBuy
               \/ swept.result = "panics"
  IN /\ call.phase = "trade"
     /\ \/ fails /\ Rollback
        \/ ~fails /\ swept.result = "never ends" /\ NeverEnds
        \/ /\ ~fails /\ swept.result = "ok"
           /\ ledger' = paid.ledger
           /\ orders' = orders1
           /\ opened' = Opened(Opened(opened, call.order, taker1), hash, maker1)
           /\ closed' = Shut(Shut(closed, call.order, taker1), hash, maker1)
           /\ M!SetMarketData(call.pair, maker.price, ex.quote)
           /\ lists' = [lists EXCEPT ![call.pair] = swept.list]
           /\ nonce' = nonce + 1
           /\ trades' = Put(trades, nonce, NewTrade(taker, maker, ex))
           /\ tradeIndex' = IndexTrade(taker, maker, hash)
           /\ call' = IF taker1.status = "Filled" \/ Len(call.queue) = 1
                      THEN [call EXCEPT !.phase = "match", !.queue = <<>>]
                      ELSE [call EXCEPT !.queue = Tail(@)]
           /\ UNCHANGED <<tokens, owners, ownedTokens, tokenNonce, pairVars,
                          orderIndex, saved>>

-----------------------------------------------------------------------------
(* cancel_limit_order *)

CanCancel(sender, hash) ==
  LET o == orders[hash] IN
  /\ o.owner = sender
  /\ ~IsFinished(o)
  /\ CanRemoveOrder(List(pairAt[<<o.base, o.quote>>]), o.price, hash)
  /\ T!CanUnfreeze(ledger, sender, Sells(o), o.remainedSell)

CancelLimitOrder(sender, hash) ==
  /\ Ready
  /\ hash \in DOMAIN orders
  /\ LET o    == orders[hash]
         pair == pairAt[<<o.base, o.quote>>]
     IN /\ CanCancel(sender, hash)
        /\ EmptyLevels \/ Len(ItemAt(List(pair), o.price).orders) > 1
        /\ lists' = Put(lists, pair,
                        RemoveOrder(List(pair), o.price, hash, o.sellAmount, o.buyAmount))
        /\ orders' = [orders EXCEPT ![hash].status = "Canceled"]
        /\ opened' = DropOrder(opened, sender, pair, hash)
        /\ closed' = Close(closed, sender, pair, hash)
        /\ ledger' = T!DoUnfreeze(ledger, sender, Sells(o), o.remainedSell)
  /\ UNCHANGED <<tokens, owners, ownedTokens, tokenNonce, marketVars, pairVars,
                 nonce, orderIndex, tradeVars, callVars>>

-----------------------------------------------------------------------------
Init ==
  /\ T!Init /\ M!Init
  /\ pairs = EmptyMap /\ pairAt = EmptyMap /\ pairList = <<>>
  /\ nonce = 0
  /\ orders = EmptyMap
  /\ orderIndex = [owner |-> EmptyMap, pair |-> EmptyMap]
  /\ opened = EmptyMap /\ closed = EmptyMap
  /\ lists = EmptyMap
  /\ trades = EmptyMap
  /\ tradeIndex = [order |-> EmptyMap, owner |-> EmptyMap,
                   ownerPair |-> EmptyMap, pair |-> EmptyMap]
  /\ call = Idle /\ saved = NothingSaved

(* The extrinsics of pallet_tokens and the hooks, between two extrinsics. *)
Issue(sender, supply) ==
  Ready /\ T!Issue(sender, supply)
  /\ UNCHANGED <<marketVars, pairVars, orderVars, tradeVars, callVars>>
Transfer(from, to, token, amount) ==
  Ready /\ T!Transfer(from, to, token, amount)
  /\ UNCHANGED <<marketVars, pairVars, orderVars, tradeVars, callVars>>
OnInitialize ==
  M!OnInitialize
  /\ UNCHANGED <<tokenVars, pairVars, orderVars, tradeVars, callVars>>
OnFinalize ==    \* bound: the last block stays open
  call.phase = "idle" /\ block < MaxBlocks /\ M!OnFinalize
  /\ UNCHANGED <<tokenVars, pairVars, orderVars, tradeVars, callVars>>

(* The extrinsic in progress goes on. *)
CallStep == PlaceMarketOrder \/ SettleMarketOrder \/ MatchLevel \/ MatchOrder

Next ==
  \/ CallStep
  \/ OnInitialize \/ OnFinalize
  \/ \E a \in Accounts :
       \/ \E n \in Supplies : Issue(a, n)
       \/ \E b \in Accounts, t \in DOMAIN tokens, n \in Transfers : Transfer(a, b, t, n)
       \/ \E base, quote \in DOMAIN owners : CreateTradePair(a, base, quote)
  \/ \E p \in DOMAIN pairs :
       \/ \E o \in LimitOrders : CreateLimitOrder(o[1], p, o[2], o[3], o[4])
       \/ \E o \in MarketOrders : CreateMarketOrder(o[1], p, o[2], o[3])
  \/ \E a \in Cancellers : \E h \in DOMAIN orders : CancelLimitOrder(a, h)

(* The runtime executes an extrinsic it has started to its end; callers and*)
(* the production of blocks promise nothing.                               *)
Fairness == WF_vars(CallStep)

Spec == Init /\ [][Next]_vars /\ Fairness
==========================================================================
