------------------------- MODULE TradeProperties -------------------------
(***************************************************************************)
(* What pallet_trade promises.  An extrinsic is atomic for everybody but   *)
(* itself, so what relates the orders with the price list is stated of the *)
(* states in which no extrinsic is in progress.                            *)
(***************************************************************************)
EXTENDS Trade

Amount == 0 .. MaxAmount
Quiet == call.phase = "idle"

Live == {h \in DOMAIN orders : ~IsFinished(orders[h])}
LiveIn(pair) ==
  {h \in Live : orders[h].base = pairs[pair].base /\ orders[h].quote = pairs[pair].quote}

SumOf(f) == SumFunctionOnSet(f, DOMAIN f)

-----------------------------------------------------------------------------
(* The types of the state of an order book. *)
TypeOK ==
  /\ ledger \in T!Ledgers
  /\ \A h \in DOMAIN orders :
       /\ h < nonce
       /\ orders[h].owner \in Accounts
       /\ orders[h].otype \in OrderTypes
       /\ {orders[h].sellAmount, orders[h].buyAmount,
           orders[h].remainedSell, orders[h].remainedBuy} \subseteq Amount
       /\ orders[h].status \in {"Created", "PartialFilled", "Filled", "Canceled"}
  /\ DOMAIN lists \subseteq DOMAIN pairs
  /\ \A p \in DOMAIN pairs : pairAt[<<pairs[p].base, pairs[p].quote>>] = p
  /\ DOMAIN stats = DOMAIN pairs
  /\ call.phase \in {"idle", "market", "match", "trade", "settle", "looping"}

-----------------------------------------------------------------------------
(* Funds *)

RemainingIn(all, account, token) ==
  LET mine == {h \in DOMAIN all : ~IsFinished(all[h]) /\ all[h].owner = account
                                  /\ Sells(all[h]) = token}
  IN SumOf([h \in mine |-> all[h].remainedSell])
RemainingOf(account, token) == RemainingIn(orders, account, token)

(* do_create_limit_order freezes what an order sells; order_match and      *)
(* do_cancel_limit_order release it piece by piece.  At every moment what  *)
(* an account has frozen is exactly what its unfinished orders still sell: *)
(* no order could fail for want of funds, and none leaves funds frozen.    *)
FrozenIsRemaining ==
  \A h \in T!Holdings : ledger.freezed[h] = RemainingOf(h[1], h[2])

(* The same, for an account that also places market orders: whatever they  *)
(* leave behind, an unfinished order never lacks the funds it sells.       *)
FrozenCoversOrders ==
  \A h \in T!Holdings : ledger.freezed[h] >= RemainingOf(h[1], h[2])

(* order_match pays both sides with do_transfer, which trades no tokens    *)
(* into existence when the two orders have different owners.               *)
SupplyConserved == T!SupplyConserved

(* tokens/lib.rs:168 says of do_transfer that the balance of the sender is *)
(* reduced.                                                                *)
SupplyConservedBySelfTrade == T!SupplyConserved

(* remove_order and do_unfreeze never refuse to cancel an unfinished order:*)
(* whatever became of its level, its owner gets back what it still offers. *)
OrdersCanBeCanceled ==
  Quiet => \A h \in Live : CanCancel(orders[h].owner, h)

-----------------------------------------------------------------------------
(* Orders *)

GivenIn(t, o) == IF o.otype = "Buy" THEN t.baseAmount ELSE t.quoteAmount
TakenIn(t, o) == IF o.otype = "Buy" THEN t.quoteAmount ELSE t.baseAmount
TradesOf(h) == ToSet(GetOr(tradeIndex.order, h, <<>>))

(* Over all trades OrderOwnedTrades records for an order it has bought what*)
(* it no longer asks for, and what it paid for that is never worth more    *)
(* than its own price, at any moment of its life and whatever the roundings*)
(* of calculate_ex_amount.                                                 *)
OrdersFilledAtTheirPrice ==
  \A h \in DOMAIN orders :
    LET o == orders[h]
        given == SumOf([t \in TradesOf(h) |-> GivenIn(trades[t], o)])
        taken == SumOf([t \in TradesOf(h) |-> TakenIn(trades[t], o)])
    IN /\ taken = o.buyAmount - o.remainedBuy
       /\ IF o.otype = "Buy" THEN given * PriceFactor <= taken * o.price
                              ELSE given * o.price <= taken * PriceFactor
       /\ o.status # "Filled" => given = o.sellAmount - o.remainedSell

(* Every trade order_match records moves some of both tokens: none is for  *)
(* nothing, and none takes something for nothing.                          *)
TradesMoveBothTokens ==
  \A t \in DOMAIN trades : trades[t].baseAmount > 0 /\ trades[t].quoteAmount > 0

(* The orders as the last extrinsic left them. *)
Committed == IF Quiet THEN orders ELSE saved.orders

(* An order that an extrinsic left filled or canceled never changes again: *)
(* it cannot be matched, canceled or refunded a second time.               *)
FinishedForGood ==
  [][\A h \in DOMAIN Committed :
       IsFinished(Committed[h]) =>
         h \in DOMAIN orders' /\ orders'[h] = Committed[h]]_vars

(* Once the checks of do_create_limit_order passed, matching never returns *)
(* an error (OrderMatchSubstractError, a token error, ...): no limit order *)
(* is refused because of the orders it meets.                              *)
MatchNeverFails ==
  [][call.phase \in {"match", "trade"} /\ ~call.market => call.order \in DOMAIN orders']_vars

(* Every extrinsic the runtime starts ends: the loops of order_match and   *)
(* of the price list, and the recursion of do_create_market_order.         *)
ExtrinsicsEnd == ~Quiet ~> Quiet

-----------------------------------------------------------------------------
(* The order book *)

Levels(list) == DOMAIN list \ {Bottom, NoPrice, Top}
SideOf(list, otype) ==
  {p \in Levels(list) : \A i \in DOMAIN list[p].orders : orders[list[p].orders[i]].otype = otype}

(* append, remove_item and remove_orders_in_one_item keep the circular     *)
(* list they document: buy levels below the head and sell levels above it, *)
(* both in the order of their prices, linked both ways, none empty.        *)
BookIsLinked ==
  Quiet =>
    \A p \in DOMAIN lists :
      /\ Sorted(lists[p], SideOf(lists[p], "Buy"), SideOf(lists[p], "Sell"))
      /\ \A price \in Levels(lists[p]) : lists[p][price].orders # <<>>

(* linked_price_list.rs:262 says of remove_order: if there is no order left*)
(* in the list of orders, the PriceItem is deleted too.                    *)
EmptiedLevelsRemoved ==
  Quiet => \A p \in DOMAIN lists : \A price \in Levels(lists[p]) : lists[p][price].orders # <<>>

(* An unfinished order is in one level of its pair's list, the one of its  *)
(* price, behind all the orders placed there before; nothing else is in the*)
(* list.                                                                   *)
BookHoldsLiveOrders ==
  Quiet =>
    \A p \in DOMAIN pairs :
      /\ \A h \in LiveIn(p) :
           orders[h].price \in DOMAIN List(p) /\ Contains(List(p)[orders[h].price].orders, h)
      /\ \A price \in DOMAIN List(p) :
           LET queue == List(p)[price].orders IN
           /\ \A i \in DOMAIN queue : queue[i] \in LiveIn(p) /\ orders[queue[i]].price = price
           /\ \A i \in 1 .. (Len(queue) - 1) : queue[i] < queue[i + 1]

(* order_match leaves no two unfinished orders of a pair that would trade: *)
(* the best buy price is below the best sell price.                        *)
Uncrossed ==
  Quiet =>
    \A p \in DOMAIN pairs : \A b, s \in LiveIn(p) :
      orders[b].otype = "Buy" /\ orders[s].otype = "Sell" =>
        orders[b].price < orders[s].price

(* a is served before b, on the same side of the book. *)
Before(a, b) ==
  LET better == IF orders[a].otype = "Buy" THEN orders[a].price > orders[b].price
                ELSE orders[a].price < orders[b].price
  IN better \/ (orders[a].price = orders[b].price /\ a < b)

(* order_match trades with the best price first and, at a price, with the  *)
(* oldest order first: when an order trades, no unfinished order of its    *)
(* side comes before it.                                                   *)
PriceTimePriority ==
  [][DOMAIN trades' \ DOMAIN trades # {} =>
       LET maker == Head(call.queue) IN
       \A h \in LiveIn(call.pair) \ {maker, call.order} :
         orders[h].otype = orders[maker].otype => Before(maker, h)]_vars

CanceledIn(pair) ==
  {orders[h].price : h \in {x \in DOMAIN orders :
     /\ orders[x].status = "Canceled"
     /\ orders[x].base = pairs[pair].base /\ orders[x].quote = pairs[pair].quote}}

(* What the orders of a level still ask for. *)
AskedAt(item) == SumOf([h \in ToSet(item.orders) |-> orders[h].remainedBuy])

(* buy_amount of a level is what its orders still ask for: append and      *)
(* update_reduce_amount count every order once.  (Not so at a price where  *)
(* an order was canceled: do_cancel_limit_order subtracts all that the     *)
(* order asked for at first.)                                              *)
LevelBuyTotals ==
  Quiet =>
    \A p \in DOMAIN lists : \A price \in Levels(lists[p]) \ CanceledIn(p) :
      lists[p][price].buyAmount = AskedAt(lists[p][price])

-----------------------------------------------------------------------------
(* Indexes and market data *)

NewestFirst(queue) == \A i \in 1 .. (Len(queue) - 1) : queue[i] > queue[i + 1]
OldestFirst(queue) == \A i \in 1 .. (Len(queue) - 1) : queue[i] < queue[i + 1]

(* trade/lib.rs:390 says: when an order is completed or canceled it is     *)
(* removed from the opened orders and added to the closed ones.            *)
OpenedAreLive ==
  Quiet => \A k \in DOMAIN opened : ToSet(opened[k]) \subseteq Live

PlacedIn(account, pair) ==
  {h \in DOMAIN orders : /\ orders[h].owner = account
                         /\ orders[h].base = pairs[pair].base
                         /\ orders[h].quote = pairs[pair].quote}

(* The vector of opened orders holds unfinished orders of an account in a  *)
(* pair, newest first and below its cap.  An unfinished order that is not  *)
(* in it is older than all that are, and was pushed out: so many orders    *)
(* have been placed after it that they reached the cap.  The vector of     *)
(* closed orders holds finished ones, each once, and all of them until     *)
(* there are as many as its cap.                                           *)
OpenedAndClosed ==
  Quiet =>
    \A a \in Accounts, p \in DOMAIN pairs :
      LET open == GetOr(opened, <<a, p>>, <<>>)
          shut == GetOr(closed, <<a, p>>, <<>>)
          placed == PlacedIn(a, p)
          missing == (placed \cap Live) \ ToSet(open)
          finished == placed \ Live
      IN /\ ToSet(open) \subseteq placed \cap Live
         /\ NewestFirst(open) /\ Len(open) < OpenedOrdersArrayCap
         /\ \A h \in missing :
              /\ \A g \in ToSet(open) : h < g
              /\ Cardinality({g \in placed : h < g}) >= OpenedOrdersArrayCap - 1
         /\ ToSet(shut) \subseteq finished
         /\ Cardinality(ToSet(shut)) = Len(shut) /\ Len(shut) < ClosedOrdersArrayCap
         /\ Cardinality(finished) < ClosedOrdersArrayCap => ToSet(shut) = finished

(* The four indexes add_trade keeps name every trade for both its orders'  *)
(* owners, for its pair, oldest first, and, twice, among the trades of     *)
(* orders.                                                                 *)
TradesIndexed ==
  /\ \A a \in Accounts :
       ToSet(GetOr(tradeIndex.owner, a, <<>>)) =
         {n \in DOMAIN trades : a \in {trades[n].buyer, trades[n].seller}}
  /\ \A p \in DOMAIN pairs :
       LET mine == {n \in DOMAIN trades : trades[n].base = pairs[p].base
                                          /\ trades[n].quote = pairs[p].quote}
           queue == GetOr(tradeIndex.pair, p, <<>>)
       IN /\ OldestFirst(queue) /\ ToSet(queue) = mine
          /\ \A a \in Accounts :
               ToSet(GetOr(tradeIndex.ownerPair, <<a, p>>, <<>>)) =
                 {n \in mine : a \in {trades[n].buyer, trades[n].seller}}
  /\ \A n \in DOMAIN trades : Cardinality({h \in DOMAIN orders : n \in TradesOf(h)}) = 2

(* What set_tp_market_data may have written of the prices of a pair: the   *)
(* latest is that of the last trade, no trade lies outside the extremes of *)
(* all buckets, and these are prices of trades.                            *)
PricesOfTrades(p) ==
  LET mine == GetOr(tradeIndex.pair, p, <<>>)
      buckets == stats[p].buckets
      prices == {trades[mine[i]].price : i \in DOMAIN mine}
  IN IF mine = <<>> THEN stats[p].latest = NoPrice /\ DOMAIN buckets = {}
     ELSE /\ stats[p].latest = trades[Last(mine)].price
          /\ \A x \in prices :
               /\ \E b \in DOMAIN buckets : x <= buckets[b].high
               /\ \E b \in DOMAIN buckets : buckets[b].low <= x
          /\ \A b \in DOMAIN buckets : {buckets[b].high, buckets[b].low} \subseteq prices

AmountTraded(p) ==
  LET mine == GetOr(tradeIndex.pair, p, <<>>)
  IN SumOf([i \in DOMAIN mine |-> trades[mine[i]].quoteAmount])

(* set_tp_market_data is called once a trade: the buckets of a pair sum up *)
(* to what its trades exchanged, their highest and lowest prices are those *)
(* of trades, and the latest price is that of the last trade.              *)
MarketDataOfTrades ==
  \A p \in DOMAIN pairs :
    LET buckets == stats[p].buckets
    IN /\ SumOf([b \in DOMAIN buckets |-> buckets[b].volume]) = AmountTraded(p)
       /\ PricesOfTrades(p)

(* on_initialize and on_finalize keep the volume of a pair that is traded  *)
(* between them: it is the sum over the last day, see MarketData.          *)
VolumeIsOfLastDay == M!VolumeIsOfLastDay
==========================================================================
