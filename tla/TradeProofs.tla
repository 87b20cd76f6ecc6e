---------------------------- MODULE TradeProofs ----------------------------
(***************************************************************************)
(* That the order book pallet_trade keeps is the one its orders make, for  *)
(* every sequence of extrinsics and any number of accounts, pairs, prices  *)
(* and orders.  Three things are asked of the callers, and are named in    *)
(* Regular; without each of them the book is not what it should be.        *)
(***************************************************************************)
EXTENDS TradeProperties, PriceListProofs

(* No market order, which leaves orders in the book that it has filled; no *)
(* cancellation of the only order of a level, which leaves the level; and  *)
(* no seller that asks for the largest price there is, which is that of the*)
(* sentinel at the end of the list.                                        *)
Regular ==
  /\ MarketOrders = {}
  /\ ~EmptyLevels
  /\ \A o \in LimitOrders : o[2] = "Sell" => o[3] # MaxAmount

-----------------------------------------------------------------------------
(* The inductive invariant: what holds of the storage, as the extrinsic in *)
(* progress has written it and as it was before.                           *)

Statuses == {"Created", "PartialFilled", "Filled", "Canceled"}

OrderSet ==
  [base : Nat, quote : Nat, owner : Accounts, price : 1 .. MaxAmount,
   sellAmount : Amount, buyAmount : Amount, remainedSell : Amount, remainedBuy : Amount,
   otype : OrderTypes, status : Statuses]

(* The pair of an order, by the hashes of its tokens. *)
PairIn(at, o) == at[<<o.base, o.quote>>]

(* TradePairs and TradePairsHashByBaseQuote are inverse to each other. *)
PairsOK(ps, at, n) ==
  /\ \A p \in DOMAIN ps :
       /\ p \in Nat /\ p < n
       /\ ps[p].base \in Nat /\ ps[p].quote \in Nat
       /\ <<ps[p].base, ps[p].quote>> \in DOMAIN at
       /\ at[<<ps[p].base, ps[p].quote>>] = p
  /\ \A b, q : <<b, q>> \in DOMAIN at =>
       LET p == at[<<b, q>>] IN p \in DOMAIN ps /\ ps[p].base = b /\ ps[p].quote = q

OrderOK(at, h, o, n) ==
  /\ h \in Nat /\ h < n
  /\ o \in OrderSet
  /\ o.status = "Filled" => o.remainedBuy = 0
  /\ <<o.base, o.quote>> \in DOMAIN at

(* What a level holds are unfinished orders of its price, all of one side. *)
Held(at, pair, list, os, buys) ==
  \A q, h : Queued(list, q, h) =>
    /\ h \in DOMAIN os /\ ~IsFinished(os[h])
    /\ os[h].price = q /\ PairIn(at, os[h]) = pair
    /\ os[h].otype = "Buy" <=> q \in buys

BookOK(at, pair, list, os) ==
  \E buys, sells : Tidy(list, buys, sells) /\ Held(at, pair, list, os, buys)

(* Every unfinished order is in the book, but for those that are excepted. *)
Complete(at, os, ls, but) ==
  \A h \in DOMAIN os : ~IsFinished(os[h]) /\ h \notin but =>
    PairIn(at, os[h]) \in DOMAIN ls /\ Queued(ls[PairIn(at, os[h])], os[h].price, h)

StorageOK(ps, at, os, ls, n, but) ==
  /\ n \in Nat /\ PairsOK(ps, at, n)
  /\ \A h \in DOMAIN os : OrderOK(at, h, os[h], n)
  /\ DOMAIN ls \subseteq DOMAIN ps
  /\ \A p \in DOMAIN ls : BookOK(at, p, ls[p], os)
  /\ Complete(at, os, ls, but)

-----------------------------------------------------------------------------
(* The extrinsic in progress: only the order it places is not in the book. *)
InProgress == call.phase \in {"match", "trade", "looping"}
Taking == IF InProgress THEN {call.order} ELSE {}

Calls ==
  [phase : {"idle", "match", "trade", "looping"}, pair : Nat, sender : Accounts \cup {NoPrice},
   otype : OrderTypes, market : {FALSE}, amount : {0}, order : Nat, queue : Seq(Nat)]

(* It places the newest order, and has changed no finished one. *)
Placing ==
  /\ StorageOK(pairs, pairAt, saved.orders, saved.lists, saved.nonce, {})
  /\ saved.nonce < nonce /\ call.order = saved.nonce
  /\ DOMAIN orders = DOMAIN saved.orders \cup {call.order}
  /\ \A h \in DOMAIN saved.orders :
       IsFinished(saved.orders[h]) => orders[h] = saved.orders[h]
  /\ call.pair \in DOMAIN lists /\ PairIn(pairAt, Taker) = call.pair
  /\ Taker.status # "Canceled"
  /\ Taker.otype = "Sell" => Taker.price # MaxAmount
  /\ \A q : ~Queued(lists[call.pair], q, call.order)
  /\ DOMAIN saved.trades \subseteq DOMAIN trades

(* The orders it trades with are those of the best level of the other side.*)
Trading ==
  LET list == lists[call.pair]
      best == Best(list, Opposite(Taker.otype))
  IN /\ Taker.status # "Filled"
     /\ best \in DOMAIN list /\ list[best].orders = call.queue /\ call.queue # <<>>

TokensOK == tokenNonce \in Nat /\ DOMAIN owners \subseteq Nat

IInv ==
  /\ TokensOK
  /\ call \in Calls
  /\ StorageOK(pairs, pairAt, orders, lists, nonce, Taking)
  /\ InProgress => Placing
  /\ call.phase = "trade" => Trading

-----------------------------------------------------------------------------
(* The orders of a trade *)

LEMMA FinishedMeans ==
  ASSUME NEW at, NEW h, NEW n, NEW o, OrderOK(at, h, o, n)
  PROVE  IsFinished(o) <=> o.status \in {"Filled", "Canceled"}
  BY DEF OrderOK, IsFinished

(* What a trade writes of an order. *)
Reduced(o, sell, buy, status) ==
  [o EXCEPT !.remainedSell = sell, !.remainedBuy = buy, !.status = status]

SameTerms(o, new) ==
  /\ new.base = o.base /\ new.quote = o.quote /\ new.owner = o.owner
  /\ new.price = o.price /\ new.otype = o.otype
  /\ new.sellAmount = o.sellAmount /\ new.buyAmount = o.buyAmount

LEMMA ReducedOrder ==
  ASSUME NEW o \in OrderSet, NEW sell \in Amount, NEW buy \in Amount, NEW status \in Statuses
  PROVE  LET new == Reduced(o, sell, buy, status) IN
         /\ new \in OrderSet /\ SameTerms(o, new)
         /\ new.remainedSell = sell /\ new.remainedBuy = buy /\ new.status = status
  BY DEF OrderSet, Reduced, SameTerms

LEMMA AfterTradeOK ==
  ASSUME NEW at, NEW h, NEW n, NEW o, OrderOK(at, h, o, n), o.status # "Canceled",
         NEW give \in Nat, NEW have \in Nat, give <= o.remainedSell, have <= o.remainedBuy
  PROVE  LET new == AfterTrade(o, give, have) IN
         /\ OrderOK(at, h, new, n) /\ SameTerms(o, new)
         /\ new.status # "Canceled"
         /\ o.remainedBuy = have => new.status = "Filled"
<1> DEFINE filled == o.remainedBuy = have
           sell   == IF filled THEN 0 ELSE o.remainedSell - give
           buy    == o.remainedBuy - have
           status == IF filled THEN "Filled"
                     ELSE IF o.remainedSell = o.sellAmount THEN "PartialFilled" ELSE o.status
           new == AfterTrade(o, give, have)
<1>1. /\ o \in OrderSet /\ o.remainedSell \in Amount /\ o.remainedBuy \in Amount
      /\ o.status \in Statuses
      /\ o.status = "Filled" => o.remainedBuy = 0
  BY DEF OrderOK, OrderSet
<1>2. MaxAmount \in Nat
  BY MathAssumption
<1>3. sell \in Amount /\ buy \in Amount /\ status \in Statuses
  <2>1. /\ 0 \in Amount /\ o.remainedSell - give \in Amount /\ buy \in Amount
    BY <1>1, <1>2 DEF Amount
  <2>2. "Filled" \in Statuses /\ "PartialFilled" \in Statuses
    BY DEF Statuses
  <2> HIDE DEF buy
  <2> QED BY <1>1, <2>1, <2>2
<1>4. new = Reduced(o, sell, buy, status)
  BY <1>1 DEF AfterTrade, Reduced, OrderSet
<1>5. status # "Canceled" /\ (status = "Filled" => buy = 0)
  BY <1>1, <1>2 DEF Amount
<1> HIDE DEF sell, buy, status, new
<1>6. /\ new \in OrderSet /\ SameTerms(o, new)
      /\ new.remainedSell = sell /\ new.remainedBuy = buy /\ new.status = status
  <2>1. LET r == Reduced(o, sell, buy, status) IN
        /\ r \in OrderSet /\ SameTerms(o, r)
        /\ r.remainedSell = sell /\ r.remainedBuy = buy /\ r.status = status
    BY ONLY <1>1, <1>3, ReducedOrder
  <2> QED BY ONLY <1>4, <2>1
<1>7. filled => status = "Filled"
  BY DEF status
<1> QED BY <1>5, <1>6, <1>7 DEF OrderOK, SameTerms, new

(* calculate_ex_amount: the amounts are numbers, and one order gets all it *)
(* still asks for.                                                         *)
LEMMA ExchangeFills ==
  ASSUME NEW maker \in OrderSet, NEW taker \in OrderSet
  PROVE  LET ex == CalculateExAmount(maker, taker)
             give == IF taker.otype = "Buy" THEN ex.base ELSE ex.quote
             have == IF taker.otype = "Buy" THEN ex.quote ELSE ex.base
         IN /\ give \in Nat /\ have \in Nat
            /\ taker.remainedBuy = have \/ maker.remainedBuy = give
<1> DEFINE buyer  == IF taker.otype = "Buy" THEN taker ELSE maker
           seller == IF taker.otype = "Buy" THEN maker ELSE taker
           price == maker.price
           ex == CalculateExAmount(maker, taker)
<1>1. /\ buyer.remainedBuy \in Nat /\ seller.remainedBuy \in Nat
      /\ price \in Nat /\ price > 0 /\ MaxAmount \in Nat /\ PriceFactor \in Nat /\ PriceFactor > 0
  BY MathAssumption DEF OrderSet, Amount
<1>2. \A x \in Nat : ExQuote(x, price) \in Nat /\ ExBase(x, price) \in Nat
  BY <1>1, SMTT(20) DEF ExQuote, ExBase, MulWrap
<1>3. \A x \in Nat : AddWrap(x, 1) \in Nat
  BY <1>1 DEF AddWrap
<1>4. ex = IF SellerFilled(buyer, seller, price)
           THEN FillSeller(buyer, seller, price) ELSE FillBuyer(buyer, seller, price)
  BY DEF CalculateExAmount
<1> HIDE DEF buyer, seller, price, ex
<1>5. CASE ex = FillSeller(buyer, seller, price)
  <2>1. ex.base = seller.remainedBuy /\ ex.quote \in Nat
    BY <1>1, <1>2, <1>3, <1>5 DEF FillSeller
  <2> QED BY <1>1, <2>1 DEF ex, buyer, seller
<1>6. CASE ex = FillBuyer(buyer, seller, price)
  <2>1. ex.quote = buyer.remainedBuy /\ ex.base \in Nat
    BY <1>1, <1>2, <1>3, <1>6 DEF FillBuyer
  <2> QED BY <1>1, <2>1 DEF ex, buyer, seller
<1> QED BY <1>4, <1>5, <1>6

-----------------------------------------------------------------------------
(* The order a trade is made with. *)

LEMMA OppositeType ==
  ASSUME NEW otype \in OrderTypes
  PROVE  Opposite(otype) \in OrderTypes /\ Opposite(otype) # otype
  BY DEF OrderTypes, Opposite

(* A best level with an order is a level of its side. *)
LEMMA BestLevel ==
  ASSUME NEW list, NEW buys, NEW sells, Tidy(list, buys, sells), NEW otype \in OrderTypes,
         list[Best(list, otype)].orders # <<>>
  PROVE  /\ Best(list, otype) \in SideOfBook(buys, sells, otype)
         /\ Best(list, otype) \in buys \cup sells
         /\ Best(list, otype) \in DOMAIN list
         /\ Best(list, otype) \in buys <=> otype = "Buy"
         /\ list[Best(list, otype)].orders \in Seq(Nat)
         /\ Len(list[Best(list, otype)].orders) > 0
         /\ Queued(list, Best(list, otype), list[Best(list, otype)].orders[1])
<1> DEFINE x == Best(list, otype)
<1>1. Keyed(list, buys, sells) /\ Queues(list, buys, sells)
  BY KeysDiffer DEF Tidy
<1>2. x \in SideOfBook(buys, sells, otype) \cup {MatchEnd(otype)} /\ x \in DOMAIN list
  BY BestOfSide
<1>3. MatchEnd(otype) \in {Bottom, NoPrice, Top}
  BY DEF MatchEnd
<1>4. x # MatchEnd(otype)
  BY <1>1, <1>3 DEF Queues
<1>5. x \in SideOfBook(buys, sells, otype)
  BY <1>2, <1>4
<1>6. x \in buys \cup sells /\ (x \in buys <=> otype = "Buy")
  BY <1>1, <1>5 DEF SideOfBook, Keyed
<1> HIDE DEF x
<1>7. list[x].orders \in Seq(Nat) /\ list[x].orders # <<>>
  BY <1>6, ItemTypes
<1>8. Len(list[x].orders) > 0 /\ 1 \in DOMAIN list[x].orders
  BY <1>7
<1> QED BY <1>2, <1>5, <1>6, <1>7, <1>8 DEF x, Queued

(* At most one order of the book is finished. *)
FinishedIs(hash, list, finished) ==
  \A p, h : Queued(list, p, h) /\ h \in finished => h = hash

(* A trade at x is taken off the total of that level, if it is left. *)
TotalsWithout(left, list, x, buy) ==
  \A p \in DOMAIN left :
    /\ p \in DOMAIN list
    /\ left[p].buyAmount = IF p = x THEN SubWrap(list[p].buyAmount, buy) ELSE list[p].buyAmount

(* What a sweep leaves holds those of the orders that are not finished. *)
StillHolds(swept, at, pair, list, os, otype, finished, buy) ==
  LET x == Best(list, otype) IN
  /\ swept.result = "ok"
  /\ \E buys, sells : Tidy(swept.list, buys, sells) /\ Held(at, pair, swept.list, os, buys)
  /\ \A p, h : Queued(swept.list, p, h) <=> Queued(list, p, h) /\ h \notin finished
  /\ list[x].orders[1] \in finished /\ Len(list[x].orders) > 1 =>
       /\ Best(swept.list, otype) = x
       /\ swept.list[x].orders = Tail(list[x].orders)
  /\ TotalsWithout(swept.list, list, x, buy)

(* A trade with the oldest order of the best level of the other side, and  *)
(* the sweep that follows it, leave a book that has the unfinished orders. *)
LEMMA TradedBook ==
  ASSUME NEW at, NEW pair, NEW list, NEW os, NEW buys, NEW sells,
         Tidy(list, buys, sells), Held(at, pair, list, os, buys),
         NEW otype \in OrderTypes, NEW x, x = Best(list, otype), list[x].orders # <<>>,
         NEW hash, hash = list[x].orders[1], NEW price, price = os[hash].price,
         NEW sell \in Int, NEW buy \in Int,
         NEW finished, FinishedIs(hash, list, finished)
  PROVE  StillHolds(Sweep(ReduceAmount(list, price, sell, buy), otype, finished),
                    at, pair, list, os, otype, finished, buy)
<1> DEFINE reduced == ReduceAmount(list, price, sell, buy)
           swept == Sweep(reduced, otype, finished)
<1>1. /\ x \in SideOfBook(buys, sells, otype) /\ x \in buys \cup sells /\ x \in DOMAIN list
      /\ list[x].orders \in Seq(Nat) /\ Queued(list, x, hash)
  BY BestLevel
<1>2. price = x
  BY <1>1 DEF Held
<1>3. /\ Tidy(reduced, buys, sells) /\ DOMAIN reduced = DOMAIN list
      /\ SameQueues(reduced, list) /\ reduced[NoPrice] = list[NoPrice]
      /\ reduced[x].buyAmount = SubWrap(list[x].buyAmount, buy)
      /\ \A p \in DOMAIN list \ {x} : reduced[p] = list[p]
  BY <1>1, <1>2, ReduceKeepsTidy
<1> HIDE DEF reduced
<1>4. /\ x = Best(reduced, otype) /\ reduced[x].orders = list[x].orders
      /\ \A p, h : Queued(reduced, p, h) <=> Queued(list, p, h)
  BY <1>1, <1>3 DEF SameQueues, Queued, Best, HeadItem, ItemAt
<1>5. \A p, h : Queued(reduced, p, h) /\ h \in finished => p = x /\ h = hash
  <2>1. ASSUME NEW p, NEW h, Queued(reduced, p, h), h \in finished
        PROVE  p = x /\ h = hash
    <3>1. Queued(list, p, h) /\ h = hash
      BY <1>4, <2>1 DEF FinishedIs
    <3>2. os[hash].price = p
      BY <3>1 DEF Held
    <3> QED BY <1>2, <3>1, <3>2
  <2> QED BY <2>1
<1>5a. x = Best(reduced, otype) /\ hash = reduced[x].orders[1]
  BY <1>4
<1>6. /\ swept.result = "ok"
      /\ \E gone \in {{}, {x}} : Tidy(swept.list, buys \ gone, sells \ gone)
      /\ \A p, h : Queued(swept.list, p, h) <=> Queued(reduced, p, h) /\ h \notin finished
      /\ hash \in finished /\ Len(reduced[x].orders) > 1 =>
           /\ Best(swept.list, otype) = x
           /\ swept.list[x].orders = Tail(reduced[x].orders)
      /\ SameTotals(swept.list, reduced)
  <2>1. OnlyFinished(reduced, x, hash, finished)
    BY <1>5 DEF OnlyFinished
  <2>2. SweptOf(swept, reduced, buys, sells, otype, finished)
    BY <1>1, <1>3, <1>5a, <2>1, SweepAfterTrade
  <2> QED BY <1>5a, <2>2 DEF SweptOf
<1> HIDE DEF swept
<1>7. PICK gone \in {{}, {x}} : Tidy(swept.list, buys \ gone, sells \ gone)
  BY <1>6
<1>8. Held(at, pair, swept.list, os, buys \ gone)
  <2>1. Keyed(swept.list, buys \ gone, sells \ gone) /\ Keyed(list, buys, sells)
    BY <1>7, KeysDiffer DEF Tidy
  <2>2. ASSUME NEW q, NEW h, Queued(swept.list, q, h)
        PROVE  Queued(list, q, h) /\ q \notin gone
    <3>0. Queued(list, q, h)
      BY <1>4, <1>6, <2>2
    <3>1. q \in DOMAIN swept.list
      BY <2>2 DEF Queued
    <3>2. x \notin {Bottom, NoPrice, Top}
      BY <1>1, <2>1 DEF Keyed
    <3> QED BY <1>1, <2>1, <3>0, <3>1, <3>2 DEF Keyed
  <2> QED BY <2>2 DEF Held
<1>9. TotalsWithout(swept.list, list, x, buy)
  BY <1>3, <1>6 DEF TotalsWithout, SameTotals
<1> QED BY <1>4, <1>6, <1>7, <1>8, <1>9 DEF swept, reduced, StillHolds

-----------------------------------------------------------------------------
(* The storage, when one book of it and the orders of its pair change. *)

SameElsewhere(at, pair, os, new) ==
  /\ DOMAIN os \subseteq DOMAIN new
  /\ \A h \in DOMAIN os :
       /\ PairIn(at, new[h]) = PairIn(at, os[h])
       /\ PairIn(at, os[h]) # pair => new[h] = os[h]
  /\ \A h \in DOMAIN new \ DOMAIN os : PairIn(at, new[h]) = pair

CompleteIn(at, pair, list, os, but) ==
  \A h \in DOMAIN os : ~IsFinished(os[h]) /\ h \notin but /\ PairIn(at, os[h]) = pair =>
    Queued(list, os[h].price, h)

OrdersOK(at, os, n) == \A h \in DOMAIN os : OrderOK(at, h, os[h], n)

(* What is excepted is of that pair. *)
Within(at, pair, os, but) == \A h \in but : h \in DOMAIN os => PairIn(at, os[h]) = pair

LEMMA OtherBook ==
  ASSUME NEW at, NEW pair, NEW os, NEW new, SameElsewhere(at, pair, os, new),
         NEW p, p # pair, NEW list, BookOK(at, p, list, os)
  PROVE  BookOK(at, p, list, new)
<1>1. PICK buys, sells : Tidy(list, buys, sells) /\ Held(at, p, list, os, buys)
  BY DEF BookOK
<1>2. ASSUME NEW q, NEW h, Queued(list, q, h)
      PROVE  /\ h \in DOMAIN new /\ ~IsFinished(new[h])
             /\ new[h].price = q /\ PairIn(at, new[h]) = p
             /\ new[h].otype = "Buy" <=> q \in buys
  <2>1. /\ h \in DOMAIN os /\ ~IsFinished(os[h])
        /\ os[h].price = q /\ PairIn(at, os[h]) = p
        /\ os[h].otype = "Buy" <=> q \in buys
    BY <1>1, <1>2 DEF Held
  <2>2. h \in DOMAIN new /\ new[h] = os[h]
    BY <2>1 DEF SameElsewhere
  <2> QED BY <2>1, <2>2
<1>3. Held(at, p, list, new, buys)
  BY <1>2 DEF Held
<1> QED BY <1>1, <1>3 DEF BookOK

LEMMA BookReplaced ==
  ASSUME NEW ps, NEW at, NEW os, NEW ls, NEW n, NEW but, StorageOK(ps, at, os, ls, n, but),
         NEW pair \in DOMAIN ps, Within(at, pair, os, but),
         NEW new, SameElsewhere(at, pair, os, new),
         NEW n1 \in Nat, n <= n1, OrdersOK(at, new, n1),
         NEW but1, NEW list, BookOK(at, pair, list, new), CompleteIn(at, pair, list, new, but1)
  PROVE  StorageOK(ps, at, new, Put(ls, pair, list), n1, but1)
<1> DEFINE ls1 == Put(ls, pair, list)
<1>1. /\ DOMAIN ls1 = DOMAIN ls \cup {pair} /\ ls1[pair] = list
      /\ \A p \in DOMAIN ls \ {pair} : ls1[p] = ls[p]
  BY DEF Put
<1> HIDE DEF ls1
<1>2. PairsOK(ps, at, n1)
  BY DEF StorageOK, PairsOK
<1>3. DOMAIN ls1 \subseteq DOMAIN ps
  BY <1>1 DEF StorageOK
<1>4. ASSUME NEW p \in DOMAIN ls1
      PROVE  BookOK(at, p, ls1[p], new)
  <2>1. CASE p = pair
    BY <1>1, <2>1
  <2>2. CASE p # pair
    <3>1. BookOK(at, p, ls[p], os) /\ ls1[p] = ls[p]
      BY <1>1, <2>2 DEF StorageOK
    <3> QED BY <2>2, <3>1, OtherBook
  <2> QED BY <2>1, <2>2
<1>5. ASSUME NEW h \in DOMAIN new, ~IsFinished(new[h]), h \notin but1
      PROVE  /\ PairIn(at, new[h]) \in DOMAIN ls1
             /\ Queued(ls1[PairIn(at, new[h])], new[h].price, h)
  <2>1. CASE PairIn(at, new[h]) = pair
    BY <1>1, <1>5, <2>1 DEF CompleteIn
  <2>2. CASE PairIn(at, new[h]) # pair
    <3>1. h \in DOMAIN os /\ new[h] = os[h] /\ h \notin but
      BY <2>2 DEF SameElsewhere, Within
    <3>2. PairIn(at, os[h]) \in DOMAIN ls /\ Queued(ls[PairIn(at, os[h])], os[h].price, h)
      BY <1>5, <3>1 DEF StorageOK, Complete
    <3> QED BY <1>1, <2>2, <3>1, <3>2
  <2> QED BY <2>1, <2>2
<1> QED
  BY <1>2, <1>3, <1>4, <1>5 DEF StorageOK, Complete, OrdersOK, ls1

(* Orders that are placed leave a book alone. *)
LEMMA BookWithMore ==
  ASSUME NEW at, NEW pair, NEW list, NEW os, NEW buys, NEW sells,
         Tidy(list, buys, sells), Held(at, pair, list, os, buys),
         NEW new, DOMAIN os \subseteq DOMAIN new, \A h \in DOMAIN os : new[h] = os[h]
  PROVE  Held(at, pair, list, new, buys)
<1>1. ASSUME NEW q, NEW h, Queued(list, q, h)
      PROVE  /\ h \in DOMAIN new /\ ~IsFinished(new[h])
             /\ new[h].price = q /\ PairIn(at, new[h]) = pair
             /\ new[h].otype = "Buy" <=> q \in buys
  <2>1. /\ h \in DOMAIN os /\ ~IsFinished(os[h])
        /\ os[h].price = q /\ PairIn(at, os[h]) = pair
        /\ os[h].otype = "Buy" <=> q \in buys
    BY <1>1 DEF Held
  <2> QED BY <2>1
<1> QED BY <1>1 DEF Held

(* do_create_limit_order, before order_match. *)
LEMMA PlacedStorage ==
  ASSUME NEW ps, NEW at, NEW os, NEW ls, NEW n, StorageOK(ps, at, os, ls, n, {}),
         NEW pair \in DOMAIN ps, NEW o, OrderOK(at, n, o, n + 1), PairIn(at, o) = pair,
         Bottom < Top
  PROVE  LET list == Ensure(GetOr(ls, pair, EmptyMap), NoPrice) IN
         /\ StorageOK(ps, at, Put(os, n, o), Put(ls, pair, list), n + 1, {n})
         /\ \A q : ~Queued(list, q, n)
<1> DEFINE list == Ensure(GetOr(ls, pair, EmptyMap), NoPrice)
           new == Put(os, n, o)
<1>1. /\ n \in Nat /\ n \notin DOMAIN os
      /\ \A h \in DOMAIN os : OrderOK(at, h, os[h], n)
  <2>1. n \in Nat /\ \A h \in DOMAIN os : OrderOK(at, h, os[h], n)
    BY DEF StorageOK
  <2>2. ASSUME n \in DOMAIN os PROVE FALSE
    <3>1. OrderOK(at, n, os[n], n)
      BY <2>1, <2>2
    <3> QED BY <2>1, <3>1 DEF OrderOK
  <2> QED BY <2>1, <2>2
<1>2. DOMAIN new = DOMAIN os \cup {n} /\ new[n] = o /\ \A h \in DOMAIN os : new[h] = os[h]
  BY <1>1 DEF Put
<1> HIDE DEF new
<1>3. SameElsewhere(at, pair, os, new)
  BY <1>2 DEF SameElsewhere
<1>4. OrdersOK(at, new, n + 1)
  <2>1. ASSUME NEW h \in DOMAIN os PROVE OrderOK(at, h, new[h], n + 1)
    BY <1>1, <1>2 DEF OrderOK
  <2> QED BY <1>2, <2>1 DEF OrdersOK
<1>5. Within(at, pair, os, {})
  BY DEF Within
<1>6. \E buys, sells : Tidy(list, buys, sells) /\ Held(at, pair, list, os, buys)
  <2>1. CASE pair \in DOMAIN ls
    <3>1. PICK buys, sells : Tidy(ls[pair], buys, sells) /\ Held(at, pair, ls[pair], os, buys)
      BY <2>1 DEF StorageOK, BookOK
    <3>2. Keyed(ls[pair], buys, sells)
      BY <3>1, KeysDiffer DEF Tidy
    <3>3. list = ls[pair]
      BY <2>1, <3>2 DEF GetOr, Ensure, Keyed
    <3> QED BY <3>1, <3>3
  <2>2. CASE pair \notin DOMAIN ls
    <3>1. list = Ensure(EmptyMap, NoPrice)
      BY <2>2 DEF GetOr
    <3> HIDE DEF list
    <3>2. Tidy(list, {}, {}) /\ \A p, h : ~Queued(list, p, h)
      BY <3>1, FreshIsTidy
    <3>3. Held(at, pair, list, os, {})
      BY <3>2 DEF Held
    <3> QED BY <3>2, <3>3
  <2> QED BY <2>1, <2>2
<1>7. PICK buys, sells : Tidy(list, buys, sells) /\ Held(at, pair, list, os, buys)
  BY <1>6
<1>8. BookOK(at, pair, list, new)
  <2>1. Held(at, pair, list, new, buys)
    BY <1>2, <1>7, BookWithMore
  <2> QED BY <1>7, <2>1 DEF BookOK
<1>9. CompleteIn(at, pair, list, new, {n})
  <2>1. ASSUME NEW h \in DOMAIN new, ~IsFinished(new[h]), h # n, PairIn(at, new[h]) = pair
        PROVE  Queued(list, new[h].price, h)
    <3>1. h \in DOMAIN os /\ new[h] = os[h]
      BY <1>2, <2>1
    <3>2. pair \in DOMAIN ls /\ Queued(ls[pair], os[h].price, h)
      BY <2>1, <3>1 DEF StorageOK, Complete
    <3>3. NoPrice \in DOMAIN ls[pair]
      <4>1. PICK b, s : Tidy(ls[pair], b, s)
        BY <3>2 DEF StorageOK, BookOK
      <4>2. Keyed(ls[pair], b, s)
        BY <4>1, KeysDiffer DEF Tidy
      <4> QED BY <4>2 DEF Keyed
    <3>4. list = ls[pair]
      BY <3>2, <3>3 DEF GetOr, Ensure
    <3> QED BY <3>1, <3>2, <3>4
  <2> HIDE DEF list
  <2> QED BY <2>1 DEF CompleteIn
<1>10. \A q : ~Queued(list, q, n)
  BY <1>1, <1>7 DEF Held
<1> HIDE DEF list
<1>11. StorageOK(ps, at, new, Put(ls, pair, list), n + 1, {n})
  <2>1. n + 1 \in Nat /\ n <= n + 1
    BY <1>1
  <2> QED BY <1>3, <1>4, <1>5, <1>8, <1>9, <2>1, BookReplaced
<1> QED BY <1>10, <1>11 DEF list, new

(* The end of do_create_limit_order: the order enters the price list. *)
Entered(ps, at, os, ls, n, t, pair, new, buy) ==
  /\ StorageOK(ps, at, os, Put(ls, pair, new), n, {})
  /\ \A p, h : Queued(new, p, h) <=> Queued(ls[pair], p, h) \/ (p = os[t].price /\ h = t)
  /\ TotalsWith(new, ls[pair], os[t].price, buy)

LEMMA EnteredStorage ==
  ASSUME NEW ps, NEW at, NEW os, NEW ls, NEW n, NEW t, StorageOK(ps, at, os, ls, n, {t}),
         NEW pair \in DOMAIN ls, t \in DOMAIN os, PairIn(at, os[t]) = pair, ~IsFinished(os[t]),
         \A h \in DOMAIN os : h # t => h < t,
         \A q : ~Queued(ls[pair], q, t),
         Bottom < os[t].price, os[t].price < Top,
         LET best == Best(ls[pair], Opposite(os[t].otype)) IN
           \/ best = LoopEnd(os[t].otype)
           \/ best # NoPrice /\ ~PriceMatched(os[t].price, os[t].otype, best),
         NEW sell \in Int, NEW buy \in Int
  PROVE  Entered(ps, at, os, ls, n, t, pair,
                 AppendOrder(ls[pair], os[t].price, t, sell, buy, os[t].otype), buy)
<1> DEFINE list == ls[pair]
           price == os[t].price
           otype == os[t].otype
           new == AppendOrder(list, price, t, sell, buy, otype)
<1>1. /\ n \in Nat /\ t \in Nat /\ price \in Int /\ otype \in OrderTypes
      /\ OrdersOK(at, os, n) /\ pair \in DOMAIN ps
  <2>1. OrderOK(at, t, os[t], n) /\ n \in Nat /\ OrdersOK(at, os, n) /\ pair \in DOMAIN ps
    BY DEF StorageOK, OrdersOK
  <2>2. t \in Nat /\ os[t] \in OrderSet /\ MaxAmount \in Nat
    BY <2>1, MathAssumption DEF OrderOK
  <2>3. otype \in OrderTypes /\ price \in 1 .. MaxAmount
    BY <2>2 DEF OrderSet
  <2> QED BY <2>1, <2>2, <2>3
<1>2. PICK buys, sells : Tidy(list, buys, sells) /\ Held(at, pair, list, os, buys)
  BY DEF StorageOK, BookOK
<1>3. \A p, h : Queued(list, p, h) => h < t
  BY <1>2 DEF Held
<1>4. OnItsSide(buys, sells, otype, price)
  <2>1. /\ Keyed(list, buys, sells)
        /\ Best(list, "Buy") \in buys \cup {Bottom}
        /\ \A p \in buys : Best(list, "Buy") \in buys /\ p <= Best(list, "Buy")
        /\ Best(list, "Sell") \in sells \cup {Top}
        /\ \A p \in sells : Best(list, "Sell") \in sells /\ Best(list, "Sell") <= p
    BY <1>2, KeysDiffer, BestPrice DEF Tidy
  <2>2. CASE otype = "Buy"
    <3>1. Best(list, "Sell") # Bottom
      BY <2>1 DEF Keyed
    <3>2. ~PriceMatched(price, "Buy", Best(list, "Sell"))
      BY <2>2, <3>1 DEF LoopEnd, Opposite
    <3>3. Best(list, "Sell") \in Int /\ price < Best(list, "Sell")
      BY <1>1, <2>1, <3>2 DEF Keyed, PriceMatched
    <3>4. ASSUME NEW s \in sells PROVE price < s
      BY <1>1, <2>1, <3>3 DEF Keyed
    <3> QED BY <2>2, <3>4 DEF OnItsSide
  <2>3. CASE otype # "Buy"
    <3>0. otype = "Sell"
      BY <1>1, <2>3 DEF OrderTypes
    <3>1. Best(list, "Buy") # Top
      BY <2>1 DEF Keyed
    <3>2. ~PriceMatched(price, "Sell", Best(list, "Buy"))
      BY <3>0, <3>1 DEF LoopEnd, Opposite
    <3>3. Best(list, "Buy") \in Int /\ Best(list, "Buy") < price
      BY <1>1, <2>1, <3>2 DEF Keyed, PriceMatched
    <3>4. ASSUME NEW b \in buys PROVE b < price
      BY <1>1, <2>1, <3>3 DEF Keyed
    <3> QED BY <2>3, <3>4 DEF OnItsSide
  <2> QED BY <2>2, <2>3
<1>5. /\ Tidy(new, WithBuy(buys, otype, price), WithSell(sells, otype, price))
      /\ \A p, h : Queued(new, p, h) <=> Queued(list, p, h) \/ (p = price /\ h = t)
      /\ TotalsWith(new, list, price, buy)
  <2>1. Bottom < price /\ price < Top
    OBVIOUS
  <2> HIDE DEF list, price, otype
  <2> QED BY <1>1, <1>2, <1>3, <1>4, <2>1, AppendIsTidy
<1> HIDE DEF new
<1>6. Held(at, pair, new, os, WithBuy(buys, otype, price))
  <2>1. ASSUME NEW q, NEW h, Queued(new, q, h)
        PROVE  /\ h \in DOMAIN os /\ ~IsFinished(os[h])
               /\ os[h].price = q /\ PairIn(at, os[h]) = pair
               /\ os[h].otype = "Buy" <=> q \in WithBuy(buys, otype, price)
    <3>1. CASE q = price /\ h = t
      <4>1. price \notin buys \/ otype = "Buy"
        BY <1>1, <1>2, <1>4, KeysDiffer DEF OnItsSide, Tidy, Keyed
      <4> QED BY <3>1, <4>1 DEF WithBuy
    <3>2. CASE Queued(list, q, h) /\ ~(q = price /\ h = t)
      <4>1. /\ h \in DOMAIN os /\ ~IsFinished(os[h])
            /\ os[h].price = q /\ PairIn(at, os[h]) = pair
            /\ os[h].otype = "Buy" <=> q \in buys
        BY <1>2, <3>2 DEF Held
      <4>2. q = price /\ otype = "Buy" => q \in buys
        <5>1. Keyed(list, buys, sells)
          BY <1>2, KeysDiffer DEF Tidy
        <5>2. q \in buys \cup sells
          BY <1>2, <3>2, <5>1 DEF Tidy, Queues, Keyed, Queued
        <5> QED BY <1>1, <1>4, <5>1, <5>2 DEF OnItsSide, Keyed
      <4> QED BY <4>1, <4>2 DEF WithBuy
    <3> QED BY <1>5, <2>1, <3>1, <3>2
  <2> QED BY <2>1 DEF Held
<1>7. BookOK(at, pair, new, os)
  BY <1>5, <1>6 DEF BookOK
<1>8. CompleteIn(at, pair, new, os, {})
  <2>1. ASSUME NEW h \in DOMAIN os, ~IsFinished(os[h]), PairIn(at, os[h]) = pair
        PROVE  Queued(new, os[h].price, h)
    <3>1. CASE h = t
      BY <1>5, <3>1
    <3>2. CASE h # t
      <4>1. Queued(list, os[h].price, h)
        BY <2>1, <3>2 DEF StorageOK, Complete
      <4> QED BY <1>5, <4>1
    <3> QED BY <3>1, <3>2
  <2> QED BY <2>1 DEF CompleteIn
<1>9. SameElsewhere(at, pair, os, os) /\ Within(at, pair, os, {t})
  BY DEF SameElsewhere, Within
<1>10. StorageOK(ps, at, os, Put(ls, pair, new), n, {})
  <2>1. n \in Nat /\ n <= n
    BY <1>1
  <2> QED BY <1>1, <1>7, <1>8, <1>9, <2>1, BookReplaced
<1> QED BY <1>5, <1>10 DEF new, Entered

(* do_cancel_limit_order of an order that is not the only one of its level.*)
Withdrawn(ps, at, os, ls, n, t, pair, left) ==
  /\ StorageOK(ps, at, [os EXCEPT ![t].status = "Canceled"], Put(ls, pair, left), n, {})
  /\ pair \in DOMAIN ls /\ DOMAIN left = DOMAIN ls[pair]
  /\ \A p \in DOMAIN ls[pair] \ {os[t].price} : left[p] = ls[pair][p]

LEMMA CanceledStorage ==
  ASSUME NEW ps, NEW at, NEW os, NEW ls, NEW n, StorageOK(ps, at, os, ls, n, {}),
         NEW t \in DOMAIN os, ~IsFinished(os[t]),
         NEW pair, pair = PairIn(at, os[t]), NEW list, list = GetOr(ls, pair, EmptyMap),
         Len(ItemAt(list, os[t].price).orders) > 1,
         NEW sell \in Int, NEW buy \in Int
  PROVE  Withdrawn(ps, at, os, ls, n, t, pair, RemoveOrder(list, os[t].price, t, sell, buy))
<1> DEFINE new == [os EXCEPT ![t].status = "Canceled"]
           price == os[t].price
           left == RemoveOrder(list, price, t, sell, buy)
<1>1. /\ n \in Nat /\ OrderOK(at, t, os[t], n) /\ os[t] \in OrderSet
      /\ \A h \in DOMAIN os : OrderOK(at, h, os[h], n)
  BY DEF StorageOK, OrderOK
<1>2. pair \in DOMAIN ls /\ Queued(ls[pair], price, t)
  BY DEF StorageOK, Complete
<1>3. list = ls[pair]
  BY <1>2 DEF GetOr
<1>4. PICK buys, sells : Tidy(list, buys, sells) /\ Held(at, pair, list, os, buys)
  BY <1>2, <1>3 DEF StorageOK, BookOK
<1>5. price \in buys \cup sells
  <2>1. Keyed(list, buys, sells)
    BY <1>4, KeysDiffer DEF Tidy
  <2> QED BY <1>2, <1>3, <1>4, <2>1 DEF Tidy, Queues, Keyed, Queued
<1>6. Len(list[price].orders) > 1
  BY <1>2, <1>3 DEF ItemAt, Queued
<1>7. \A p : Queued(list, p, t) => p = price
  BY <1>4 DEF Held
<1>8. /\ Tidy(left, buys, sells)
      /\ \A p, h : Queued(left, p, h) <=> Queued(list, p, h) /\ h # t
      /\ DOMAIN left = DOMAIN list /\ \A p \in DOMAIN list \ {price} : left[p] = list[p]
  <2>1. Tidy(list, buys, sells) /\ sell \in Int /\ buy \in Int
    BY <1>4
  <2> HIDE DEF price
  <2>2. LET gone == RemoveOrder(list, price, t, sell, buy) IN
        /\ Tidy(gone, buys, sells)
        /\ \A p, h : Queued(gone, p, h) <=> Queued(list, p, h) /\ h # t
        /\ DOMAIN gone = DOMAIN list /\ \A p \in DOMAIN list \ {price} : gone[p] = list[p]
    BY ONLY <1>5, <1>6, <1>7, <2>1, RemoveOrderKeepsTidy
  <2> QED BY ONLY <2>2
<1> HIDE DEF left
<1>9. /\ DOMAIN new = DOMAIN os
      /\ \A h \in DOMAIN os \ {t} : new[h] = os[h]
      /\ new[t] = [os[t] EXCEPT !.status = "Canceled"]
  OBVIOUS
<1> HIDE DEF new
<1>10. /\ new[t] \in OrderSet /\ new[t].status = "Canceled"
       /\ new[t].base = os[t].base /\ new[t].quote = os[t].quote
  BY <1>1, <1>9 DEF OrderSet, Statuses
<1>11. PairIn(at, new[t]) = pair /\ OrderOK(at, t, new[t], n) /\ IsFinished(new[t])
  BY <1>1, <1>10 DEF OrderOK, PairIn, IsFinished
<1>12. SameElsewhere(at, pair, os, new) /\ Within(at, pair, os, {}) /\ OrdersOK(at, new, n)
  BY <1>1, <1>9, <1>11 DEF SameElsewhere, Within, OrdersOK
<1>13. BookOK(at, pair, left, new)
  <2>1. ASSUME NEW q, NEW h, Queued(left, q, h)
        PROVE  /\ h \in DOMAIN new /\ ~IsFinished(new[h])
               /\ new[h].price = q /\ PairIn(at, new[h]) = pair
               /\ new[h].otype = "Buy" <=> q \in buys
    <3>1. Queued(list, q, h) /\ h # t
      BY <1>8, <2>1
    <3>2. /\ h \in DOMAIN os /\ ~IsFinished(os[h])
          /\ os[h].price = q /\ PairIn(at, os[h]) = pair
          /\ os[h].otype = "Buy" <=> q \in buys
      BY <1>4, <3>1 DEF Held
    <3> QED BY <1>9, <3>1, <3>2
  <2> QED BY <1>8, <2>1 DEF BookOK, Held
<1>14. CompleteIn(at, pair, left, new, {})
  <2>1. ASSUME NEW h \in DOMAIN new, ~IsFinished(new[h]), PairIn(at, new[h]) = pair
        PROVE  Queued(left, new[h].price, h)
    <3>1. h # t /\ h \in DOMAIN os /\ new[h] = os[h]
      BY <1>9, <1>11, <2>1
    <3>2. Queued(list, os[h].price, h)
      BY <1>3, <2>1, <3>1 DEF StorageOK, Complete
    <3> QED BY <1>8, <3>1, <3>2
  <2> QED BY <2>1 DEF CompleteIn
<1>15. StorageOK(ps, at, new, Put(ls, pair, left), n, {})
  <2>1. n \in Nat /\ n <= n /\ pair \in DOMAIN ps
    BY <1>1, <1>2 DEF StorageOK
  <2> QED BY <1>12, <1>13, <1>14, <2>1, BookReplaced
<1> QED BY <1>2, <1>3, <1>8, <1>15 DEF new, left, Withdrawn

(* One trade of order_match: `hash' is the oldest order of the best level. *)
TradedTaker(os, t, give, have) == AfterTrade(os[t], give, have)
TradedOrders(os, t, hash, give, have) ==
  [os EXCEPT ![t] = TradedTaker(os, t, give, have), ![hash] = AfterTrade(os[hash], have, give)]
TradedSwept(os, list, t, hash, give, have, otype) ==
  LET os1 == TradedOrders(os, t, hash, give, have) IN
  Sweep(ReduceAmount(list, os[hash].price, have, give), otype,
        {h \in DOMAIN os1 : IsFinished(os1[h])})

TradeWrites(ps, at, os, ls, n, t, pair, hash, give, have, os1, swept, otype) ==
  LET list == ls[pair]
      x == Best(list, otype)
  IN /\ swept.result = "ok"
     /\ StorageOK(ps, at, os1, Put(ls, pair, swept.list), n + 1, {t})
     /\ \A q : ~Queued(swept.list, q, t)
     /\ DOMAIN os1 = DOMAIN os
     /\ os1[t] = TradedTaker(os, t, give, have)
     /\ SameTerms(os[t], os1[t]) /\ os1[t].status # "Canceled"
     /\ \A h \in DOMAIN os : IsFinished(os[h]) => os1[h] = os[h]
     /\ os[hash].remainedBuy = give /\ Len(list[x].orders) > 1 =>
          /\ Best(swept.list, otype) = x
          /\ swept.list[x].orders = Tail(list[x].orders)
     /\ os[t].remainedBuy = have => os1[t].status = "Filled"
     /\ \A p, h : Queued(swept.list, p, h)
                     <=> Queued(list, p, h) /\ ~(h \in DOMAIN os1 /\ IsFinished(os1[h]))
     /\ TotalsWithout(swept.list, list, x, give)

LEMMA TradedStorage ==
  ASSUME NEW ps, NEW at, NEW os, NEW ls, NEW n, NEW t, StorageOK(ps, at, os, ls, n, {t}),
         NEW pair \in DOMAIN ls, t \in DOMAIN os, PairIn(at, os[t]) = pair,
         os[t].status \notin {"Canceled", "Filled"},
         \A q : ~Queued(ls[pair], q, t),
         NEW list, list = ls[pair], NEW otype \in OrderTypes,
         NEW x, x = Best(list, otype), list[x].orders # <<>>,
         NEW hash, hash = list[x].orders[1],
         NEW give \in Nat, NEW have \in Nat,
         give <= os[t].remainedSell, have <= os[t].remainedBuy,
         have <= os[hash].remainedSell, give <= os[hash].remainedBuy
  PROVE  TradeWrites(ps, at, os, ls, n, t, pair, hash, give, have,
                     TradedOrders(os, t, hash, give, have),
                     TradedSwept(os, list, t, hash, give, have, otype), otype)
<1> DEFINE os1 == TradedOrders(os, t, hash, give, have)
           finished == {h \in DOMAIN os1 : IsFinished(os1[h])}
           swept == TradedSwept(os, list, t, hash, give, have, otype)
           taker1 == TradedTaker(os, t, give, have)
           maker1 == AfterTrade(os[hash], have, give)
<1>1. /\ n \in Nat /\ pair \in DOMAIN ps
      /\ \A h \in DOMAIN os : OrderOK(at, h, os[h], n)
  BY DEF StorageOK
<1>2. PICK buys, sells : Tidy(list, buys, sells) /\ Held(at, pair, list, os, buys)
  BY DEF StorageOK, BookOK
<1>3. Queued(list, x, hash)
  BY <1>2, BestLevel
<1>4. /\ hash \in DOMAIN os /\ ~IsFinished(os[hash]) /\ hash # t
      /\ os[hash].price = x /\ PairIn(at, os[hash]) = pair
      /\ os[hash].otype = "Buy" <=> x \in buys
  BY <1>2, <1>3 DEF Held
<1>5. /\ OrderOK(at, t, os[t], n) /\ OrderOK(at, hash, os[hash], n)
      /\ os[hash].status # "Canceled" /\ ~IsFinished(os[t])
  BY <1>1, <1>4 DEF IsFinished
<1>6. /\ OrderOK(at, t, taker1, n) /\ SameTerms(os[t], taker1) /\ taker1.status # "Canceled"
      /\ os[t].remainedBuy = have => taker1.status = "Filled"
  BY <1>5, AfterTradeOK DEF TradedTaker
<1>7. /\ OrderOK(at, hash, maker1, n) /\ SameTerms(os[hash], maker1)
      /\ maker1.status # "Canceled"
      /\ os[hash].remainedBuy = give => maker1.status = "Filled"
  BY <1>5, AfterTradeOK, SMTT(20)
<1>8. /\ DOMAIN os1 = DOMAIN os /\ os1[t] = taker1 /\ os1[hash] = maker1
      /\ \A h \in DOMAIN os \ {t, hash} : os1[h] = os[h]
  BY <1>4 DEF TradedOrders
<1> HIDE DEF taker1, maker1, os1
<1>9. /\ PairIn(at, os1[t]) = pair /\ PairIn(at, os1[hash]) = pair
      /\ OrdersOK(at, os1, n + 1)
  <2>1. PairIn(at, os1[t]) = pair /\ PairIn(at, os1[hash]) = pair
    BY <1>4, <1>6, <1>7, <1>8, SMTT(20) DEF SameTerms, PairIn
  <2>2. ASSUME NEW h \in DOMAIN os1 PROVE OrderOK(at, h, os1[h], n + 1)
    <3>1. OrderOK(at, h, os1[h], n)
      BY <1>1, <1>6, <1>7, <1>8
    <3> QED BY <1>1, <3>1 DEF OrderOK
  <2> QED BY <2>1, <2>2 DEF OrdersOK
<1>10. SameElsewhere(at, pair, os, os1) /\ Within(at, pair, os, {t})
  BY <1>4, <1>8, <1>9 DEF SameElsewhere, Within
<1>11. \A p, h : Queued(list, p, h) /\ h \in finished => h = hash
  <2>1. ASSUME NEW p, NEW h, Queued(list, p, h), h \in finished, h # hash
        PROVE  FALSE
    <3>1. h \in DOMAIN os /\ ~IsFinished(os[h]) /\ h # t
      BY <1>2, <2>1 DEF Held
    <3> QED BY <1>8, <2>1, <3>1
  <2> HIDE DEF finished
  <2> QED BY <2>1
<1>12. swept = Sweep(ReduceAmount(list, os[hash].price, have, give), otype, finished)
  BY DEF TradedSwept, os1
<1> HIDE DEF finished, swept
<1>13. /\ swept.result = "ok"
       /\ \E buys1, sells1 :
            Tidy(swept.list, buys1, sells1) /\ Held(at, pair, swept.list, os, buys1)
       /\ \A p, h : Queued(swept.list, p, h) <=> Queued(list, p, h) /\ h \notin finished
       /\ hash \in finished /\ Len(list[x].orders) > 1 =>
            /\ Best(swept.list, otype) = x
            /\ swept.list[x].orders = Tail(list[x].orders)
       /\ TotalsWithout(swept.list, list, x, give)
  <2>1. have \in Int /\ give \in Int /\ FinishedIs(hash, list, finished)
    BY <1>11 DEF FinishedIs
  <2>2. StillHolds(swept, at, pair, list, os, otype, finished, give)
    BY <1>2, <1>12, <2>1, TradedBook
  <2> QED BY <2>2 DEF StillHolds
<1>14. PICK buys1, sells1 :
         Tidy(swept.list, buys1, sells1) /\ Held(at, pair, swept.list, os, buys1)
  BY <1>13
<1>15. BookOK(at, pair, swept.list, os1)
  <2>1. ASSUME NEW q, NEW h, Queued(swept.list, q, h)
        PROVE  /\ h \in DOMAIN os1 /\ ~IsFinished(os1[h])
               /\ os1[h].price = q /\ PairIn(at, os1[h]) = pair
               /\ os1[h].otype = "Buy" <=> q \in buys1
    <3>1. Queued(list, q, h) /\ h \notin finished /\ h # t
      BY <1>13, <2>1
    <3>2. /\ h \in DOMAIN os
          /\ os[h].price = q /\ PairIn(at, os[h]) = pair
          /\ os[h].otype = "Buy" <=> q \in buys1
      BY <1>14, <2>1 DEF Held
    <3>3. h \in DOMAIN os1 /\ ~IsFinished(os1[h])
      BY <1>8, <3>1, <3>2 DEF finished
    <3>4. os1[h].price = os[h].price /\ os1[h].otype = os[h].otype
      BY <1>7, <1>8, <3>1, <3>2, SMTT(20) DEF SameTerms
    <3>5. PairIn(at, os1[h]) = pair
      BY <1>8, <1>9, <3>1, <3>2
    <3> QED BY <3>2, <3>3, <3>4, <3>5
  <2>2. Held(at, pair, swept.list, os1, buys1)
    BY <2>1 DEF Held
  <2> QED BY <1>14, <2>2 DEF BookOK
<1>16. CompleteIn(at, pair, swept.list, os1, {t})
  <2>1. ASSUME NEW h \in DOMAIN os1, ~IsFinished(os1[h]), h # t, PairIn(at, os1[h]) = pair
        PROVE  Queued(swept.list, os1[h].price, h)
    <3>1. h \notin finished
      BY <2>1 DEF finished
    <3>2. CASE h = hash
      <4>1. os1[h].price = x
        BY <1>4, <1>7, <1>8, <3>2, SMTT(20) DEF SameTerms
      <4> QED BY <1>3, <1>13, <3>1, <3>2, <4>1
    <3>3. CASE h # hash
      <4>1. h \in DOMAIN os /\ os1[h] = os[h]
        BY <1>8, <2>1, <3>3
      <4>2. Queued(list, os[h].price, h)
        BY <2>1, <4>1 DEF StorageOK, Complete
      <4> QED BY <1>13, <3>1, <4>1, <4>2
    <3> QED BY <3>2, <3>3
  <2> QED BY <2>1 DEF CompleteIn
<1>17. StorageOK(ps, at, os1, Put(ls, pair, swept.list), n + 1, {t})
  <2>1. n + 1 \in Nat /\ n <= n + 1
    BY <1>1
  <2> QED BY <1>1, <1>9, <1>10, <1>15, <1>16, <2>1, BookReplaced
<1>18. \A q : ~Queued(swept.list, q, t)
  BY <1>13
<1>19. \A h \in DOMAIN os : IsFinished(os[h]) => os1[h] = os[h]
  BY <1>4, <1>5, <1>8
<1>20. os[hash].remainedBuy = give => hash \in finished
  <2>1. ASSUME os[hash].remainedBuy = give PROVE IsFinished(maker1)
    BY <1>7, <2>1 DEF OrderOK, IsFinished
  <2> QED BY <1>4, <1>8, <2>1 DEF finished
<1>21. \A p, h : Queued(swept.list, p, h)
                    <=> Queued(list, p, h) /\ ~(h \in DOMAIN os1 /\ IsFinished(os1[h]))
  BY <1>13 DEF finished
<1> QED
  BY <1>6, <1>8, <1>13, <1>17, <1>18, <1>19, <1>20, <1>21 DEF os1, swept, taker1, TradeWrites

-----------------------------------------------------------------------------
(* The steps. *)

LEMMA IdleIsACall == Idle \in Calls /\ Idle.phase = "idle"
  BY DEF Idle, Calls, OrderTypes

(* A change of what the order book does not keep. *)
LEMMA BookUnchanged ==
  ASSUME IInv, TokensOK', UNCHANGED <<pairVars, orderVars, tradeVars, callVars>>
  PROVE  IInv'
  BY DEF IInv, InProgress, Taking, Placing, Trading, Taker, pairVars, orderVars, tradeVars, callVars

(* Between two extrinsics, the storage is all there is. *)
LEMMA IdleInv ==
  ASSUME TokensOK', call' = Idle, StorageOK(pairs', pairAt', orders', lists', nonce', {})
  PROVE  IInv'
<1>1. call' \in Calls /\ call'.phase = "idle"
  BY IdleIsACall
<1>2. ~InProgress' /\ Taking' = {}
  BY <1>1 DEF InProgress, Taking
<1> QED BY <1>1, <1>2 DEF IInv

LEMMA RollbackKeeps ==
  ASSUME IInv, InProgress, Rollback
  PROVE  IInv'
<1>1. TokensOK'
  BY DEF IInv, TokensOK, Rollback
<1>2. StorageOK(pairs', pairAt', orders', lists', nonce', {})
  BY DEF IInv, Placing, Rollback, pairVars
<1>3. call' = Idle
  BY DEF Rollback
<1> QED BY <1>1, <1>2, <1>3, IdleInv

LEMMA NeverEndsKeeps ==
  ASSUME IInv, InProgress, NeverEnds
  PROVE  IInv'
<1>1. /\ call \in Calls /\ call' = [call EXCEPT !.phase = "looping"]
      /\ UNCHANGED <<tokenNonce, owners, pairs, pairAt, orders, lists, nonce, trades, saved>>
  BY DEF IInv, NeverEnds, tokenVars, pairVars, orderVars, tradeVars
<1>2. /\ call' \in Calls /\ call'.phase = "looping"
      /\ call'.order = call.order /\ call'.pair = call.pair
  BY <1>1 DEF Calls
<1>3. InProgress' /\ Taking' = Taking
  BY <1>1, <1>2 DEF InProgress, Taking
<1>4. TokensOK' /\ StorageOK(pairs, pairAt, orders, lists, nonce, Taking)'
  BY <1>1, <1>3 DEF IInv, TokensOK
<1>5. Placing'
  BY <1>1, <1>2 DEF IInv, Placing, Taker
<1> QED BY <1>2, <1>4, <1>5 DEF IInv

LEMMA CreateTradePairKeeps ==
  ASSUME IInv, NEW sender, NEW base \in DOMAIN owners, NEW quote \in DOMAIN owners,
         CreateTradePair(sender, base, quote)
  PROVE  IInv'
<1>1. /\ call.phase = "idle" /\ <<base, quote>> \notin DOMAIN pairAt
      /\ pairs' = Put(pairs, nonce, [base |-> base, quote |-> quote])
      /\ pairAt' = Put(pairAt, <<base, quote>>, nonce)
      /\ nonce' = nonce + 1
      /\ UNCHANGED <<tokenNonce, owners, orders, lists, call, saved>>
  BY DEF CreateTradePair, Ready, tokenVars, callVars
<1>2. ~InProgress /\ ~InProgress' /\ Taking = {} /\ Taking' = {} /\ call'.phase = "idle"
  BY <1>1 DEF InProgress, Taking
<1>3. /\ TokensOK' /\ base \in Nat /\ quote \in Nat
      /\ StorageOK(pairs, pairAt, orders, lists, nonce, {})
  BY <1>1, <1>2 DEF IInv, TokensOK
<1>4. /\ nonce \in Nat /\ PairsOK(pairs, pairAt, nonce)
      /\ \A h \in DOMAIN orders : OrderOK(pairAt, h, orders[h], nonce)
      /\ DOMAIN lists \subseteq DOMAIN pairs
      /\ \A p \in DOMAIN lists : BookOK(pairAt, p, lists[p], orders)
      /\ Complete(pairAt, orders, lists, {})
  BY <1>3 DEF StorageOK
<1>5. /\ DOMAIN pairs' = DOMAIN pairs \cup {nonce}
      /\ pairs'[nonce] = [base |-> base, quote |-> quote]
      /\ nonce \notin DOMAIN pairs
      /\ \A p \in DOMAIN pairs : pairs'[p] = pairs[p]
  <2>1. nonce \notin DOMAIN pairs
    <3>1. \A p \in DOMAIN pairs : p \in Nat /\ p < nonce
      BY <1>4 DEF PairsOK
    <3> QED BY <1>4, <3>1
  <2> QED BY <1>1, <2>1 DEF Put
<1>6. /\ DOMAIN pairAt' = DOMAIN pairAt \cup {<<base, quote>>}
      /\ pairAt'[<<base, quote>>] = nonce
      /\ \A k \in DOMAIN pairAt : pairAt'[k] = pairAt[k]
  BY <1>1 DEF Put
<1>7. PairsOK(pairs', pairAt', nonce')
  <2>1. ASSUME NEW p \in DOMAIN pairs'
        PROVE  /\ p \in Nat /\ p < nonce'
               /\ pairs'[p].base \in Nat /\ pairs'[p].quote \in Nat
               /\ <<pairs'[p].base, pairs'[p].quote>> \in DOMAIN pairAt'
               /\ pairAt'[<<pairs'[p].base, pairs'[p].quote>>] = p
    <3>1. CASE p = nonce
      BY <1>1, <1>3, <1>4, <1>5, <1>6, <3>1
    <3>2. CASE p # nonce
      <4>1. p \in DOMAIN pairs /\ pairs'[p] = pairs[p]
        BY <1>5, <3>2
      <4> QED BY <1>1, <1>4, <1>6, <4>1 DEF PairsOK
    <3> QED BY <3>1, <3>2
  <2>2. ASSUME NEW b, NEW q, <<b, q>> \in DOMAIN pairAt'
        PROVE  LET p == pairAt'[<<b, q>>] IN
               p \in DOMAIN pairs' /\ pairs'[p].base = b /\ pairs'[p].quote = q
    <3>1. CASE <<b, q>> = <<base, quote>>
      BY <1>5, <1>6, <3>1
    <3>2. CASE <<b, q>> \in DOMAIN pairAt
      <4>1. LET p == pairAt[<<b, q>>] IN
            p \in DOMAIN pairs /\ pairs[p].base = b /\ pairs[p].quote = q
        BY <1>4, <3>2 DEF PairsOK
      <4> QED BY <1>5, <1>6, <3>2, <4>1
    <3> QED BY <1>6, <2>2, <3>1, <3>2
  <2> QED BY <2>1, <2>2 DEF PairsOK
<1>8. ASSUME NEW h \in DOMAIN orders
      PROVE  OrderOK(pairAt', h, orders[h], nonce') /\ PairIn(pairAt', orders[h]) = PairIn(pairAt, orders[h])
  <2>1. OrderOK(pairAt, h, orders[h], nonce)
    BY <1>4
  <2> QED BY <1>1, <1>4, <1>6, <2>1 DEF OrderOK, PairIn
<1>9. ASSUME NEW p \in DOMAIN lists
      PROVE  BookOK(pairAt', p, lists[p], orders)
  <2>1. PICK buys, sells : Tidy(lists[p], buys, sells) /\ Held(pairAt, p, lists[p], orders, buys)
    BY <1>4 DEF BookOK
  <2>2. Held(pairAt', p, lists[p], orders, buys)
    BY <1>8, <2>1 DEF Held
  <2> QED BY <2>1, <2>2 DEF BookOK
<1>10. Complete(pairAt', orders, lists, {})
  BY <1>4, <1>8 DEF Complete
<1>11. StorageOK(pairs', pairAt', orders', lists', nonce', {})
  BY <1>1, <1>4, <1>5, <1>7, <1>8, <1>9, <1>10 DEF StorageOK
<1> QED BY <1>1, <1>2, <1>3, <1>11 DEF IInv

LEMMA PlaceKeeps ==
  ASSUME Regular, IInv, NEW o \in LimitOrders, NEW pair \in DOMAIN pairs,
         CreateLimitOrder(o[1], pair, o[2], o[3], o[4])
  PROVE  IInv'
<1> DEFINE sender == o[1]
           otype == o[2]
           price == o[3]
           amount == o[4]
           new == NewOrder(sender, pair, otype, price, amount)
<1>1. /\ sender \in Accounts /\ otype \in OrderTypes /\ price \in Nat /\ amount \in Nat
      /\ otype = "Sell" => price # MaxAmount
      /\ MaxAmount \in Nat
  <2>1. o \in Accounts \X OrderTypes \X (0 .. MaxAmount) \X (0 .. MaxAmount)
    BY TradeAssumption
  <2>2. MaxAmount \in Nat
    BY MathAssumption
  <2> QED BY <2>1, <2>2 DEF Regular
<1>2. /\ call.phase = "idle" /\ AcceptableTerms(otype, price, amount)
      /\ orders' = Put(orders, nonce, new) /\ nonce' = nonce + 1
      /\ lists' = Put(lists, pair, Ensure(List(pair), NoPrice))
      /\ call' = [phase |-> "match", pair |-> pair, sender |-> sender, otype |-> otype,
                  market |-> FALSE, amount |-> 0, order |-> nonce, queue |-> <<>>]
      /\ UNCHANGED <<tokenNonce, owners, pairs, pairAt, trades>>
      /\ saved' = Storage
  BY DEF CreateLimitOrder, ReadyForOrder, Ready, Place, CanPlace, pairVars, tradeVars
<1> HIDE DEF sender, otype, price, amount
<1>3. /\ StorageOK(pairs, pairAt, orders, lists, nonce, {}) /\ nonce \in Nat
      /\ PairsOK(pairs, pairAt, nonce) /\ TokensOK'
  BY <1>2 DEF IInv, Taking, InProgress, StorageOK, TokensOK
<1>4. /\ new \in OrderSet /\ new.status = "Created" /\ new.otype = otype
      /\ new.price = price /\ 0 < price /\ price <= MaxAmount
      /\ new.base = pairs[pair].base /\ new.quote = pairs[pair].quote
  <2> DEFINE counter == Counterparty(otype, price, amount)
  <2>1. /\ 0 < price /\ price <= MaxAmount /\ 0 < amount /\ amount <= MaxAmount
        /\ counter <= MaxAmount
    BY <1>2 DEF AcceptableTerms
  <2>2. counter \in Nat
    <3>1. PriceFactor \in Nat /\ PriceFactor > 0
      BY MathAssumption
    <3>2. ToQuote(amount, price) \in Nat
      BY <1>1, <2>1, <3>1 DEF ToQuote
    <3>3. ToBase(amount, price) \in Nat
      BY <1>1, <2>1, <3>1 DEF ToBase
    <3> QED BY <3>2, <3>3 DEF Counterparty
  <2>3. counter \in Amount /\ amount \in Amount /\ price \in 1 .. MaxAmount
    BY <1>1, <2>1, <2>2 DEF Amount
  <2>4. pairs[pair].base \in Nat /\ pairs[pair].quote \in Nat
    BY <1>3 DEF PairsOK
  <2>5. new = [base |-> pairs[pair].base, quote |-> pairs[pair].quote,
               owner |-> sender, price |-> price,
               sellAmount |-> amount, buyAmount |-> counter,
               remainedSell |-> amount, remainedBuy |-> counter,
               otype |-> otype, status |-> "Created"]
    BY DEF NewOrder
  <2> HIDE DEF counter, new
  <2> QED BY <1>1, <2>1, <2>3, <2>4, <2>5 DEF OrderSet, Statuses
<1> HIDE DEF new
<1>5. PairIn(pairAt, new) = pair /\ OrderOK(pairAt, nonce, new, nonce + 1)
  BY <1>3, <1>4 DEF PairsOK, PairIn, OrderOK
<1>6. Bottom < Top
  BY <1>1, <1>4 DEF Bottom, Top
<1>7. /\ StorageOK(pairs, pairAt, orders', lists', nonce + 1, {nonce})
      /\ \A q : ~Queued(Ensure(List(pair), NoPrice), q, nonce)
  BY <1>2, <1>3, <1>5, <1>6, PlacedStorage DEF List
<1>8. /\ call' \in Calls /\ call'.phase = "match" /\ call'.pair = pair /\ call'.order = nonce
      /\ pair \in Nat
  <2>1. pair \in Nat
    BY <1>3 DEF PairsOK
  <2> QED BY <1>1, <1>2, <1>3, <2>1 DEF Calls
<1>9. InProgress' /\ Taking' = {nonce}
  BY <1>8 DEF InProgress, Taking
<1>10. Placing'
  <2>2. /\ saved'.orders = orders /\ saved'.lists = lists /\ saved'.nonce = nonce
        /\ saved'.trades = trades'
    BY <1>2 DEF Storage
  <2>3. StorageOK(pairs', pairAt', saved'.orders, saved'.lists, saved'.nonce, {})
    BY <1>2, <1>3, <2>2
  <2>4. nonce \notin DOMAIN orders
    <3>1. \A h \in DOMAIN orders : OrderOK(pairAt, h, orders[h], nonce)
      BY <1>3 DEF StorageOK
    <3>2. ASSUME nonce \in DOMAIN orders PROVE FALSE
      <4>1. OrderOK(pairAt, nonce, orders[nonce], nonce)
        BY <3>1, <3>2
      <4> QED BY <1>3, <4>1 DEF OrderOK
    <3> QED BY <3>2
  <2>5. /\ DOMAIN orders' = DOMAIN orders \cup {nonce} /\ orders'[nonce] = new
        /\ \A h \in DOMAIN orders : orders'[h] = orders[h]
    BY <1>2, <2>4 DEF Put
  <2>6. Taker' = new
    BY <1>8, <2>5 DEF Taker
  <2>7. pair \in DOMAIN lists' /\ lists'[pair] = Ensure(List(pair), NoPrice)
    BY <1>2 DEF Put
  <2>8. saved'.nonce < nonce' /\ call'.order = saved'.nonce
    BY <1>2, <1>3, <1>8, <2>2
  <2>9. /\ PairIn(pairAt', Taker') = pair /\ Taker'.status # "Canceled"
        /\ Taker'.otype = "Sell" => Taker'.price # MaxAmount
    BY <1>1, <1>2, <1>4, <1>5, <2>6
  <2> QED BY <1>7, <1>8, <2>2, <2>3, <2>5, <2>7, <2>8, <2>9 DEF Placing
<1> QED BY <1>2, <1>3, <1>7, <1>8, <1>9, <1>10 DEF IInv

LEMMA CancelKeeps ==
  ASSUME Regular, IInv, NEW sender, NEW hash, CancelLimitOrder(sender, hash)
  PROVE  IInv'
<1> DEFINE o == orders[hash]
           pair == PairIn(pairAt, o)
<1>1. /\ call.phase = "idle" /\ hash \in DOMAIN orders /\ ~IsFinished(o)
      /\ Len(ItemAt(List(pair), o.price).orders) > 1
      /\ lists' = Put(lists, pair, RemoveOrder(List(pair), o.price, hash, o.sellAmount, o.buyAmount))
      /\ orders' = [orders EXCEPT ![hash].status = "Canceled"]
      /\ UNCHANGED <<owners, tokenNonce, pairs, pairAt, nonce, call, saved>>
  BY DEF CancelLimitOrder, CanCancel, Ready, Regular, PairIn, pairVars, callVars
<1>2. ~InProgress /\ ~InProgress' /\ Taking = {} /\ Taking' = {} /\ call'.phase = "idle"
  BY <1>1 DEF InProgress, Taking
<1>3. StorageOK(pairs, pairAt, orders, lists, nonce, {}) /\ TokensOK'
  BY <1>1, <1>2 DEF IInv, TokensOK
<1>4. o.sellAmount \in Int /\ o.buyAmount \in Int
  <2>1. o \in OrderSet /\ MaxAmount \in Nat
    BY <1>1, <1>3, MathAssumption DEF StorageOK, OrderOK
  <2> QED BY <2>1 DEF OrderSet, Amount
<1>5. List(pair) = GetOr(lists, pair, EmptyMap)
  BY DEF List
<1> HIDE DEF pair
<1>6. StorageOK(pairs, pairAt, orders', lists', nonce, {})
  <2>1. pair = PairIn(pairAt, orders[hash])
    BY DEF pair
  <2>2. Withdrawn(pairs, pairAt, orders, lists, nonce, hash, pair,
                  RemoveOrder(List(pair), o.price, hash, o.sellAmount, o.buyAmount))
    BY <1>1, <1>3, <1>4, <1>5, <2>1, CanceledStorage
  <2> QED BY <1>1, <2>2 DEF Withdrawn
<1> QED BY <1>1, <1>2, <1>3, <1>6 DEF IInv

(* The order that is placed, as the invariant has it. *)
LEMMA TheTaker ==
  ASSUME IInv, InProgress
  PROVE  /\ call.order \in DOMAIN orders /\ call.order \in Nat /\ Taking = {call.order}
         /\ Taker \in OrderSet /\ Taker.otype \in OrderTypes
         /\ Taker.status = "Filled" => IsFinished(Taker)
         /\ Taker.status # "Filled" => ~IsFinished(Taker)
         /\ \A h \in DOMAIN orders : h # call.order => h < call.order
         /\ StorageOK(pairs, pairAt, orders, lists, nonce, {call.order})
         /\ call.pair \in DOMAIN lists /\ List(call.pair) = lists[call.pair]
         /\ PairIn(pairAt, Taker) = call.pair
         /\ \A q : ~Queued(lists[call.pair], q, call.order)
<1>1. /\ Placing /\ Taking = {call.order} /\ call \in Calls
      /\ StorageOK(pairs, pairAt, orders, lists, nonce, Taking)
  BY DEF IInv, Taking
<1>2. /\ call.order \in DOMAIN orders /\ call.pair \in DOMAIN lists
      /\ PairIn(pairAt, Taker) = call.pair
      /\ \A q : ~Queued(lists[call.pair], q, call.order)
      /\ DOMAIN orders = DOMAIN saved.orders \cup {call.order}
      /\ call.order = saved.nonce
      /\ StorageOK(pairs, pairAt, saved.orders, saved.lists, saved.nonce, {})
      /\ Taker.status # "Canceled"
  BY <1>1 DEF Placing
<1>3. OrderOK(pairAt, call.order, Taker, nonce)
  BY <1>1, <1>2 DEF StorageOK, Taker
<1>4. /\ Taker \in OrderSet /\ call.order \in Nat
      /\ Taker.status = "Filled" => Taker.remainedBuy = 0
  BY <1>3 DEF OrderOK
<1>5. Taker.otype \in OrderTypes
  BY <1>4 DEF OrderSet
<1>6. \A h \in DOMAIN saved.orders : h < call.order
  <2>1. \A h \in DOMAIN saved.orders : OrderOK(pairAt, h, saved.orders[h], saved.nonce)
    BY <1>2 DEF StorageOK
  <2> QED BY <1>2, <2>1 DEF OrderOK
<1>7. List(call.pair) = lists[call.pair]
  BY <1>2 DEF List, GetOr
<1> QED BY <1>1, <1>2, <1>4, <1>5, <1>6, <1>7 DEF IsFinished

(* The order that is placed joins the level of its price. *)
Joined(new) ==
  LET list == lists[call.pair] IN
  /\ lists' = Put(lists, call.pair, new)
  /\ StorageOK(pairs, pairAt, orders, lists', nonce, {})
  /\ \A p, h : Queued(new, p, h) <=> Queued(list, p, h) \/ (p = Taker.price /\ h = call.order)
  /\ TotalsWith(new, list, Taker.price, Taker.remainedBuy)

LEMMA TakerJoins ==
  ASSUME IInv, InProgress, FinishPlacing, Taker.status # "Filled",
         NothingToMatch(Taker, Best(List(call.pair), Opposite(Taker.otype)))
  PROVE  \E new : Joined(new)
<1> DEFINE t == call.order
           pair == call.pair
           list == lists[pair]
           best == Best(list, Opposite(Taker.otype))
           new == AppendOrder(list, Taker.price, t, Taker.remainedSell, Taker.remainedBuy,
                              Taker.otype)
<1>1. /\ t \in DOMAIN orders
      /\ Taker \in OrderSet /\ Taker.otype \in OrderTypes
      /\ ~IsFinished(Taker)
      /\ \A h \in DOMAIN orders : h # t => h < t
      /\ StorageOK(pairs, pairAt, orders, lists, nonce, {t})
      /\ pair \in DOMAIN lists /\ List(pair) = list
      /\ PairIn(pairAt, Taker) = pair
      /\ \A q : ~Queued(list, q, t)
  BY TheTaker
<1>2. /\ Bottom < Taker.price /\ Taker.price <= Top
      /\ Taker.remainedSell \in Int /\ Taker.remainedBuy \in Int /\ Taker.price \in Int
  <2>1. MaxAmount \in Nat
    BY MathAssumption
  <2> QED BY <1>1, <2>1 DEF OrderSet, Amount, Bottom, Top
<1>3. \/ best = LoopEnd(Taker.otype)
      \/ best # NoPrice /\ ~PriceMatched(Taker.price, Taker.otype, best)
  BY <1>1 DEF NothingToMatch
<1>4. Taker.price # Top
  <2>1. CASE Taker.otype = "Sell"
    BY <2>1 DEF IInv, Placing, Top
  <2>2. CASE Taker.otype = "Buy"
    <3>1. PICK buys, sells : Tidy(list, buys, sells)
      BY <1>1 DEF StorageOK, BookOK
    <3>2. Keyed(list, buys, sells) /\ Best(list, "Sell") \in sells \cup {Top}
      BY <3>1, KeysDiffer, BestPrice DEF Tidy
    <3>3. Best(list, "Sell") \in Int /\ Bottom < Best(list, "Sell") /\ Best(list, "Sell") <= Top
      BY <3>2 DEF Keyed
    <3>4. ~PriceMatched(Taker.price, "Buy", Best(list, "Sell"))
      BY <1>3, <2>2, <3>2, <3>3 DEF LoopEnd, Opposite, Keyed
    <3> QED BY <1>2, <3>3, <3>4 DEF PriceMatched
  <2> QED BY <1>1, <2>1, <2>2 DEF OrderTypes
<1>5. lists' = Put(lists, pair, new)
  BY <1>1 DEF FinishPlacing, Put
<1>6. Taker = orders[t] /\ Taker.price < Top
  BY <1>2, <1>4, MathAssumption DEF Taker, Top
<1> HIDE DEF t, pair
<1>7. Entered(pairs, pairAt, orders, lists, nonce, t, pair,
              AppendOrder(lists[pair], orders[t].price, t, Taker.remainedSell,
                          Taker.remainedBuy, orders[t].otype), Taker.remainedBuy)
  BY <1>1, <1>2, <1>3, <1>6, EnteredStorage
<1>8. Joined(new)
  BY <1>5, <1>6, <1>7 DEF Joined, Entered, t, pair
<1> QED BY <1>8

LEMMA MatchLevelKeeps ==
  ASSUME IInv, MatchLevel
  PROVE  IInv'
<1> DEFINE t == call.order
           pair == call.pair
           list == lists[pair]
           best == Best(list, Opposite(Taker.otype))
           stuck == /\ Taker.status # "Filled"
                    /\ ~AppendEnds(list, Taker.price, Taker.otype)
<1>1. call.phase = "match" /\ InProgress
  BY DEF MatchLevel, InProgress
<1>2. /\ t \in DOMAIN orders /\ t \in Nat /\ Taking = {t}
      /\ Taker \in OrderSet /\ Taker.otype \in OrderTypes
      /\ Taker.status = "Filled" => IsFinished(Taker)
      /\ Taker.status # "Filled" => ~IsFinished(Taker)
      /\ \A h \in DOMAIN orders : h # t => h < t
      /\ StorageOK(pairs, pairAt, orders, lists, nonce, {t})
      /\ pair \in DOMAIN lists /\ List(pair) = list
      /\ PairIn(pairAt, Taker) = pair
      /\ \A q : ~Queued(list, q, t)
  BY <1>1, TheTaker
<1>3. \/ NothingToMatch(Taker, best) /\ ~stuck /\ FinishPlacing
      \/ NeverEnds
      \/ Rollback
      \/ /\ ~NothingToMatch(Taker, best) /\ best \in DOMAIN list /\ list[best].orders # <<>>
         /\ call' = [call EXCEPT !.phase = "trade", !.queue = list[best].orders]
         /\ UNCHANGED <<tokenVars, marketVars, pairVars, orderVars, tradeVars, saved>>
  BY <1>2 DEF MatchLevel
<1> HIDE DEF stuck
<1>4. CASE NeverEnds
  BY <1>1, <1>4, NeverEndsKeeps
<1>5. CASE Rollback
  BY <1>1, <1>5, RollbackKeeps
<1>6. CASE NothingToMatch(Taker, best) /\ ~stuck /\ FinishPlacing
  <2>1. /\ call.market = FALSE /\ TokensOK'
        /\ UNCHANGED <<pairs, pairAt, nonce, orders>>
    BY <1>6 DEF IInv, Calls, FinishPlacing, TokensOK, tokenVars, pairVars
  <2>2. call' = Idle
    BY <1>6, <2>1 DEF FinishPlacing, AfterPlacing
  <2>3. CASE Taker.status = "Filled"
    <3>1. lists' = lists
      BY <1>6, <2>3 DEF FinishPlacing
    <3>2. StorageOK(pairs, pairAt, orders, lists, nonce, {})
      <4>1. Complete(pairAt, orders, lists, {})
        BY <1>2, <2>3 DEF StorageOK, Complete, Taker
      <4> QED BY <1>2, <4>1 DEF StorageOK
    <3> QED BY <2>1, <2>2, <3>1, <3>2, IdleInv
  <2>4. CASE Taker.status # "Filled"
    <3>1. PICK new : Joined(new)
      BY <1>1, <1>2, <1>6, <2>4, TakerJoins
    <3>2. StorageOK(pairs, pairAt, orders, lists', nonce, {})
      BY <3>1 DEF Joined
    <3> QED BY <2>1, <2>2, <3>2, IdleInv
  <2> QED BY <2>3, <2>4
<1>7. CASE /\ ~NothingToMatch(Taker, best) /\ best \in DOMAIN list /\ list[best].orders # <<>>
           /\ call' = [call EXCEPT !.phase = "trade", !.queue = list[best].orders]
           /\ UNCHANGED <<tokenVars, marketVars, pairVars, orderVars, tradeVars, saved>>
  <2>1. UNCHANGED <<tokenNonce, owners, pairs, pairAt, orders, lists, nonce, trades, saved>>
    BY <1>7 DEF tokenVars, pairVars, orderVars, tradeVars
  <2>2. list[best].orders \in Seq(Nat)
    <3>1. PICK buys, sells : Tidy(list, buys, sells)
      BY <1>2 DEF StorageOK, BookOK
    <3>2. Opposite(Taker.otype) \in OrderTypes
      BY <1>2, OppositeType
    <3> QED BY <1>7, <3>1, <3>2, BestLevel
  <2>3. /\ call' \in Calls /\ call'.phase = "trade" /\ call'.queue = list[best].orders
        /\ call'.order = t /\ call'.pair = pair
    <3>1. call \in Calls
      BY DEF IInv
    <3> QED BY <1>7, <2>2, <3>1 DEF Calls
  <2>4. InProgress' /\ Taking' = Taking /\ Taker' = Taker
    BY <1>2, <2>1, <2>3 DEF InProgress, Taking, Taker
  <2>5. TokensOK' /\ StorageOK(pairs, pairAt, orders, lists, nonce, Taking)'
    BY <2>1, <2>4 DEF IInv, TokensOK
  <2>6. Placing'
    BY <1>1, <2>1, <2>3, <2>4 DEF IInv, Placing
  <2>7. Trading'
    BY <1>7, <2>1, <2>3, <2>4 DEF Trading, NothingToMatch
  <2> QED BY <2>3, <2>4, <2>5, <2>6, <2>7 DEF IInv
<1> QED BY <1>3, <1>4, <1>5, <1>6, <1>7

GoesOn(c, phase, queue) == [c EXCEPT !.phase = phase, !.queue = queue]

GoingOn(c, phase, queue, new) ==
  /\ new \in Calls /\ new.phase = phase /\ new.queue = queue
  /\ new.order = c.order /\ new.pair = c.pair

LEMMA CallChanged ==
  ASSUME NEW c \in Calls, NEW queue \in Seq(Nat)
  PROVE  /\ GoingOn(c, "match", queue, GoesOn(c, "match", queue))
         /\ GoingOn(c, "trade", queue, GoesOn(c, "trade", queue))
  BY DEF Calls, GoesOn, GoingOn

LEMMA TailOfQueue ==
  ASSUME NEW queue \in Seq(Nat), queue # <<>>, Len(queue) # 1
  PROVE  Len(queue) > 1 /\ Tail(queue) # <<>>
<1>1. Len(queue) \in Nat /\ Len(queue) # 0
  OBVIOUS
<1>0. \A m \in Nat : m # 0 /\ m # 1 => m > 1
  OBVIOUS
<1>2. Len(queue) > 1
  BY ONLY <1>0, <1>1, Len(queue) # 1
<1>3. Tail(queue) # <<>>
  <2>1. Len(Tail(queue)) = Len(queue) - 1
    OBVIOUS
  <2>2. \A m \in Nat : m > 1 => m - 1 # 0
    OBVIOUS
  <2>3. Len(Tail(queue)) # 0
    BY ONLY <1>1, <1>2, <2>1, <2>2
  <2>4. Len(<<>>) = 0
    OBVIOUS
  <2> QED BY ONLY <2>3, <2>4
<1> QED BY <1>2, <1>3

(* The extrinsic is over, or a loop goes on with the same order. *)
GoesAhead ==
  \/ call' = Idle
  \/ InProgress' /\ call'.phase # "looping" /\ Taker'.price = Taker.price

LEMMA MatchOrderKeeps ==
  ASSUME IInv, MatchOrder
  PROVE  IInv' /\ GoesAhead
<1> DEFINE t == call.order
           pair == call.pair
           list == lists[pair]
           otype == Opposite(Taker.otype)
           x == Best(list, otype)
           hash == Head(call.queue)
           maker == orders[hash]
           ex == CalculateExAmount(maker, Taker)
           give == IF Taker.otype = "Buy" THEN ex.base ELSE ex.quote
           have == IF Taker.otype = "Buy" THEN ex.quote ELSE ex.base
           os1 == TradedOrders(orders, t, hash, give, have)
           swept == TradedSwept(orders, list, t, hash, give, have, otype)
<1>1. call.phase = "trade" /\ InProgress
  BY DEF MatchOrder, InProgress
<1>2. /\ t \in DOMAIN orders /\ t \in Nat /\ Taking = {t}
      /\ Taker \in OrderSet /\ Taker.otype \in OrderTypes
      /\ StorageOK(pairs, pairAt, orders, lists, nonce, {t})
      /\ pair \in DOMAIN lists /\ List(pair) = list
      /\ PairIn(pairAt, Taker) = pair
      /\ \A q : ~Queued(list, q, t)
  BY <1>1, TheTaker
<1>3. /\ Taker.status \notin {"Filled", "Canceled"}
      /\ x \in DOMAIN list /\ list[x].orders = call.queue /\ call.queue # <<>>
      /\ Placing /\ call \in Calls
  BY <1>1 DEF IInv, Trading, Placing
<1>4. otype \in OrderTypes /\ MaxAmount \in Nat
  BY <1>2, OppositeType, MathAssumption
<1>5. PICK buys, sells : Tidy(list, buys, sells) /\ Held(pairAt, pair, list, orders, buys)
  BY <1>2 DEF StorageOK, BookOK
<1>6. hash = list[x].orders[1] /\ call.queue \in Seq(Nat) /\ Queued(list, x, hash)
  <2>1. list[x].orders \in Seq(Nat) /\ Queued(list, x, list[x].orders[1])
    BY <1>3, <1>4, <1>5, BestLevel
  <2> QED BY <1>3, <2>1
<1>7. maker \in OrderSet /\ hash \in DOMAIN orders
  <2>1. hash \in DOMAIN orders
    BY <1>5, <1>6 DEF Held
  <2> QED BY <1>2, <2>1 DEF StorageOK, OrderOK
<1>8. /\ give \in Nat /\ have \in Nat
      /\ Taker.remainedBuy = have \/ maker.remainedBuy = give
  BY <1>2, <1>7, ExchangeFills
<1>9. Taker = orders[t]
  BY DEF Taker
<1>10. \/ Rollback
       \/ /\ give <= Taker.remainedSell /\ have <= Taker.remainedBuy
          /\ have <= maker.remainedSell /\ give <= maker.remainedBuy
          /\ swept.result = "never ends"
       \/ /\ give <= Taker.remainedSell /\ have <= Taker.remainedBuy
          /\ have <= maker.remainedSell /\ give <= maker.remainedBuy
          /\ orders' = os1
          /\ lists' = [lists EXCEPT ![pair] = swept.list]
          /\ nonce' = nonce + 1
          /\ call' = IF TradedTaker(orders, t, give, have).status = "Filled" \/ Len(call.queue) = 1
                     THEN [call EXCEPT !.phase = "match", !.queue = <<>>]
                     ELSE [call EXCEPT !.queue = Tail(@)]
          /\ DOMAIN trades \subseteq DOMAIN trades'
          /\ UNCHANGED <<tokenNonce, owners, pairs, pairAt, saved>>
  <2>1. /\ Taker.remainedSell \in Nat /\ Taker.remainedBuy \in Nat
        /\ maker.remainedSell \in Nat /\ maker.remainedBuy \in Nat
    BY <1>2, <1>4, <1>7 DEF OrderSet, Amount
  <2> DEFINE taker1 == AfterTrade(Taker, give, have)
             orders1 == [orders EXCEPT ![t] = taker1, ![hash] = AfterTrade(maker, have, give)]
             finished == {h \in DOMAIN orders1 : IsFinished(orders1[h])}
             swept1 == Sweep(ReduceAmount(List(pair), maker.price, have, give), otype, finished)
  <2>2. \/ Rollback
        \/ /\ ~(give > Taker.remainedSell) /\ ~(have > Taker.remainedBuy)
           /\ ~(have > maker.remainedSell) /\ ~(give > maker.remainedBuy)
           /\ swept1.result = "never ends"
        \/ /\ ~(give > Taker.remainedSell) /\ ~(have > Taker.remainedBuy)
           /\ ~(have > maker.remainedSell) /\ ~(give > maker.remainedBuy)
           /\ orders' = orders1
           /\ lists' = [lists EXCEPT ![pair] = swept1.list]
           /\ nonce' = nonce + 1
           /\ call' = IF taker1.status = "Filled" \/ Len(call.queue) = 1
                      THEN [call EXCEPT !.phase = "match", !.queue = <<>>]
                      ELSE [call EXCEPT !.queue = Tail(@)]
           /\ trades' = Put(trades, nonce, NewTrade(Taker, maker, ex))
           /\ UNCHANGED <<tokenNonce, owners, pairs, pairAt, saved>>
    BY Zenon DEF MatchOrder, pairVars
  <2>5. ASSUME NEW v, trades' = Put(trades, nonce, v)
        PROVE  DOMAIN trades \subseteq DOMAIN trades'
    BY <2>5 DEF Put
  <2>3. taker1 = TradedTaker(orders, t, give, have) /\ orders1 = os1
    BY <1>9 DEF TradedOrders, TradedTaker
  <2>4. swept1 = swept
    BY <1>2, <2>3 DEF TradedSwept
  <2> HIDE DEF taker1, orders1, swept1, os1, swept, give, have, maker, hash, finished
  <2>6. /\ ~(give > Taker.remainedSell) => give <= Taker.remainedSell
        /\ ~(have > Taker.remainedBuy) => have <= Taker.remainedBuy
        /\ ~(have > maker.remainedSell) => have <= maker.remainedSell
        /\ ~(give > maker.remainedBuy) => give <= maker.remainedBuy
    BY ONLY <1>8, <2>1
  <2> QED BY ONLY <2>2, <2>3, <2>4, <2>5, <2>6, Zenon
<1>11. CASE Rollback
  BY <1>1, <1>11, RollbackKeeps DEF Rollback, GoesAhead
<1>12. ASSUME give <= Taker.remainedSell, have <= Taker.remainedBuy,
              have <= maker.remainedSell, give <= maker.remainedBuy
       PROVE  /\ swept.result = "ok"
              /\ StorageOK(pairs, pairAt, os1, Put(lists, pair, swept.list), nonce + 1, {t})
              /\ \A q : ~Queued(swept.list, q, t)
              /\ DOMAIN os1 = DOMAIN orders
              /\ os1[t] = TradedTaker(orders, t, give, have)
              /\ SameTerms(orders[t], os1[t]) /\ os1[t].status # "Canceled"
              /\ \A h \in DOMAIN orders : IsFinished(orders[h]) => os1[h] = orders[h]
              /\ orders[hash].remainedBuy = give /\ Len(list[x].orders) > 1 =>
                   /\ Best(swept.list, otype) = x
                   /\ swept.list[x].orders = Tail(list[x].orders)
              /\ orders[t].remainedBuy = have => os1[t].status = "Filled"
  <2> HIDE DEF t, pair, list, otype, x, hash, maker, give, have, os1, swept
  <2>1. list = lists[pair] /\ x = Best(list, otype) /\ maker = orders[hash]
  BY DEF list, x, maker
  <2>2. TradeWrites(pairs, pairAt, orders, lists, nonce, t, pair, hash, give, have,
                    TradedOrders(orders, t, hash, give, have),
                    TradedSwept(orders, list, t, hash, give, have, otype), otype)
  BY <1>2, <1>3, <1>4, <1>6, <1>8, <1>9, <1>12, <2>1, TradedStorage, SMTT(20)
  <2> QED BY <2>1, <2>2 DEF os1, swept, TradeWrites
<1>13. CASE /\ give <= Taker.remainedSell /\ have <= Taker.remainedBuy
            /\ have <= maker.remainedSell /\ give <= maker.remainedBuy
            /\ swept.result = "never ends"
  <2> HIDE DEF give, have, swept, maker
  <2> QED BY <1>12, <1>13
<1>14. CASE /\ give <= Taker.remainedSell /\ have <= Taker.remainedBuy
            /\ have <= maker.remainedSell /\ give <= maker.remainedBuy
            /\ orders' = os1
            /\ lists' = [lists EXCEPT ![pair] = swept.list]
            /\ nonce' = nonce + 1
            /\ call' = IF TradedTaker(orders, t, give, have).status = "Filled" \/ Len(call.queue) = 1
                       THEN [call EXCEPT !.phase = "match", !.queue = <<>>]
                       ELSE [call EXCEPT !.queue = Tail(@)]
            /\ DOMAIN trades \subseteq DOMAIN trades'
            /\ UNCHANGED <<tokenNonce, owners, pairs, pairAt, saved>>
  <2>1. /\ StorageOK(pairs, pairAt, os1, Put(lists, pair, swept.list), nonce + 1, {t})
        /\ \A q : ~Queued(swept.list, q, t)
        /\ DOMAIN os1 = DOMAIN orders
        /\ os1[t] = TradedTaker(orders, t, give, have)
        /\ SameTerms(orders[t], os1[t]) /\ os1[t].status # "Canceled"
        /\ \A h \in DOMAIN orders : IsFinished(orders[h]) => os1[h] = orders[h]
        /\ orders[hash].remainedBuy = give /\ Len(list[x].orders) > 1 =>
             /\ Best(swept.list, otype) = x
             /\ swept.list[x].orders = Tail(list[x].orders)
        /\ orders[t].remainedBuy = have => os1[t].status = "Filled"
    <3> HIDE DEF give, have, os1, swept, maker
    <3> QED BY <1>12, <1>14
  <2> HIDE DEF give, have, os1, swept
  <2>2. lists' = Put(lists, pair, swept.list) /\ lists'[pair] = swept.list /\ pair \in DOMAIN lists'
    BY <1>2, <1>14 DEF Put
  <2>3. /\ call' \in Calls /\ call'.phase \in {"match", "trade"}
        /\ call'.order = t /\ call'.pair = pair
        /\ call'.phase = "trade" =>
             /\ os1[t].status # "Filled" /\ Len(call.queue) # 1 /\ call'.queue = Tail(call.queue)
    <3>1. Tail(call.queue) \in Seq(Nat)
      BY <1>3, <1>6
    <3>2. CASE os1[t].status = "Filled" \/ Len(call.queue) = 1
      <4>1. call' = GoesOn(call, "match", <<>>)
        BY <1>14, <2>1, <3>2 DEF GoesOn
      <4>2. <<>> \in Seq(Nat)
        OBVIOUS
      <4>3. GoingOn(call, "match", <<>>, call')
        BY ONLY <1>3, <4>1, <4>2, CallChanged
      <4> QED BY <4>3 DEF GoingOn
    <3>3. CASE ~(os1[t].status = "Filled" \/ Len(call.queue) = 1)
      <4>1. call' = GoesOn(call, "trade", Tail(call.queue))
        BY <1>1, <1>3, <1>14, <2>1, <3>3 DEF Calls, GoesOn
      <4>2. GoingOn(call, "trade", Tail(call.queue), call')
        BY ONLY <1>3, <3>1, <4>1, CallChanged
      <4> QED BY <3>3, <4>2 DEF GoingOn
    <3> QED BY <3>2, <3>3
  <2>4. InProgress' /\ Taking' = {t} /\ Taker' = os1[t]
    BY <1>14, <2>3 DEF InProgress, Taking, Taker
  <2>5. TokensOK' /\ StorageOK(pairs, pairAt, orders, lists, nonce, Taking)'
    BY <1>14, <2>1, <2>2, <2>4 DEF IInv, TokensOK
  <2>6. Placing'
    <3>1. /\ Taker'.otype = Taker.otype /\ Taker'.price = Taker.price
          /\ PairIn(pairAt, Taker') = pair /\ Taker'.status # "Canceled"
      BY <1>2, <1>9, <2>1, <2>4 DEF SameTerms, PairIn
    <3>2. saved.nonce < nonce'
      BY <1>2, <1>3, <1>14 DEF Placing, StorageOK
    <3>3. \A h \in DOMAIN saved.orders :
            IsFinished(saved.orders[h]) => os1[h] = saved.orders[h]
      BY <1>3, <2>1 DEF Placing
    <3> QED BY <1>3, <1>14, <2>1, <2>2, <2>3, <3>1, <3>2, <3>3 DEF Placing
  <2>7. ASSUME call'.phase = "trade" PROVE Trading'
    <3>1. os1[t].status # "Filled" /\ Len(call.queue) # 1 /\ call'.queue = Tail(call.queue)
      BY <2>3, <2>7
    <3>2. orders[hash].remainedBuy = give
      BY <1>8, <1>9, <2>1, <3>1
    <3>3. Len(call.queue) > 1 /\ Tail(call.queue) # <<>>
      BY <1>3, <1>6, <3>1, TailOfQueue
    <3>4. Best(swept.list, otype) = x /\ swept.list[x].orders = Tail(call.queue)
      BY <1>3, <2>1, <3>2, <3>3
    <3>5. x \in DOMAIN swept.list
      <4>1. PICK b, s : Tidy(swept.list, b, s)
        <5>1. BookOK(pairAt, pair, lists'[pair], os1)
          BY <1>14, <2>1, <2>2 DEF StorageOK
        <5> QED BY <2>2, <5>1 DEF BookOK
      <4> QED BY <1>4, <3>4, <4>1, BestOfSide
    <3>6. Taker'.otype = Taker.otype /\ Taker'.status # "Filled"
      BY <1>9, <2>1, <2>4, <3>1 DEF SameTerms
    <3> QED BY <2>2, <2>3, <3>1, <3>3, <3>4, <3>5, <3>6 DEF Trading
  <2>8. GoesAhead
    BY <1>9, <2>1, <2>3, <2>4 DEF GoesAhead, SameTerms
  <2> QED BY <2>3, <2>4, <2>5, <2>6, <2>7, <2>8 DEF IInv
<1> QED BY <1>10, <1>11, <1>13, <1>14

-----------------------------------------------------------------------------
LEMMA Initially == Init => IInv
<1> SUFFICES ASSUME Init PROVE IInv
  OBVIOUS
<1>1. /\ tokenNonce = 0 /\ DOMAIN owners = {}
      /\ DOMAIN pairs = {} /\ DOMAIN pairAt = {} /\ nonce = 0
      /\ DOMAIN orders = {} /\ DOMAIN lists = {} /\ call = Idle
  BY DEF Init, T!Init, T!EmptyMap, EmptyMap
<1>2. call \in Calls /\ ~InProgress /\ Taking = {} /\ call.phase # "trade"
  BY <1>1, IdleIsACall DEF InProgress, Taking
<1>3. StorageOK(pairs, pairAt, orders, lists, nonce, {})
  BY <1>1 DEF StorageOK, PairsOK, Complete
<1> QED BY <1>1, <1>2, <1>3 DEF IInv, TokensOK

LEMMA TokensStay ==
  ASSUME IInv, UNCHANGED <<tokenNonce, owners>>
  PROVE  TokensOK'
  BY DEF IInv, TokensOK

LEMMA Inductive ==
  ASSUME Regular, IInv, [Next]_vars
  PROVE  IInv'
<1>1. CASE UNCHANGED vars
  <2>1. UNCHANGED <<tokenNonce, owners, pairVars, orderVars, tradeVars, callVars>>
    BY <1>1 DEF vars, tokenVars
  <2> QED BY <2>1, TokensStay, BookUnchanged
<1>2. CASE CallStep
  <2>1. call.phase \in {"idle", "match", "trade", "looping"}
    BY DEF IInv, Calls
  <2>2. ~PlaceMarketOrder /\ ~SettleMarketOrder
    BY <2>1 DEF PlaceMarketOrder, SettleMarketOrder
  <2> QED BY <1>2, <2>2, MatchLevelKeeps, MatchOrderKeeps DEF CallStep
<1>3. CASE OnInitialize \/ OnFinalize
  <2>1. UNCHANGED <<tokenNonce, owners, pairVars, orderVars, tradeVars, callVars>>
    BY <1>3 DEF OnInitialize, OnFinalize, tokenVars
  <2> QED BY <2>1, TokensStay, BookUnchanged
<1>4. ASSUME NEW a \in Accounts, NEW n \in Supplies, Issue(a, n)
      PROVE  IInv'
  <2>1. /\ owners' = T!Put(owners, tokenNonce, a) /\ tokenNonce' = tokenNonce + 1
        /\ UNCHANGED <<pairVars, orderVars, tradeVars, callVars>>
    BY <1>4 DEF Issue, T!Issue
  <2>2. DOMAIN owners' = DOMAIN owners \cup {tokenNonce}
    BY <2>1 DEF T!Put
  <2>3. TokensOK'
    BY <2>1, <2>2 DEF IInv, TokensOK
  <2> QED BY <2>1, <2>3, BookUnchanged
<1>5. ASSUME NEW a, NEW b, NEW t, NEW n, Transfer(a, b, t, n)
      PROVE  IInv'
  <2>1. UNCHANGED <<tokenNonce, owners, pairVars, orderVars, tradeVars, callVars>>
    BY <1>5 DEF Transfer, T!Transfer
  <2> QED BY <2>1, TokensStay, BookUnchanged
<1>6. MarketOrders = {}
  BY DEF Regular
<1> QED
  BY <1>1, <1>2, <1>3, <1>4, <1>5, <1>6, CreateTradePairKeeps, PlaceKeeps, CancelKeeps DEF Next

(* While callers do what Regular says: at every moment, also in the middle *)
(* of an extrinsic, the price lists hold the unfinished orders, and none   *)
(* but the one that is being placed is missing.                            *)
THEOREM InvariantHolds ==
  ASSUME Regular
  PROVE  Spec => []IInv
<1>1. Init => IInv
  BY Initially
<1>2. IInv /\ [Next]_vars => IInv'
  BY Inductive
<1> QED BY <1>1, <1>2, PTL DEF Spec

-----------------------------------------------------------------------------
(* What the invariant says of the book between two extrinsics. *)

LEMMA QuietStorage ==
  ASSUME IInv, Quiet
  PROVE  StorageOK(pairs, pairAt, orders, lists, nonce, {})
  BY DEF IInv, Quiet, Taking, InProgress

(* The orders of a pair are those that its hashes name. *)
LEMMA LiveInPair ==
  ASSUME NEW but, StorageOK(pairs, pairAt, orders, lists, nonce, but), NEW p \in DOMAIN pairs
  PROVE  \A h : h \in LiveIn(p) <=>
           h \in DOMAIN orders /\ ~IsFinished(orders[h]) /\ PairIn(pairAt, orders[h]) = p
<1>1. /\ PairsOK(pairs, pairAt, nonce)
      /\ \A h \in DOMAIN orders : OrderOK(pairAt, h, orders[h], nonce)
  BY DEF StorageOK
<1>2. ASSUME NEW h \in DOMAIN orders
      PROVE  (orders[h].base = pairs[p].base /\ orders[h].quote = pairs[p].quote)
               <=> PairIn(pairAt, orders[h]) = p
  <2>1. <<orders[h].base, orders[h].quote>> \in DOMAIN pairAt
    BY <1>1 DEF OrderOK
  <2>2. LET q == pairAt[<<orders[h].base, orders[h].quote>>] IN
        pairs[q].base = orders[h].base /\ pairs[q].quote = orders[h].quote
    BY <1>1, <2>1 DEF PairsOK
  <2>3. pairAt[<<pairs[p].base, pairs[p].quote>>] = p
    BY <1>1 DEF PairsOK
  <2> QED BY <2>2, <2>3 DEF PairIn
<1> QED BY <1>2 DEF LiveIn, Live

(* The sides of a book are the prices of its buy and of its sell orders. *)
LEMMA SidesOfBook ==
  ASSUME NEW but, StorageOK(pairs, pairAt, orders, lists, nonce, but), NEW p,
         NEW list, NEW buys, NEW sells,
         Tidy(list, buys, sells), Held(pairAt, p, list, orders, buys)
  PROVE  /\ Levels(list) = buys \cup sells
         /\ SideOf(list, "Buy") = buys /\ SideOf(list, "Sell") = sells
<1>1. Keyed(list, buys, sells) /\ Queues(list, buys, sells)
  BY KeysDiffer DEF Tidy
<1>2. Levels(list) = buys \cup sells
  BY <1>1 DEF Levels, Keyed
<1>3. ASSUME NEW x \in buys \cup sells
      PROVE  /\ 1 \in DOMAIN list[x].orders
             /\ \A i \in DOMAIN list[x].orders :
                  orders[list[x].orders[i]].otype = IF x \in buys THEN "Buy" ELSE "Sell"
  <2>1. list[x].orders \in Seq(Nat) /\ list[x].orders # <<>> /\ x \in DOMAIN list
    BY ItemTypes
  <2>2. 1 \in DOMAIN list[x].orders
    BY <2>1
  <2>3. ASSUME NEW i \in DOMAIN list[x].orders
        PROVE  orders[list[x].orders[i]].otype = IF x \in buys THEN "Buy" ELSE "Sell"
    <3> DEFINE h == list[x].orders[i]
    <3>1. Queued(list, x, h)
      BY <2>1 DEF Queued
    <3>2. h \in DOMAIN orders /\ (orders[h].otype = "Buy" <=> x \in buys)
      BY <3>1 DEF Held
    <3>3. orders[h].otype \in OrderTypes
      <4>1. orders[h] \in OrderSet
        BY <3>2 DEF StorageOK, OrderOK
      <4> QED BY <4>1 DEF OrderSet
    <3> QED BY <3>2, <3>3 DEF OrderTypes
  <2> QED BY <2>2, <2>3
<1>4. buys \cap sells = {}
  BY <1>1 DEF Keyed
<1>5. \A x : x \in SideOf(list, "Buy") <=> x \in buys
  BY <1>2, <1>3 DEF SideOf
<1>6. \A x : x \in SideOf(list, "Sell") <=> x \in sells
  BY <1>2, <1>3, <1>4 DEF SideOf
<1> QED BY <1>2, <1>5, <1>6

LEMMA InvLinked == IInv => BookIsLinked
<1> SUFFICES ASSUME IInv, Quiet, NEW p \in DOMAIN lists
             PROVE  /\ Sorted(lists[p], SideOf(lists[p], "Buy"), SideOf(lists[p], "Sell"))
                    /\ \A price \in Levels(lists[p]) : lists[p][price].orders # <<>>
  BY DEF BookIsLinked
<1>1. StorageOK(pairs, pairAt, orders, lists, nonce, {})
  BY QuietStorage
<1>2. PICK buys, sells : Tidy(lists[p], buys, sells) /\ Held(pairAt, p, lists[p], orders, buys)
  BY <1>1 DEF StorageOK, BookOK
<1>3. /\ Levels(lists[p]) = buys \cup sells
      /\ SideOf(lists[p], "Buy") = buys /\ SideOf(lists[p], "Sell") = sells
  BY <1>1, <1>2, SidesOfBook
<1> QED BY <1>2, <1>3 DEF Tidy, Shape, Queues

LEMMA InvHolds == IInv => BookHoldsLiveOrders
<1> SUFFICES ASSUME IInv, Quiet, NEW p \in DOMAIN pairs
             PROVE  /\ \A h \in LiveIn(p) :
                         /\ orders[h].price \in DOMAIN List(p)
                         /\ Contains(List(p)[orders[h].price].orders, h)
                    /\ \A price \in DOMAIN List(p) :
                         LET queue == List(p)[price].orders IN
                         /\ \A i \in DOMAIN queue :
                              queue[i] \in LiveIn(p) /\ orders[queue[i]].price = price
                         /\ \A i \in 1 .. (Len(queue) - 1) : queue[i] < queue[i + 1]
  BY DEF BookHoldsLiveOrders
<1>1. StorageOK(pairs, pairAt, orders, lists, nonce, {})
  BY QuietStorage
<1>2. \A h : h \in LiveIn(p) <=>
        h \in DOMAIN orders /\ ~IsFinished(orders[h]) /\ PairIn(pairAt, orders[h]) = p
  BY <1>1, LiveInPair
<1>3. CASE p \notin DOMAIN lists
  <2>1. List(p) = EmptyMap /\ DOMAIN List(p) = {}
    BY <1>3 DEF List, GetOr, EmptyMap
  <2>2. LiveIn(p) = {}
    BY <1>1, <1>2, <1>3 DEF StorageOK, Complete
  <2> QED BY <2>1, <2>2
<1>4. CASE p \in DOMAIN lists
  <2>1. List(p) = lists[p]
    BY <1>4 DEF List, GetOr
  <2> DEFINE list == lists[p]
  <2>2. PICK buys, sells : Tidy(list, buys, sells) /\ Held(pairAt, p, list, orders, buys)
    BY <1>1, <1>4 DEF StorageOK, BookOK
  <2>3. \A x \in DOMAIN list : list[x].orders \in Seq(Nat) /\ Ascending(list[x].orders)
    <3>1. ASSUME NEW x \in DOMAIN list
          PROVE  list[x].orders \in Seq(Nat) /\ Ascending(list[x].orders)
      <4>1. list[x] \in Items
        BY <2>2 DEF Tidy, Shape, Linked, Stored
      <4>2. list[x].orders \in Seq(Nat)
        BY <4>1 DEF Items
      <4> QED BY <2>2, <4>2 DEF Tidy, Queues, Ascending
    <3> QED BY <3>1
  <2>4. ASSUME NEW h \in LiveIn(p)
        PROVE  orders[h].price \in DOMAIN list /\ Contains(list[orders[h].price].orders, h)
    <3>1. Queued(list, orders[h].price, h)
      BY <1>1, <1>2 DEF StorageOK, Complete
    <3>2. orders[h].price \in DOMAIN list
      BY <3>1 DEF Queued
    <3> QED BY <2>3, <3>1, <3>2 DEF Queued, Contains
  <2>5. ASSUME NEW x \in DOMAIN list, NEW i \in DOMAIN list[x].orders
        PROVE  list[x].orders[i] \in LiveIn(p) /\ orders[list[x].orders[i]].price = x
    <3>1. Queued(list, x, list[x].orders[i])
      BY DEF Queued
    <3> QED BY <1>2, <2>2, <3>1 DEF Held
  <2>6. ASSUME NEW x \in DOMAIN list, NEW i \in 1 .. (Len(list[x].orders) - 1)
        PROVE  list[x].orders[i] < list[x].orders[i + 1]
    <3> DEFINE queue == list[x].orders
    <3>1. queue \in Seq(Nat) /\ Ascending(queue)
      BY <2>3
    <3> HIDE DEF queue
    <3>2. i \in DOMAIN queue /\ i + 1 \in DOMAIN queue /\ i < i + 1
      <4>1. PICK m \in Nat : m = Len(queue) /\ DOMAIN queue = 1 .. m
        BY <3>1
      <4> QED BY <4>1 DEF queue
    <3>3. queue[i] < queue[i + 1]
      BY <3>1, <3>2 DEF Ascending
    <3> QED BY <3>3 DEF queue
  <2> QED BY <2>1, <2>4, <2>5, <2>6
<1> QED BY <1>3, <1>4

LEMMA InvUncrossed == IInv => Uncrossed
<1> SUFFICES ASSUME IInv, Quiet, NEW p \in DOMAIN pairs, NEW b \in LiveIn(p), NEW s \in LiveIn(p),
                    orders[b].otype = "Buy", orders[s].otype = "Sell"
             PROVE  orders[b].price < orders[s].price
  BY DEF Uncrossed
<1>1. StorageOK(pairs, pairAt, orders, lists, nonce, {})
  BY QuietStorage
<1>2. \A h : h \in LiveIn(p) <=>
        h \in DOMAIN orders /\ ~IsFinished(orders[h]) /\ PairIn(pairAt, orders[h]) = p
  BY <1>1, LiveInPair
<1>3. /\ p \in DOMAIN lists
      /\ Queued(lists[p], orders[b].price, b) /\ Queued(lists[p], orders[s].price, s)
  BY <1>1, <1>2 DEF StorageOK, Complete
<1>4. PICK buys, sells : Tidy(lists[p], buys, sells) /\ Held(pairAt, p, lists[p], orders, buys)
  BY <1>1, <1>3 DEF StorageOK, BookOK
<1>5. orders[b].price \in buys /\ orders[s].price \notin buys
  BY <1>3, <1>4 DEF Held
<1>6. orders[s].price \in sells
  <2>1. Keyed(lists[p], buys, sells)
    BY <1>4, KeysDiffer DEF Tidy
  <2> QED BY <1>3, <1>4, <1>5, <2>1 DEF Tidy, Queues, Keyed, Queued
<1> QED BY <1>4, <1>5, <1>6 DEF Tidy, Shape

-----------------------------------------------------------------------------
(* Steps, seen from the orders. *)

LEMMA PhasesOfCall ==
  ASSUME IInv
  PROVE  Quiet <=> ~InProgress
  BY DEF IInv, Quiet, InProgress, Calls

(* No other extrinsic starts while one is in progress. *)
LEMMA StepsOfCall ==
  ASSUME IInv, InProgress, [Next]_vars
  PROVE  MatchLevel \/ MatchOrder \/ orders' = orders
<1>1. call.phase # "idle"
  BY DEF InProgress
<1>2. ~PlaceMarketOrder /\ ~SettleMarketOrder
  BY DEF IInv, Calls, PlaceMarketOrder, SettleMarketOrder
<1>3. CASE Next /\ ~CallStep
  <2>1. \A a, n : ~Issue(a, n)
    BY <1>1 DEF Issue, Ready
  <2>2. \A a, b, t, n : ~Transfer(a, b, t, n)
    BY <1>1 DEF Transfer, Ready
  <2>3. \A a, b, q : ~CreateTradePair(a, b, q)
    BY <1>1 DEF CreateTradePair, Ready
  <2>4. \A a, p, o, x, n : ~CreateLimitOrder(a, p, o, x, n)
    BY <1>1 DEF CreateLimitOrder, ReadyForOrder, Ready
  <2>5. \A a, p, o, n : ~CreateMarketOrder(a, p, o, n)
    BY <1>1 DEF CreateMarketOrder, ReadyForOrder, Ready
  <2>6. \A a, h : ~CancelLimitOrder(a, h)
    BY <1>1 DEF CancelLimitOrder, Ready
  <2>7. OnInitialize \/ OnFinalize
    BY <1>3, <2>1, <2>2, <2>3, <2>4, <2>5, <2>6 DEF Next
  <2> QED BY <2>7 DEF OnInitialize, OnFinalize, orderVars
<1>4. CASE UNCHANGED vars
  BY <1>4 DEF vars, orderVars
<1> QED BY <1>2, <1>3, <1>4 DEF CallStep

LEMMA OrdersOfCall ==
  ASSUME IInv, IInv', InProgress, [Next]_vars
  PROVE  \/ orders' = orders
         \/ orders' = saved.orders
         \/ InProgress' /\ saved' = saved
<1>1. call.phase # "idle"
  BY DEF InProgress
<1>2. CASE MatchOrder
  <2>1. CASE Rollback \/ NeverEnds
    BY <2>1 DEF Rollback, NeverEnds, orderVars
  <2>2. CASE ~Rollback /\ ~NeverEnds
    <3>1. /\ saved' = saved
          /\ \/ call' = [call EXCEPT !.phase = "match", !.queue = <<>>]
             \/ call' = [call EXCEPT !.queue = Tail(@)]
      BY <1>2, <2>2 DEF MatchOrder
    <3>2. call \in Calls /\ call' \in Calls
      BY DEF IInv
    <3>3. call'.phase \in {"match", call.phase}
      BY <3>1, <3>2 DEF Calls
    <3>4. InProgress'
      <4>1. call'.phase \in {"idle", "match", "trade", "looping"}
        BY <3>2 DEF Calls
      <4> QED BY <1>1, <3>3, <4>1 DEF InProgress
    <3> QED BY <3>1, <3>4
  <2> QED BY <2>1, <2>2
<1>3. CASE MatchLevel
  BY <1>3 DEF MatchLevel, FinishPlacing, NeverEnds, Rollback, orderVars
<1> QED BY <1>2, <1>3, StepsOfCall

LEMMA OrdersWhenQuiet ==
  ASSUME Regular, IInv, Quiet, [Next]_vars
  PROVE  \A h \in DOMAIN orders : IsFinished(orders[h]) =>
           h \in DOMAIN orders' /\ orders'[h] = orders[h]
<1>1. call.phase = "idle" /\ StorageOK(pairs, pairAt, orders, lists, nonce, {})
  BY QuietStorage DEF Quiet
<1>2. nonce \notin DOMAIN orders
  <2>1. nonce \in Nat /\ \A h \in DOMAIN orders : OrderOK(pairAt, h, orders[h], nonce)
    BY <1>1 DEF StorageOK
  <2>2. ASSUME nonce \in DOMAIN orders PROVE FALSE
    <3>1. OrderOK(pairAt, nonce, orders[nonce], nonce)
      BY <2>1, <2>2
    <3> QED BY <2>1, <3>1 DEF OrderOK
  <2> QED BY <2>2
<1>3. ~CallStep
  BY <1>1 DEF CallStep, PlaceMarketOrder, SettleMarketOrder, MatchLevel, MatchOrder
<1>4. ASSUME NEW a, NEW p, NEW o, NEW x, NEW n, CreateLimitOrder(a, p, o, x, n)
      PROVE  \E v : orders' = Put(orders, nonce, v)
  BY <1>4 DEF CreateLimitOrder, Place
<1>5. ASSUME NEW v, orders' = Put(orders, nonce, v), NEW h \in DOMAIN orders
      PROVE  h \in DOMAIN orders' /\ orders'[h] = orders[h]
  BY <1>2, <1>5 DEF Put
<1>6. ASSUME NEW a, NEW c, CancelLimitOrder(a, c), NEW h \in DOMAIN orders, IsFinished(orders[h])
      PROVE  h \in DOMAIN orders' /\ orders'[h] = orders[h]
  <2>1. orders' = [orders EXCEPT ![c].status = "Canceled"] /\ ~IsFinished(orders[c])
    BY <1>6 DEF CancelLimitOrder, CanCancel
  <2> QED BY <1>6, <2>1
<1>7. ASSUME \/ OnInitialize \/ OnFinalize \/ UNCHANGED vars
             \/ \E a, n : Issue(a, n)
             \/ \E a, b, t, n : Transfer(a, b, t, n)
             \/ \E a, b, q : CreateTradePair(a, b, q)
      PROVE  orders' = orders
  BY <1>7 DEF OnInitialize, OnFinalize, vars, Issue, Transfer, CreateTradePair, orderVars
<1>8. MarketOrders = {}
  BY DEF Regular
<1>9. \/ orders' = orders
      \/ \E v : orders' = Put(orders, nonce, v)
      \/ \E a, c : CancelLimitOrder(a, c)
  BY <1>3, <1>4, <1>7, <1>8 DEF Next
<1> QED BY <1>5, <1>6, <1>9

LEMMA FinishedStays ==
  ASSUME Regular, IInv, IInv', [Next]_vars, NEW h \in DOMAIN Committed, IsFinished(Committed[h])
  PROVE  h \in DOMAIN orders' /\ orders'[h] = Committed[h]
<1>1. CASE Quiet
  BY <1>1, OrdersWhenQuiet DEF Committed
<1>2. CASE ~Quiet
  <2>1. InProgress /\ Committed = saved.orders
    BY <1>2, PhasesOfCall DEF Committed
  <2>2. /\ DOMAIN orders = DOMAIN saved.orders \cup {call.order}
        /\ orders[h] = saved.orders[h]
    BY <2>1 DEF IInv, Placing
  <2>3. CASE orders' = orders \/ orders' = saved.orders
    BY <2>1, <2>2, <2>3
  <2>4. CASE InProgress' /\ saved' = saved
    BY <2>1, <2>4 DEF IInv, Placing
  <2> QED BY <2>1, <2>3, <2>4, OrdersOfCall
<1> QED BY <1>1, <1>2

(* order_match: a step that records a trade is one with the oldest order of*)
(* the best level.                                                         *)
LEMMA NewTradeIsMatch ==
  ASSUME Regular, IInv, [Next]_vars, DOMAIN trades' \ DOMAIN trades # {}
  PROVE  call.phase = "trade"
<1>1. trades' # trades
  OBVIOUS
<1>2. ASSUME Rollback, InProgress PROVE FALSE
  BY <1>2 DEF Rollback, IInv, Placing
<1>3. ~NeverEnds
  BY <1>1 DEF NeverEnds, tradeVars
<1>4. CASE MatchLevel
  <2>1. InProgress
    BY <1>4 DEF MatchLevel, InProgress
  <2> QED BY <1>1, <1>2, <1>3, <1>4, <2>1 DEF MatchLevel, FinishPlacing, tradeVars
<1>5. CASE MatchOrder
  BY <1>5 DEF MatchOrder
<1>6. ~PlaceMarketOrder /\ ~SettleMarketOrder
  BY DEF IInv, Calls, PlaceMarketOrder, SettleMarketOrder
<1>7. /\ OnInitialize \/ OnFinalize \/ UNCHANGED vars => trades' = trades
      /\ \A a, n : Issue(a, n) => trades' = trades
      /\ \A a, b, t, n : Transfer(a, b, t, n) => trades' = trades
      /\ \A a, b, q : CreateTradePair(a, b, q) => trades' = trades
      /\ \A a, p, o, x, n : CreateLimitOrder(a, p, o, x, n) => trades' = trades
      /\ \A a, c : CancelLimitOrder(a, c) => trades' = trades
  <2>1. OnInitialize \/ OnFinalize \/ UNCHANGED vars => trades' = trades
    BY DEF OnInitialize, OnFinalize, vars, tradeVars
  <2>2. \A a, n : Issue(a, n) => trades' = trades
    BY DEF Issue, tradeVars
  <2>3. \A a, b, t, n : Transfer(a, b, t, n) => trades' = trades
    BY DEF Transfer, tradeVars
  <2>4. \A a, b, q : CreateTradePair(a, b, q) => trades' = trades
    BY DEF CreateTradePair, tradeVars
  <2>5. \A a, p, o, x, n : CreateLimitOrder(a, p, o, x, n) => trades' = trades
    BY DEF CreateLimitOrder, Place, tradeVars
  <2>6. \A a, c : CancelLimitOrder(a, c) => trades' = trades
    BY DEF CancelLimitOrder, tradeVars
  <2> QED BY <2>1, <2>2, <2>3, <2>4, <2>5, <2>6
<1>8. MarketOrders = {}
  BY DEF Regular
<1> QED BY <1>1, <1>4, <1>5, <1>6, <1>7, <1>8 DEF Next, CallStep

LEMMA InvPriority ==
  ASSUME IInv, call.phase = "trade",
         NEW h \in LiveIn(call.pair) \ {Head(call.queue), call.order},
         orders[h].otype = orders[Head(call.queue)].otype
  PROVE  Before(Head(call.queue), h)
<1> DEFINE pair == call.pair
           list == lists[pair]
           otype == Opposite(Taker.otype)
           x == Best(list, otype)
           maker == Head(call.queue)
<1>1. InProgress
  BY DEF InProgress
<1>2. /\ Taking = {call.order} /\ Taker.otype \in OrderTypes
      /\ StorageOK(pairs, pairAt, orders, lists, nonce, {call.order})
      /\ pair \in DOMAIN lists
  BY <1>1, TheTaker
<1>3. /\ pair \in DOMAIN pairs /\ otype \in OrderTypes
      /\ list[x].orders = call.queue /\ call.queue # <<>>
  BY <1>2, OppositeType DEF StorageOK, IInv, Trading
<1>4. PICK buys, sells : Tidy(list, buys, sells) /\ Held(pairAt, pair, list, orders, buys)
  BY <1>2 DEF StorageOK, BookOK
<1>5. /\ Keyed(list, buys, sells)
      /\ \A p \in buys : p <= Best(list, "Buy")
      /\ \A p \in sells : Best(list, "Sell") <= p
  BY <1>4, KeysDiffer, BestPrice DEF Tidy
<1>6. /\ x \in buys \cup sells /\ (x \in buys <=> otype = "Buy")
      /\ list[x].orders \in Seq(Nat) /\ Queued(list, x, list[x].orders[1])
  BY <1>3, <1>4, BestLevel
<1>7. maker = list[x].orders[1]
  BY <1>3, <1>6
<1>8. orders[maker].price = x /\ (orders[maker].otype = "Buy" <=> x \in buys)
  BY <1>4, <1>6, <1>7 DEF Held
<1> HIDE DEF maker
<1>9. h \in DOMAIN orders /\ ~IsFinished(orders[h]) /\ PairIn(pairAt, orders[h]) = pair
      /\ h # call.order /\ h # maker
  <2>1. h \in LiveIn(pair)
    OBVIOUS
  <2> QED BY <1>2, <1>3, <2>1, LiveInPair DEF maker
<1>10. Queued(list, orders[h].price, h)
  BY <1>2, <1>9 DEF StorageOK, Complete
<1>11. orders[h].price \in buys <=> x \in buys
  BY <1>4, <1>8, <1>10 DEF Held, maker
<1>12. orders[h].price \in buys \cup sells
  BY <1>4, <1>5, <1>10 DEF Tidy, Queues, Keyed, Queued
<1>13. /\ orders[h].price \in Int /\ x \in Int
       /\ IF orders[maker].otype = "Buy" THEN orders[h].price <= x ELSE x <= orders[h].price
  <2>1. orders[h].price \in Int /\ x \in Int
    BY <1>5, <1>6, <1>12 DEF Keyed
  <2>2. CASE x \in buys
    BY <1>5, <1>6, <1>8, <1>11, <2>1, <2>2
  <2>3. CASE x \notin buys
    <3>1. otype = "Sell" /\ orders[h].price \in sells
      BY <1>3, <1>6, <1>11, <1>12, <2>3 DEF OrderTypes
    <3> QED BY <1>5, <1>8, <2>1, <2>3, <3>1
  <2> QED BY <2>2, <2>3, <2>1
<1>14. ASSUME orders[h].price = x
       PROVE  maker < h
  <2> DEFINE queue == list[x].orders
  <2>1. PICK i \in DOMAIN queue : queue[i] = h
    BY <1>10, <1>14 DEF Queued
  <2>2. queue \in Seq(Nat) /\ Ascending(queue)
    BY <1>4, <1>6, ItemTypes
  <2>3. queue[1] = maker /\ i # 1
    BY <1>7, <1>9, <2>1
  <2> HIDE DEF queue
  <2>4. 1 \in DOMAIN queue /\ 1 < i
    BY <2>1, <2>2, <2>3
  <2> QED BY <2>1, <2>2, <2>3, <2>4 DEF Ascending
<1> HIDE DEF x
<1> QED BY <1>8, <1>13, <1>14 DEF Before, maker

-----------------------------------------------------------------------------
(* While callers do what Regular says, the book between two extrinsics is  *)
(* the circular list linked_price_list documents, of any length.           *)
THEOREM BookStaysLinked ==
  ASSUME Regular
  PROVE  Spec => []BookIsLinked
<1>1. IInv => BookIsLinked
  BY InvLinked
<1> QED BY <1>1, InvariantHolds, PTL

(* While callers do what Regular says, it holds the unfinished orders,     *)
(* each where its price and its age put it.                                *)
THEOREM BookStaysComplete ==
  ASSUME Regular
  PROVE  Spec => []BookHoldsLiveOrders
<1>1. IInv => BookHoldsLiveOrders
  BY InvHolds
<1> QED BY <1>1, InvariantHolds, PTL

(* While callers do what Regular says (no market order, no seller at the   *)
(* largest price, and no cancellation of the only order of a level, which  *)
(* damages the list), order_match leaves no two orders that would trade    *)
(* with each other.                                                        *)
THEOREM BookStaysUncrossed ==
  ASSUME Regular
  PROVE  Spec => []Uncrossed
<1>1. IInv => Uncrossed
  BY InvUncrossed
<1> QED BY <1>1, InvariantHolds, PTL

(* While callers do what Regular says, what an extrinsic left filled or    *)
(* canceled stays as it is.                                                *)
THEOREM FinishedOrdersStay ==
  ASSUME Regular
  PROVE  Spec => FinishedForGood
<1> DEFINE Stays == \A h \in DOMAIN Committed : IsFinished(Committed[h]) =>
                      h \in DOMAIN orders' /\ orders'[h] = Committed[h]
<1>1. IInv /\ IInv' /\ [Next]_vars => [Stays]_vars
  BY FinishedStays
<1> QED BY <1>1, InvariantHolds, PTL DEF Spec, FinishedForGood

(* While callers do what Regular says, order_match trades with the oldest  *)
(* order of the best price.                                                *)
THEOREM TradesKeepPriority ==
  ASSUME Regular
  PROVE  Spec => PriceTimePriority
<1> DEFINE Fair == DOMAIN trades' \ DOMAIN trades # {} =>
                     LET maker == Head(call.queue) IN
                     \A h \in LiveIn(call.pair) \ {maker, call.order} :
                       orders[h].otype = orders[maker].otype => Before(maker, h)
<1>1. IInv /\ [Next]_vars => [Fair]_vars
  BY NewTradeIsMatch, InvPriority
<1> QED BY <1>1, InvariantHolds, PTL DEF Spec, PriceTimePriority

-----------------------------------------------------------------------------
(* The loops. *)

(* No extrinsic is in a loop that never ends. *)
NotLooping == call.phase # "looping"

(* A buy order at the largest price takes the sentinel above all levels for *)
(* the best sell level, and finds nothing to trade with there.             *)
AllBelowTop == \A o \in LimitOrders : o[3] # MaxAmount

TakesBelowTop == InProgress => Taker.price # MaxAmount

LEMMA LevelGoesAhead ==
  ASSUME IInv, TakesBelowTop, MatchLevel
  PROVE  GoesAhead
<1> DEFINE pair == call.pair
           list == lists[pair]
           otype == Opposite(Taker.otype)
           best == Best(list, otype)
<1>1. call.phase = "match" /\ InProgress
  BY DEF MatchLevel, InProgress
<1>2. /\ Taker \in OrderSet /\ Taker.otype \in OrderTypes
      /\ StorageOK(pairs, pairAt, orders, lists, nonce, {call.order})
      /\ pair \in DOMAIN lists /\ List(pair) = list
  BY <1>1, TheTaker
<1>3. PICK buys, sells : Tidy(list, buys, sells)
  BY <1>2 DEF StorageOK, BookOK
<1>4. /\ Taker.price \in Int /\ Bottom < Taker.price /\ Taker.price < Top
      /\ otype \in OrderTypes
  <2>1. Taker.price \in 1 .. MaxAmount /\ MaxAmount \in Nat /\ Taker.price # MaxAmount
    BY <1>1, <1>2, MathAssumption DEF OrderSet, TakesBelowTop
  <2> QED BY <1>2, <2>1, OppositeType DEF Bottom, Top
<1>5. AppendEnds(list, Taker.price, Taker.otype)
  BY <1>2, <1>3, <1>4, AppendAlwaysEnds
<1>6. ~NothingToMatch(Taker, best) => list[best].orders # <<>>
  <2>1. /\ best \in SideOfBook(buys, sells, otype) \cup {MatchEnd(otype)} /\ best # NoPrice
        /\ Keyed(list, buys, sells) /\ Queues(list, buys, sells)
    BY <1>3, <1>4, BestOfSide, KeysDiffer DEF Tidy
  <2>2. CASE best \in SideOfBook(buys, sells, otype)
    BY <2>1, <2>2 DEF Queues, SideOfBook
  <2>3. CASE best = MatchEnd(otype)
    <3>1. ~PriceMatched(Taker.price, Taker.otype, best)
      BY <1>2, <1>4, <2>1, <2>3 DEF PriceMatched, MatchEnd, Opposite, OrderTypes, Keyed
    <3> QED BY <2>1, <3>1 DEF NothingToMatch
  <2> QED BY <2>1, <2>2, <2>3
<1>7. \/ FinishPlacing
      \/ Rollback
      \/ /\ call' = [call EXCEPT !.phase = "trade", !.queue = list[best].orders]
         /\ UNCHANGED orderVars
  BY <1>2, <1>5, <1>6 DEF MatchLevel
<1>8. call.market = FALSE /\ call \in Calls
  BY DEF IInv, Calls
<1>9. CASE FinishPlacing
  BY <1>8, <1>9 DEF FinishPlacing, AfterPlacing, GoesAhead
<1>10. CASE Rollback
  BY <1>10 DEF Rollback, GoesAhead
<1>11. CASE /\ call' = [call EXCEPT !.phase = "trade", !.queue = list[best].orders]
            /\ UNCHANGED orderVars
  <2>1. call'.phase = "trade" /\ call'.order = call.order /\ orders' = orders
    BY <1>8, <1>11 DEF Calls, orderVars
  <2> QED BY <2>1 DEF GoesAhead, InProgress, Taker
<1> QED BY <1>7, <1>9, <1>10, <1>11

LEMMA LoopsGoAhead ==
  ASSUME Regular, AllBelowTop, IInv, NotLooping, TakesBelowTop, [Next]_vars
  PROVE  (NotLooping /\ TakesBelowTop)'
<1>1. ASSUME GoesAhead, InProgress PROVE (NotLooping /\ TakesBelowTop)'
  <2>1. CASE call' = Idle
    BY <2>1, IdleIsACall DEF NotLooping, TakesBelowTop, InProgress
  <2>2. CASE InProgress' /\ call'.phase # "looping" /\ Taker'.price = Taker.price
    <3>1. Taker'.price # MaxAmount
      BY <1>1, <2>2 DEF TakesBelowTop
    <3> QED BY <2>2, <3>1 DEF NotLooping, TakesBelowTop
  <2> QED BY <1>1, <2>1, <2>2 DEF GoesAhead
<1>2. CASE MatchLevel
  BY <1>1, <1>2, LevelGoesAhead DEF MatchLevel, InProgress
<1>3. CASE MatchOrder
  BY <1>1, <1>3, MatchOrderKeeps DEF MatchOrder, InProgress
<1>4. ASSUME NEW o \in LimitOrders, NEW p, CreateLimitOrder(o[1], p, o[2], o[3], o[4])
      PROVE  (NotLooping /\ TakesBelowTop)'
  <2> DEFINE new == NewOrder(o[1], p, o[2], o[3], o[4])
  <2>1. /\ orders' = Put(orders, nonce, new)
        /\ call'.phase = "match" /\ call'.order = nonce
    BY <1>4 DEF CreateLimitOrder, Place
  <2>2. new.price = o[3]
    BY DEF NewOrder
  <2> HIDE DEF new
  <2>3. orders'[nonce] = new
    BY <2>1 DEF Put
  <2>4. Taker'.price # MaxAmount
    BY <2>1, <2>2, <2>3 DEF Taker, AllBelowTop
  <2> QED BY <2>1, <2>4 DEF NotLooping, TakesBelowTop
<1>5. ASSUME \/ OnInitialize \/ OnFinalize \/ UNCHANGED vars
             \/ \E a, n : Issue(a, n)
             \/ \E a, b, t, n : Transfer(a, b, t, n)
             \/ \E a, b, q : CreateTradePair(a, b, q)
      PROVE  orders' = orders /\ call' = call
  BY <1>5 DEF OnInitialize, OnFinalize, vars, Issue, Transfer, CreateTradePair, orderVars, callVars
<1>6. ASSUME NEW a, NEW h, CancelLimitOrder(a, h)
      PROVE  call' = call /\ call.phase = "idle"
  BY <1>6 DEF CancelLimitOrder, ReadyForOrder, Ready, callVars
<1>7. CASE orders' = orders /\ call' = call
  BY <1>7 DEF NotLooping, TakesBelowTop, InProgress, Taker
<1>8. CASE call' = call /\ call.phase = "idle"
  BY <1>8 DEF NotLooping, TakesBelowTop, InProgress
<1>9. MarketOrders = {} /\ ~PlaceMarketOrder /\ ~SettleMarketOrder
  BY DEF Regular, IInv, Calls, PlaceMarketOrder, SettleMarketOrder
<1> QED BY <1>2, <1>3, <1>4, <1>5, <1>6, <1>7, <1>8, <1>9 DEF Next, CallStep

(* order_match and the loops of the price list come to an end in every     *)
(* extrinsic, however long the list and the queues of its levels are, as   *)
(* long as the list is what Regular keeps it and no order is placed at the *)
(* largest price (AllBelowTop). After a cancellation that empties a level, *)
(* which Regular excludes, they may not.                                   *)
THEOREM LoopsComeToAnEnd ==
  ASSUME Regular, AllBelowTop
  PROVE  Spec => []NotLooping
<1>1. Init => NotLooping /\ TakesBelowTop
  BY IdleIsACall DEF Init, NotLooping, TakesBelowTop, InProgress
<1>2. IInv /\ NotLooping /\ TakesBelowTop /\ [Next]_vars => (NotLooping /\ TakesBelowTop)'
  BY LoopsGoAhead
<1> QED BY <1>1, <1>2, InvariantHolds, PTL DEF Spec
-----------------------------------------------------------------------------
(* The steps, as the invariant allows them. *)

(* The order that meets the one being placed, as the invariant has it. *)
LEMMA TheMaker ==
  ASSUME IInv, call.phase = "trade"
  PROVE  LET hash == Head(call.queue) IN
         /\ hash \in DOMAIN orders /\ hash # call.order
         /\ orders[hash] \in OrderSet /\ ~IsFinished(orders[hash])
         /\ PairIn(pairAt, orders[hash]) = call.pair
         /\ orders[hash].otype = Opposite(Taker.otype)
<1> DEFINE t == call.order
           pair == call.pair
           list == lists[pair]
           otype == Opposite(Taker.otype)
           x == Best(list, otype)
           hash == Head(call.queue)
           maker == orders[hash]
<1>1. InProgress
  BY DEF InProgress
<1>2. /\ Taker.otype \in OrderTypes
      /\ StorageOK(pairs, pairAt, orders, lists, nonce, {t})
      /\ pair \in DOMAIN lists
      /\ \A q : ~Queued(list, q, t)
  BY <1>1, TheTaker
<1>3. x \in DOMAIN list /\ list[x].orders = call.queue /\ call.queue # <<>>
  BY DEF IInv, Trading
<1>4. otype \in OrderTypes
  BY <1>2, OppositeType
<1>5. PICK buys, sells : Tidy(list, buys, sells) /\ Held(pairAt, pair, list, orders, buys)
  BY <1>2 DEF StorageOK, BookOK
<1>6. /\ hash = list[x].orders[1] /\ Queued(list, x, hash)
      /\ (x \in buys <=> otype = "Buy")
  BY <1>3, <1>4, <1>5, BestLevel
<1>7. /\ hash \in DOMAIN orders /\ ~IsFinished(maker) /\ PairIn(pairAt, maker) = pair
      /\ (maker.otype = "Buy" <=> x \in buys)
  BY <1>5, <1>6 DEF Held
<1>8. maker \in OrderSet /\ maker.otype = otype
  <2>1. maker \in OrderSet
    BY <1>2, <1>7 DEF StorageOK, OrderOK
  <2>2. maker.otype \in OrderTypes
    BY <2>1 DEF OrderSet
  <2> QED BY <1>4, <1>6, <1>7, <2>1, <2>2 DEF OrderTypes
<1>9. hash # t
  BY <1>2, <1>6
<1> QED BY <1>7, <1>8, <1>9

(* Extrinsics of pallet_tokens and the hooks. *)
Beside ==
  /\ UNCHANGED <<pairs, pairAt, orderVars, tradeVars, callVars>>
  /\ M!OnInitialize \/ OnFinalize \/ UNCHANGED marketVars

(* Nothing but the extrinsic in progress knows of the step. *)
Waits ==
  /\ UNCHANGED <<marketVars, pairVars, orderVars, tradeVars, saved>>
  /\ InProgress'

(* One trade, with the amounts calculate_ex_amount finds. *)
Records(maker, ex, give, have) ==
  LET hash == Head(call.queue)
      taker1 == AfterTrade(Taker, give, have)
      maker1 == AfterTrade(maker, have, give)
      orders1 == [orders EXCEPT ![call.order] = taker1, ![hash] = maker1]
      swept == Sweep(ReduceAmount(List(call.pair), maker.price, have, give),
                     Opposite(Taker.otype), {h \in DOMAIN orders1 : IsFinished(orders1[h])})
  IN /\ ~(give > Taker.remainedSell) /\ ~(have > Taker.remainedBuy)
     /\ ~(have > maker.remainedSell) /\ ~(give > maker.remainedBuy)
     /\ orders' = orders1
     /\ lists' = [lists EXCEPT ![call.pair] = swept.list]
     /\ opened' = Opened(Opened(opened, call.order, taker1), hash, maker1)
     /\ closed' = Shut(Shut(closed, call.order, taker1), hash, maker1)
     /\ M!SetMarketData(call.pair, maker.price, ex.quote)
     /\ nonce' = nonce + 1
     /\ trades' = Put(trades, nonce, NewTrade(Taker, maker, ex))
     /\ tradeIndex' = IndexTrade(Taker, maker, hash)
     /\ UNCHANGED <<pairs, pairAt, pairList, saved>>
     /\ InProgress'

GiveOf(ex) == IF Taker.otype = "Buy" THEN ex.base ELSE ex.quote
HaveOf(ex) == IF Taker.otype = "Buy" THEN ex.quote ELSE ex.base
TheExchange == CalculateExAmount(orders[Head(call.queue)], Taker)

Trades ==
  Records(orders[Head(call.queue)], TheExchange, GiveOf(TheExchange), HaveOf(TheExchange))

LEMMA KindsOfStep ==
  ASSUME Regular, IInv, [Next]_vars
  PROVE  \/ Beside
         \/ \E a \in Accounts : \E base, quote \in DOMAIN owners : CreateTradePair(a, base, quote)
         \/ \E p \in DOMAIN pairs : \E o \in LimitOrders :
              CreateLimitOrder(o[1], p, o[2], o[3], o[4])
         \/ \E a \in Cancellers : \E h \in DOMAIN orders : CancelLimitOrder(a, h)
         \/ MatchLevel
         \/ MatchOrder
<1>1. CASE UNCHANGED vars
  BY <1>1 DEF vars, Beside, pairVars
<1>2. CASE CallStep
  <2>1. ~PlaceMarketOrder /\ ~SettleMarketOrder
    BY DEF IInv, Calls, PlaceMarketOrder, SettleMarketOrder
  <2> QED BY <1>2, <2>1 DEF CallStep
<1>3. CASE OnInitialize \/ OnFinalize
  BY <1>3 DEF OnInitialize, OnFinalize, Beside, pairVars
<1>4. ASSUME NEW a, NEW n, Issue(a, n) PROVE Beside
  BY <1>4 DEF Issue, Beside, pairVars
<1>5. ASSUME NEW a, NEW b, NEW t, NEW n, Transfer(a, b, t, n) PROVE Beside
  BY <1>5 DEF Transfer, Beside, pairVars
<1>6. MarketOrders = {}
  BY DEF Regular
<1> QED BY <1>1, <1>2, <1>3, <1>4, <1>5, <1>6 DEF Next

LEMMA CallWaits ==
  ASSUME IInv, NEW phase \in {"match", "trade", "looping"}, NEW c,
         call' = [c EXCEPT !.phase = phase], c \in Calls
  PROVE  InProgress'
BY DEF InProgress, Calls

LEMMA KindsOfLevel ==
  ASSUME IInv, MatchLevel
  PROVE  /\ InProgress
         /\ \/ /\ NothingToMatch(Taker, Best(List(call.pair), Opposite(Taker.otype)))
               /\ FinishPlacing
            \/ Rollback
            \/ Waits
<1>1. call \in Calls
  BY DEF IInv
<1>2. NeverEnds => Waits
  <2>1. NeverEnds => InProgress'
    BY <1>1, CallWaits DEF NeverEnds
  <2> QED BY <2>1 DEF NeverEnds, Waits
<1>3. ASSUME NEW queue, call' = [call EXCEPT !.phase = "trade", !.queue = queue]
      PROVE  InProgress'
  BY <1>1, <1>3 DEF InProgress, Calls
<1>4. call.phase = "match" /\ InProgress
  BY DEF MatchLevel, InProgress
<1> QED BY <1>2, <1>3, <1>4 DEF MatchLevel, Waits

LEMMA KindsOfMatch ==
  ASSUME IInv, MatchOrder
  PROVE  call.phase = "trade" /\ InProgress /\ (Rollback \/ Waits \/ Trades)
<1>1. call \in Calls /\ call.phase = "trade" /\ InProgress
  BY DEF IInv, MatchOrder, InProgress
<1>2. NeverEnds => Waits
  <2>1. NeverEnds => InProgress'
    BY <1>1, CallWaits DEF NeverEnds
  <2> QED BY <2>1 DEF NeverEnds, Waits
<1>3. CASE \/ call' = [call EXCEPT !.phase = "match", !.queue = <<>>]
           \/ call' = [call EXCEPT !.queue = Tail(@)]
  <2>1. InProgress'
    BY <1>1, <1>3 DEF InProgress, Calls
  <2> QED BY <1>1, <1>2, <2>1, Zenon
          DEF MatchOrder, Trades, Records, TheExchange, GiveOf, HaveOf, pairVars
<1>4. CASE ~(\/ call' = [call EXCEPT !.phase = "match", !.queue = <<>>]
             \/ call' = [call EXCEPT !.queue = Tail(@)])
  <2>1. Rollback \/ NeverEnds
    BY <1>4, Zenon DEF MatchOrder
  <2> QED BY <1>1, <1>2, <2>1
<1> QED BY <1>3, <1>4

LEMMA ExchangeAmounts ==
  ASSUME NEW maker \in OrderSet, NEW taker \in OrderSet
  PROVE  LET ex == CalculateExAmount(maker, taker) IN ex.base \in Nat /\ ex.quote \in Nat
<1> DEFINE ex == CalculateExAmount(maker, taker)
<1>1. /\ (IF taker.otype = "Buy" THEN ex.base ELSE ex.quote) \in Nat
      /\ (IF taker.otype = "Buy" THEN ex.quote ELSE ex.base) \in Nat
  BY ExchangeFills
<1> HIDE DEF ex
<1>2. ex.base \in Nat /\ ex.quote \in Nat
  BY <1>1
<1> QED BY <1>2 DEF ex

-----------------------------------------------------------------------------
(* The volume of a day, also of what an extrinsic in progress may undo. *)

MP == INSTANCE MarketDataProofs WITH Pairs <- Nat, TradePrices <- {}, TradeAmounts <- {},
                                     MaxBlockVolume <- 0

LEMMA AssumptionsOfMarketData ==
  /\ BlocksPerDay \in Nat \ {0} /\ MaxBlocks \in Nat /\ MaxAmount \in Nat
  /\ {} \subseteq 1 .. (MaxAmount - 1) /\ {} \subseteq Nat
  /\ NoPrice \notin Int
BY DaysAssumption, MathAssumption, NoPriceAssumption

(* MarketDataProofs speaks of the same operators as Trade. *)
LEMMA SameInitialize == M!OnInitialize <=> MP!OnInitialize
BY Zenon DEF M!OnInitialize, MP!OnInitialize, M!Aged, MP!Aged, M!Minus, MP!Minus,
   M!BucketOf, MP!BucketOf, M!GetOr, MP!GetOr, M!EmptyBucket, MP!EmptyBucket,
   M!DropFirst, MP!DropFirst

LEMMA SameFinalize == M!OnFinalize <=> MP!OnFinalize
BY Zenon DEF M!OnFinalize, MP!OnFinalize, M!Closed, MP!Closed, M!Plus, MP!Plus,
   M!BucketOf, MP!BucketOf, M!GetOr, MP!GetOr, M!EmptyBucket, MP!EmptyBucket,
   M!HighestOf, MP!HighestOf, M!LowestOf, MP!LowestOf, M!Range, MP!Range,
   M!Max, MP!Max, M!Min, MP!Min

LEMMA SameNewPair == \A p : M!NewPair(p) <=> MP!NewPair(p)
BY Zenon DEF M!NewPair, MP!NewPair, M!Put, MP!Put, M!EmptyStats, MP!EmptyStats,
   M!EmptyMap, MP!EmptyMap

LEMMA SameSetMarketData ==
  \A p, price, n : M!SetMarketData(p, price, n) <=> MP!SetMarketData(p, price, n)
BY Zenon DEF M!SetMarketData, MP!SetMarketData, M!Traded, MP!Traded, M!Plus, MP!Plus,
   M!BucketOf, MP!BucketOf, M!GetOr, MP!GetOr, M!EmptyBucket, MP!EmptyBucket,
   M!Put, MP!Put, M!Max, MP!Max, M!Min, MP!Min

LEMMA SameVolumes == M!VolumeIsOfLastDay <=> MP!VolumeIsOfLastDay
BY Zenon DEF M!VolumeIsOfLastDay, MP!VolumeIsOfLastDay, M!Closeds, MP!Closeds,
   M!BucketOf, MP!BucketOf, M!GetOr, MP!GetOr, M!EmptyBucket, MP!EmptyBucket,
   M!SumFunctionOnSet, MP!SumFunctionOnSet, M!FoldFunctionOnSet, MP!FoldFunctionOnSet,
   M!MapThenFoldSet, MP!MapThenFoldSet

VolumeInv ==
  /\ MP!Clock /\ MP!VolumesKept(stats)
  /\ InProgress => inBlock /\ MP!VolumesKept(saved.stats)

LEMMA VolumesOtherwise ==
  ASSUME UNCHANGED marketVars
  PROVE  /\ MP!Clock => MP!Clock'
         /\ MP!VolumesKept(stats) => MP!VolumesKept(stats)'
         /\ saved' = saved /\ MP!VolumesKept(saved.stats) => MP!VolumesKept(saved.stats)'
         /\ saved'.stats = stats /\ MP!VolumesKept(stats) => MP!VolumesKept(saved.stats)'
BY DEF marketVars, MP!Clock, MP!VolumesKept, MP!FirstOfDay, MP!LastClosed, MP!DayLength

(* A trade changes the statistics; of what is saved, nothing. *)
LEMMA VolumesOfSaved ==
  ASSUME saved' = saved, block' = block, inBlock' = inBlock, MP!VolumesKept(saved.stats)
  PROVE  MP!VolumesKept(saved.stats)'
BY DEF MP!VolumesKept, MP!FirstOfDay, MP!LastClosed, MP!DayLength

LEMMA VolumeStep ==
  ASSUME Regular, IInv, VolumeInv, [Next]_vars
  PROVE  VolumeInv'
<1>1. Idle.phase = "idle" /\ (call' = Idle => ~InProgress')
  BY IdleIsACall DEF InProgress
<1>2. MP!Clock /\ MP!VolumesKept(stats)
  BY DEF VolumeInv
<1>3. CASE Beside
  <2>1. UNCHANGED callVars
    BY <1>3 DEF Beside
  <2>2. InProgress' = InProgress /\ saved' = saved
    BY <2>1 DEF callVars, InProgress
  <2>3. CASE UNCHANGED marketVars
    <3>1. inBlock' = inBlock
      BY <2>3 DEF marketVars
    <3> QED BY <2>2, <2>3, <3>1, VolumesOtherwise DEF VolumeInv
  <2>4. CASE M!OnInitialize
    <3>1. ~inBlock /\ MP!OnInitialize
      BY <2>4, SameInitialize DEF M!OnInitialize
    <3>2. MP!Clock' /\ MP!VolumesKept(stats)'
      BY <1>2, <3>1, AssumptionsOfMarketData, MP!InitializeKeepsVolumes
    <3> QED BY <2>2, <3>1, <3>2 DEF VolumeInv
  <2>5. CASE OnFinalize
    <3>1. MP!OnFinalize /\ call.phase = "idle"
      BY <2>5, SameFinalize DEF OnFinalize
    <3>2. MP!Clock' /\ MP!VolumesKept(stats)'
      BY <1>2, <3>1, AssumptionsOfMarketData, MP!FinalizeKeepsVolumes
    <3> QED BY <2>2, <3>1, <3>2 DEF VolumeInv, InProgress
  <2> QED BY <1>3, <2>3, <2>4, <2>5 DEF Beside
<1>4. ASSUME NEW a, NEW b, NEW q, CreateTradePair(a, b, q)
      PROVE  VolumeInv'
  <2>1. MP!NewPair(nonce) /\ ~InProgress /\ call' = call
    BY <1>4, SameNewPair DEF CreateTradePair, Ready, InProgress, callVars
  <2>2. MP!Clock' /\ MP!VolumesKept(stats)'
    BY <1>2, <2>1, AssumptionsOfMarketData, MP!NewPairKeepsVolumes
  <2> QED BY <2>1, <2>2 DEF VolumeInv, InProgress
<1>5. ASSUME NEW a, NEW p, NEW o, NEW x, NEW n, CreateLimitOrder(a, p, o, x, n)
      PROVE  VolumeInv'
  <2>1. UNCHANGED marketVars /\ saved' = Storage /\ inBlock
    BY <1>5 DEF CreateLimitOrder, Place, ReadyForOrder, Ready
  <2>2. saved'.stats = stats /\ inBlock'
    BY <2>1 DEF Storage, marketVars
  <2> QED BY <1>2, <2>1, <2>2, VolumesOtherwise DEF VolumeInv
<1>6. ASSUME NEW a, NEW h, CancelLimitOrder(a, h)
      PROVE  VolumeInv'
  <2>1. UNCHANGED marketVars /\ ~InProgress /\ call' = call
    BY <1>6 DEF CancelLimitOrder, Ready, InProgress, callVars
  <2> QED BY <1>2, <2>1, VolumesOtherwise DEF VolumeInv, InProgress
<1>7. CASE InProgress /\ Rollback
  <2>1. stats' = saved.stats /\ block' = block /\ inBlock' = inBlock /\ call' = Idle
    BY <1>7 DEF Rollback
  <2>2. MP!Clock' /\ MP!VolumesKept(stats)'
    BY <1>2, <1>7, <2>1
       DEF VolumeInv, MP!Clock, MP!VolumesKept, MP!FirstOfDay, MP!LastClosed, MP!DayLength
  <2> QED BY <1>1, <2>1, <2>2 DEF VolumeInv
<1>8. CASE InProgress /\ Waits
  <2>1. UNCHANGED marketVars /\ saved' = saved /\ inBlock' = inBlock
    BY <1>8 DEF Waits, marketVars
  <2> QED BY <1>2, <1>8, <2>1, VolumesOtherwise DEF VolumeInv
<1>9. CASE InProgress /\ FinishPlacing
  <2>1. UNCHANGED marketVars /\ call' = Idle
    BY <1>9 DEF FinishPlacing, AfterPlacing, IInv, Calls
  <2> QED BY <1>1, <1>2, <2>1, VolumesOtherwise DEF VolumeInv
<1>10. CASE InProgress /\ call.phase = "trade" /\ Trades
  <2> DEFINE price == orders[Head(call.queue)].price
             n == TheExchange.quote
  <2>1. /\ MP!SetMarketData(call.pair, price, n) /\ saved' = saved
        /\ block' = block /\ inBlock' = inBlock
    BY <1>10, SameSetMarketData DEF Trades, Records, M!SetMarketData
  <2>2. n \in Nat
    BY <1>10, TheTaker, TheMaker, ExchangeAmounts DEF TheExchange
  <2> HIDE DEF price, n
  <2>3. inBlock /\ MP!VolumesKept(saved.stats)
    BY <1>10 DEF VolumeInv
  <2>4. MP!Clock' /\ MP!VolumesKept(stats)'
    BY <1>2, <2>1, <2>2, <2>3, AssumptionsOfMarketData, MP!TradeKeepsVolumes
  <2> QED BY <2>1, <2>3, <2>4, VolumesOfSaved DEF VolumeInv
<1> QED
  BY <1>3, <1>4, <1>5, <1>6, <1>7, <1>8, <1>9, <1>10, KindsOfStep, KindsOfLevel, KindsOfMatch

LEMMA VolumesInitially == Init => VolumeInv
<1> SUFFICES ASSUME Init PROVE VolumeInv
  OBVIOUS
<1>1. MP!Init
  BY DEF Init, M!Init, MP!Init, M!EmptyMap, MP!EmptyMap
<1>2. MP!Clock /\ MP!VolumesKept(stats)
  BY <1>1, AssumptionsOfMarketData, MP!VolumesAtFirst
<1>3. ~InProgress
  BY IdleIsACall DEF Init, InProgress
<1> QED BY <1>2, <1>3 DEF VolumeInv

(* While callers do what Regular says: on_initialize and on_finalize keep  *)
(* the volume of every pair that is traded between them, and undoing an    *)
(* extrinsic undoes what it added: the volume is that of the last day, in  *)
(* the arithmetic of its width.                                            *)
THEOREM VolumesFollowTheDay ==
  ASSUME Regular
  PROVE  Spec => []MP!VolumeInItsWidth
<1>1. Init => VolumeInv
  BY VolumesInitially
<1>2. IInv /\ VolumeInv /\ [Next]_vars => VolumeInv'
  BY VolumeStep
<1>3. VolumeInv => MP!VolumeInItsWidth
  BY AssumptionsOfMarketData, MP!VolumesKeptMeans DEF VolumeInv
<1> QED BY <1>1, <1>2, <1>3, InvariantHolds, PTL DEF Spec

(* The same, as long as what is traded in a day fits the width: the volume *)
(* is exactly the sum of the buckets of the last day.                      *)
THEOREM VolumesAreOfTheDay ==
  ASSUME Regular
  PROVE  Spec /\ []MP!DayFits => []VolumeIsOfLastDay
<1>1. Init => VolumeInv
  BY VolumesInitially
<1>2. IInv /\ VolumeInv /\ [Next]_vars => VolumeInv'
  BY VolumeStep
<1>3. VolumeInv /\ MP!DayFits => VolumeIsOfLastDay
  BY AssumptionsOfMarketData, SameVolumes, MP!VolumesThatFit DEF VolumeInv, VolumeIsOfLastDay
<1> QED BY <1>1, <1>2, <1>3, InvariantHolds, PTL DEF Spec
-----------------------------------------------------------------------------
(* The indexes of trades. *)

Vectors(m) == \A k \in DOMAIN m : m[k] \in Seq(Nat)
InVector(m, k) == ToSet(GetOr(m, k, <<>>))

TradesIn(ps, p, ts) == {n \in DOMAIN ts : ts[n].base = ps[p].base /\ ts[n].quote = ps[p].quote}
PartiesOf(t) == {t.buyer, t.seller}

(* A trade is one of two orders. *)
OfTwo(os, m, n) ==
  \E a, b \in DOMAIN os : a # b /\ \A h \in DOMAIN os : n \in InVector(m, h) <=> h \in {a, b}

TradesNamed(ps, ts, n) ==
  \A t \in DOMAIN ts :
    /\ t \in Nat /\ t < n
    /\ \E p \in DOMAIN ps : ts[t].base = ps[p].base /\ ts[t].quote = ps[p].quote

OwnersIndexed(ts, m) ==
  /\ Vectors(m)
  /\ \A a : InVector(m, a) = {t \in DOMAIN ts : a \in PartiesOf(ts[t])}
PairsIndexed(ps, ts, m) ==
  /\ Vectors(m) /\ DOMAIN m \subseteq DOMAIN ps
  /\ \A p \in DOMAIN ps :
       OldestFirst(GetOr(m, p, <<>>)) /\ InVector(m, p) = TradesIn(ps, p, ts)
OwnerPairsIndexed(ps, ts, m) ==
  /\ Vectors(m) /\ \A a, p : <<a, p>> \in DOMAIN m => p \in DOMAIN ps
  /\ \A a : \A p \in DOMAIN ps :
       InVector(m, <<a, p>>) = {t \in TradesIn(ps, p, ts) : a \in PartiesOf(ts[t])}
OrdersIndexed(os, ts, m) ==
  /\ Vectors(m) /\ DOMAIN m \subseteq DOMAIN os
  /\ \A h : InVector(m, h) \subseteq DOMAIN ts
  /\ \A t \in DOMAIN ts : OfTwo(os, m, t)

Indexed(ps, os, ts, ti, n) ==
  /\ TradesNamed(ps, ts, n)
  /\ OwnersIndexed(ts, ti.owner)
  /\ PairsIndexed(ps, ts, ti.pair)
  /\ OwnerPairsIndexed(ps, ts, ti.ownerPair)
  /\ OrdersIndexed(os, ts, ti.order)

LEMMA NothingInVector ==
  ASSUME NEW m, NEW k, k \notin DOMAIN m
  PROVE  InVector(m, k) = {}
BY DEF InVector, GetOr, ToSet

(* e is added at the end of the vector of k; of a and of b. *)
Grown(m, k, e, new) ==
  /\ Vectors(new)
  /\ DOMAIN new = DOMAIN m \cup {k}
  /\ GetOr(new, k, <<>>) = Append(GetOr(m, k, <<>>), e)
  /\ \A j : j # k => GetOr(new, j, <<>>) = GetOr(m, j, <<>>)
  /\ \A j : InVector(new, j) = InVector(m, j) \cup (IF j = k THEN {e} ELSE {})
GrownTwice(m, a, b, e, new) ==
  /\ Vectors(new) /\ DOMAIN new = DOMAIN m \cup {a, b}
  /\ \A j : InVector(new, j) = InVector(m, j) \cup (IF j \in {a, b} THEN {e} ELSE {})

LEMMA VectorGrows ==
  ASSUME NEW m, Vectors(m), NEW k, NEW e \in Nat
  PROVE  Grown(m, k, e, PushTo(m, k, e))
<1> DEFINE old == GetOr(m, k, <<>>)
           new == PushTo(m, k, e)
<1>1. old \in Seq(Nat)
  BY DEF GetOr, Vectors
<1>2. /\ DOMAIN new = DOMAIN m \cup {k} /\ new[k] = Append(old, e)
      /\ \A j \in DOMAIN m : j # k => new[j] = m[j]
  BY DEF PushTo, Put
<1> HIDE DEF old, new
<1>3. Append(old, e) \in Seq(Nat) /\ ToSet(Append(old, e)) = ToSet(old) \cup {e}
  <2>1. /\ Len(old) \in Nat /\ DOMAIN old = 1 .. Len(old)
        /\ DOMAIN Append(old, e) = 1 .. (Len(old) + 1)
        /\ \A i \in 1 .. Len(old) : Append(old, e)[i] = old[i]
        /\ Append(old, e)[Len(old) + 1] = e
    BY <1>1
  <2>2. 1 .. (Len(old) + 1) = 1 .. Len(old) \cup {Len(old) + 1}
    BY <2>1
  <2> QED BY <1>1, <2>1, <2>2 DEF ToSet
<1>4. GetOr(new, k, <<>>) = Append(old, e) /\ \A j : j # k => GetOr(new, j, <<>>) = GetOr(m, j, <<>>)
  BY <1>2 DEF GetOr
<1>5. Vectors(new)
  BY <1>2, <1>3 DEF Vectors
<1>6. \A j : InVector(new, j) = InVector(m, j) \cup (IF j = k THEN {e} ELSE {})
  BY <1>3, <1>4 DEF InVector, old
<1> QED BY <1>2, <1>4, <1>5, <1>6 DEF Grown, new, old

LEMMA VectorsGrow ==
  ASSUME NEW m, Vectors(m), NEW a, NEW b, NEW e \in Nat
  PROVE  GrownTwice(m, a, b, e, PushTo(PushTo(m, a, e), b, e))
<1> DEFINE mid == PushTo(m, a, e)
           new == PushTo(mid, b, e)
<1>1. /\ Vectors(mid) /\ DOMAIN mid = DOMAIN m \cup {a}
      /\ \A j : InVector(mid, j) = InVector(m, j) \cup (IF j = a THEN {e} ELSE {})
  <2>1. Grown(m, a, e, mid)
    BY VectorGrows
  <2> QED BY <2>1 DEF Grown
<1> HIDE DEF mid
<1>2. /\ Vectors(new) /\ DOMAIN new = DOMAIN mid \cup {b}
      /\ \A j : InVector(new, j) = InVector(mid, j) \cup (IF j = b THEN {e} ELSE {})
  <2>1. Grown(mid, b, e, new)
    BY <1>1, VectorGrows
  <2> QED BY <2>1 DEF Grown
<1> HIDE DEF new
<1>3. \A j : InVector(new, j) = InVector(m, j) \cup (IF j \in {a, b} THEN {e} ELSE {})
  <2> TAKE j
  <2>1. InVector(mid, j) = InVector(m, j) \cup (IF j = a THEN {e} ELSE {})
    BY <1>1
  <2>2. InVector(new, j) = InVector(mid, j) \cup (IF j = b THEN {e} ELSE {})
    BY <1>2
  <2> QED BY <2>1, <2>2
<1> QED BY <1>1, <1>2, <1>3 DEF GrownTwice, new, mid

LEMMA OldestFirstGrows ==
  ASSUME NEW q \in Seq(Nat), OldestFirst(q), NEW e \in Nat, \A i \in DOMAIN q : q[i] < e
  PROVE  OldestFirst(Append(q, e))
<1>1. /\ Len(q) \in Nat /\ Len(Append(q, e)) = Len(q) + 1
      /\ \A i \in 1 .. Len(q) : Append(q, e)[i] = q[i]
      /\ Append(q, e)[Len(q) + 1] = e
  OBVIOUS
<1> SUFFICES ASSUME NEW i \in 1 .. (Len(Append(q, e)) - 1)
             PROVE  Append(q, e)[i] < Append(q, e)[i + 1]
  BY DEF OldestFirst
<1>2. i \in 1 .. Len(q)
  BY <1>1
<1>3. CASE i = Len(q)
  BY <1>1, <1>2, <1>3
<1>4. CASE i # Len(q)
  <2>1. i \in 1 .. (Len(q) - 1) /\ i + 1 \in 1 .. Len(q)
    BY <1>1, <1>2, <1>4
  <2>2. q[i] < q[i + 1]
    BY <2>1 DEF OldestFirst
  <2> QED BY <1>1, <1>2, <2>1, <2>2
<1> QED BY <1>3, <1>4

LEMMA IndexedLater ==
  ASSUME NEW ps, NEW os, NEW ts, NEW ti, NEW n \in Nat, Indexed(ps, os, ts, ti, n),
         NEW n1 \in Nat, n <= n1
  PROVE  Indexed(ps, os, ts, ti, n1)
BY DEF Indexed, TradesNamed

(* Indexes do not look into orders, and no trade names an order to come.   *)
LEMMA IndexedOtherOrders ==
  ASSUME NEW ps, NEW os, NEW ts, NEW ti, NEW n, Indexed(ps, os, ts, ti, n),
         NEW os1, DOMAIN os \subseteq DOMAIN os1
  PROVE  Indexed(ps, os1, ts, ti, n)
<1>1. OrdersIndexed(os, ts, ti.order)
  BY DEF Indexed
<1>2. ASSUME NEW t \in DOMAIN ts PROVE OfTwo(os1, ti.order, t)
  <2>1. PICK a \in DOMAIN os, b \in DOMAIN os :
          a # b /\ \A h \in DOMAIN os : t \in InVector(ti.order, h) <=> h \in {a, b}
    BY <1>1 DEF OrdersIndexed, OfTwo
  <2>2. \A h \in DOMAIN os1 \ DOMAIN os : InVector(ti.order, h) = {}
    BY <1>1, NothingInVector DEF OrdersIndexed
  <2>3. \A h \in DOMAIN os1 : t \in InVector(ti.order, h) <=> h \in {a, b}
    BY <2>1, <2>2
  <2> QED BY <2>1, <2>3 DEF OfTwo
<1>3. OrdersIndexed(os1, ts, ti.order)
  BY <1>1, <1>2 DEF OrdersIndexed
<1> QED BY <1>3 DEF Indexed

(* create_trade_pair: there is no trade in the pair yet. *)
LEMMA IndexedNewPair ==
  ASSUME NEW ps, NEW at, NEW os, NEW ts, NEW ti, NEW n, Indexed(ps, os, ts, ti, n),
         PairsOK(ps, at, n), NEW p, p \notin DOMAIN ps, NEW b, NEW q, <<b, q>> \notin DOMAIN at
  PROVE  Indexed(Put(ps, p, [base |-> b, quote |-> q]), os, ts, ti, n)
<1> DEFINE new == Put(ps, p, [base |-> b, quote |-> q])
<1>1. /\ DOMAIN new = DOMAIN ps \cup {p} /\ new[p].base = b /\ new[p].quote = q
      /\ \A r \in DOMAIN ps : new[r] = ps[r]
  BY DEF Put
<1> HIDE DEF new
<1>2. \A r \in DOMAIN ps : TradesIn(new, r, ts) = TradesIn(ps, r, ts)
  BY <1>1 DEF TradesIn
<1>3. TradesIn(new, p, ts) = {}
  <2> SUFFICES ASSUME NEW t \in DOMAIN ts, ts[t].base = b, ts[t].quote = q PROVE FALSE
    BY <1>1 DEF TradesIn
  <2>1. PICK r \in DOMAIN ps : ts[t].base = ps[r].base /\ ts[t].quote = ps[r].quote
    BY DEF Indexed, TradesNamed
  <2>2. <<ps[r].base, ps[r].quote>> \in DOMAIN at
    BY DEF PairsOK
  <2> QED BY <2>1, <2>2
<1>4. TradesNamed(new, ts, n)
  BY <1>1 DEF Indexed, TradesNamed
<1>5. PairsIndexed(new, ts, ti.pair)
  <2>1. GetOr(ti.pair, p, <<>>) = <<>> /\ InVector(ti.pair, p) = {}
    BY NothingInVector DEF Indexed, PairsIndexed, GetOr
  <2>2. OldestFirst(<<>>)
    BY DEF OldestFirst
  <2> QED BY <1>1, <1>2, <1>3, <2>1, <2>2 DEF Indexed, PairsIndexed
<1>6. OwnerPairsIndexed(new, ts, ti.ownerPair)
  <2>1. \A a : InVector(ti.ownerPair, <<a, p>>) = {}
    BY NothingInVector DEF Indexed, OwnerPairsIndexed
  <2> QED BY <1>1, <1>2, <1>3, <2>1 DEF Indexed, OwnerPairsIndexed
<1> QED BY <1>4, <1>5, <1>6 DEF Indexed, new

(* The four implementations of add_trade. *)
LEMMA IndexedWhenTraded ==
  ASSUME NEW ps, NEW at, NEW os, NEW ts, NEW ti, NEW n \in Nat, Indexed(ps, os, ts, ti, n),
         PairsOK(ps, at, n), NEW p \in DOMAIN ps, NEW t \in DOMAIN os, NEW h \in DOMAIN os,
         t # h, NEW trade, trade.base = ps[p].base, trade.quote = ps[p].quote,
         NEW a, NEW b, PartiesOf(trade) = {a, b},
         NEW ti1, ti1.order = PushTo(PushTo(ti.order, t, n), h, n),
         ti1.owner = PushTo(PushTo(ti.owner, a, n), b, n),
         ti1.ownerPair = PushTo(PushTo(ti.ownerPair, <<a, p>>, n), <<b, p>>, n),
         ti1.pair = PushTo(ti.pair, p, n)
  PROVE  Indexed(ps, os, Put(ts, n, trade), ti1, n + 1)
<1> DEFINE new == Put(ts, n, trade)
<1>1. /\ DOMAIN new = DOMAIN ts \cup {n} /\ new[n] = trade
      /\ \A k \in DOMAIN ts : k \in Nat /\ k < n /\ k # n /\ new[k] = ts[k]
  BY DEF Put, Indexed, TradesNamed
<1> HIDE DEF new
<1>2. TradesNamed(ps, new, n + 1)
  BY <1>1 DEF Indexed, TradesNamed
<1>3. OwnersIndexed(new, ti1.owner)
  <2>1. /\ Vectors(ti.owner)
        /\ \A k : InVector(ti.owner, k) = {i \in DOMAIN ts : k \in PartiesOf(ts[i])}
    BY DEF Indexed, OwnersIndexed
  <2>2. /\ Vectors(ti1.owner)
        /\ \A k : InVector(ti1.owner, k)
                    = InVector(ti.owner, k) \cup (IF k \in {a, b} THEN {n} ELSE {})
    <3>1. GrownTwice(ti.owner, a, b, n, PushTo(PushTo(ti.owner, a, n), b, n))
      BY <2>1, VectorsGrow
    <3> QED BY <3>1 DEF GrownTwice
  <2>3. ASSUME NEW k
        PROVE  {i \in DOMAIN new : k \in PartiesOf(new[i])}
                 = {i \in DOMAIN ts : k \in PartiesOf(ts[i])} \cup (IF k \in {a, b} THEN {n} ELSE {})
    BY <1>1
  <2> QED BY <2>1, <2>2, <2>3 DEF OwnersIndexed
<1>4. \A r \in DOMAIN ps :
        TradesIn(ps, r, new) = TradesIn(ps, r, ts) \cup (IF r = p THEN {n} ELSE {})
  <2> TAKE r \in DOMAIN ps
  <2>1. ps[r].base = ps[p].base /\ ps[r].quote = ps[p].quote => r = p
    BY DEF PairsOK
  <2> QED BY <1>1, <2>1 DEF TradesIn
<1>5. PairsIndexed(ps, new, ti1.pair)
  <2> DEFINE q == GetOr(ti.pair, p, <<>>)
  <2>1. /\ Vectors(ti.pair) /\ DOMAIN ti.pair \subseteq DOMAIN ps
        /\ \A r \in DOMAIN ps :
             /\ OldestFirst(GetOr(ti.pair, r, <<>>))
             /\ InVector(ti.pair, r) = TradesIn(ps, r, ts)
    BY DEF Indexed, PairsIndexed
  <2>2. /\ Vectors(ti1.pair) /\ DOMAIN ti1.pair = DOMAIN ti.pair \cup {p}
        /\ GetOr(ti1.pair, p, <<>>) = Append(q, n)
        /\ \A r : r # p => GetOr(ti1.pair, r, <<>>) = GetOr(ti.pair, r, <<>>)
        /\ \A r : InVector(ti1.pair, r) = InVector(ti.pair, r) \cup (IF r = p THEN {n} ELSE {})
    <3>1. Grown(ti.pair, p, n, PushTo(ti.pair, p, n))
      BY <2>1, VectorGrows
    <3> QED BY <3>1 DEF Grown
  <2>3. q \in Seq(Nat) /\ OldestFirst(q)
    BY <2>1 DEF GetOr, Vectors
  <2>4. \A i \in DOMAIN q : q[i] < n
    <3>1. ToSet(q) \subseteq DOMAIN ts
      BY <2>1 DEF InVector, TradesIn
    <3> HIDE DEF q
    <3> QED BY <1>1, <3>1 DEF ToSet
  <2> HIDE DEF q
  <2>5. OldestFirst(Append(q, n))
    BY <2>3, <2>4, OldestFirstGrows
  <2>6. \A r \in DOMAIN ps : OldestFirst(GetOr(ti1.pair, r, <<>>))
    BY <2>1, <2>2, <2>5
  <2>7. \A r \in DOMAIN ps : InVector(ti1.pair, r) = TradesIn(ps, r, new)
    BY <1>4, <2>1, <2>2
  <2> QED BY <2>1, <2>2, <2>6, <2>7 DEF PairsIndexed
<1>6. OwnerPairsIndexed(ps, new, ti1.ownerPair)
  <2>1. /\ Vectors(ti.ownerPair) /\ \A k, r : <<k, r>> \in DOMAIN ti.ownerPair => r \in DOMAIN ps
        /\ \A k : \A r \in DOMAIN ps :
             InVector(ti.ownerPair, <<k, r>>) = {i \in TradesIn(ps, r, ts) : k \in PartiesOf(ts[i])}
    BY DEF Indexed, OwnerPairsIndexed
  <2>2. /\ Vectors(ti1.ownerPair) /\ DOMAIN ti1.ownerPair = DOMAIN ti.ownerPair \cup {<<a, p>>, <<b, p>>}
        /\ \A k : InVector(ti1.ownerPair, k)
                    = InVector(ti.ownerPair, k) \cup (IF k \in {<<a, p>>, <<b, p>>} THEN {n} ELSE {})
    <3> DEFINE x == <<a, p>>
               y == <<b, p>>
    <3> HIDE DEF x, y
    <3>1. GrownTwice(ti.ownerPair, x, y, n, PushTo(PushTo(ti.ownerPair, x, n), y, n))
      BY <2>1, VectorsGrow
    <3> QED BY <3>1 DEF GrownTwice, x, y
  <2>3. ASSUME NEW k, NEW r \in DOMAIN ps
        PROVE  {i \in TradesIn(ps, r, new) : k \in PartiesOf(new[i])}
                 = {i \in TradesIn(ps, r, ts) : k \in PartiesOf(ts[i])}
                   \cup (IF r = p /\ k \in {a, b} THEN {n} ELSE {})
    <3>1. TradesIn(ps, r, new) = TradesIn(ps, r, ts) \cup (IF r = p THEN {n} ELSE {})
      BY <1>4
    <3>2. TradesIn(ps, r, ts) \subseteq DOMAIN ts
      BY DEF TradesIn
    <3> QED BY <1>1, <3>1, <3>2
  <2>4. \A k, r : <<k, r>> \in {<<a, p>>, <<b, p>>} <=> r = p /\ k \in {a, b}
    OBVIOUS
  <2>5. ASSUME NEW k, NEW r \in DOMAIN ps
        PROVE  InVector(ti1.ownerPair, <<k, r>>)
                 = {i \in TradesIn(ps, r, new) : k \in PartiesOf(new[i])}
    <3>1. InVector(ti1.ownerPair, <<k, r>>)
            = InVector(ti.ownerPair, <<k, r>>) \cup (IF r = p /\ k \in {a, b} THEN {n} ELSE {})
      BY <2>2, <2>4
    <3>2. InVector(ti.ownerPair, <<k, r>>) = {i \in TradesIn(ps, r, ts) : k \in PartiesOf(ts[i])}
      BY <2>1
    <3> QED BY <2>3, <3>1, <3>2
  <2>6. \A k, r : <<k, r>> \in DOMAIN ti1.ownerPair => r \in DOMAIN ps
    BY <2>1, <2>2
  <2> QED BY <2>2, <2>5, <2>6 DEF OwnerPairsIndexed
<1>7. OrdersIndexed(os, new, ti1.order)
  <2>1. /\ Vectors(ti.order) /\ DOMAIN ti.order \subseteq DOMAIN os
        /\ \A k : InVector(ti.order, k) \subseteq DOMAIN ts
        /\ \A i \in DOMAIN ts : OfTwo(os, ti.order, i)
    BY DEF Indexed, OrdersIndexed
  <2>2. /\ Vectors(ti1.order) /\ DOMAIN ti1.order = DOMAIN ti.order \cup {t, h}
        /\ \A k : InVector(ti1.order, k)
                    = InVector(ti.order, k) \cup (IF k \in {t, h} THEN {n} ELSE {})
    <3>1. GrownTwice(ti.order, t, h, n, PushTo(PushTo(ti.order, t, n), h, n))
      BY <2>1, VectorsGrow
    <3> QED BY <3>1 DEF GrownTwice
  <2>3. \A k : InVector(ti1.order, k) \subseteq DOMAIN new
    BY <1>1, <2>1, <2>2
  <2>4. OfTwo(os, ti1.order, n)
    <3>1. \A k : n \notin InVector(ti.order, k)
      BY <1>1, <2>1
    <3>2. \A k \in DOMAIN os : n \in InVector(ti1.order, k) <=> k \in {t, h}
      BY <2>2, <3>1
    <3> QED BY <3>2 DEF OfTwo
  <2>5. ASSUME NEW i \in DOMAIN ts PROVE OfTwo(os, ti1.order, i)
    <3>1. \A k : i \in InVector(ti1.order, k) <=> i \in InVector(ti.order, k)
      BY <1>1, <2>2
    <3> QED BY <2>1, <3>1 DEF OfTwo
  <2> QED BY <1>1, <2>1, <2>2, <2>3, <2>4, <2>5 DEF OrdersIndexed
<1> QED BY <1>2, <1>3, <1>5, <1>6, <1>7 DEF Indexed, new

IndexInv ==
  /\ Indexed(pairs, orders, trades, tradeIndex, nonce)
  /\ InProgress =>
       Indexed(pairs, saved.orders, saved.trades, saved.tradeIndex, saved.nonce)

LEMMA IndexStep ==
  ASSUME Regular, IInv, IInv', IndexInv, [Next]_vars
  PROVE  IndexInv'
<1>1. Idle.phase = "idle" /\ (call' = Idle => ~InProgress')
  BY IdleIsACall DEF InProgress
<1>2. /\ Indexed(pairs, orders, trades, tradeIndex, nonce)
      /\ nonce \in Nat /\ PairsOK(pairs, pairAt, nonce)
  BY DEF IndexInv, IInv, StorageOK
<1>3. CASE Beside
  BY <1>3 DEF Beside, orderVars, tradeVars, callVars, IndexInv, InProgress
<1>4. ASSUME NEW a, NEW b, NEW q, CreateTradePair(a, b, q)
      PROVE  IndexInv'
  <2>1. /\ <<b, q>> \notin DOMAIN pairAt /\ pairs' = Put(pairs, nonce, [base |-> b, quote |-> q])
        /\ nonce' = nonce + 1 /\ ~InProgress /\ call' = call
        /\ orders' = orders /\ trades' = trades /\ tradeIndex' = tradeIndex
    BY <1>4 DEF CreateTradePair, Ready, InProgress, callVars, tradeVars
  <2>2. nonce \notin DOMAIN pairs
    <3>1. \A x \in DOMAIN pairs : x \in Nat /\ x < nonce
      BY ONLY <1>2 DEF PairsOK
    <3>2. nonce \in Nat
      BY <1>2
    <3> QED BY ONLY <3>1, <3>2
  <2>3. Indexed(pairs', orders, trades, tradeIndex, nonce)
    BY <1>2, <2>1, <2>2, IndexedNewPair
  <2>4. Indexed(pairs', orders, trades, tradeIndex, nonce')
    BY <1>2, <2>1, <2>3, IndexedLater
  <2> QED BY <2>1, <2>4 DEF IndexInv, InProgress
<1>5. ASSUME NEW a, NEW p, NEW o, NEW x, NEW n, CreateLimitOrder(a, p, o, x, n)
      PROVE  IndexInv'
  <2>1. /\ \E v : orders' = Put(orders, nonce, v)
        /\ nonce' = nonce + 1 /\ saved' = Storage
        /\ pairs' = pairs /\ trades' = trades /\ tradeIndex' = tradeIndex
    BY <1>5 DEF CreateLimitOrder, Place, tradeVars, pairVars
  <2>2. DOMAIN orders \subseteq DOMAIN orders'
    BY <2>1 DEF Put
  <2> DEFINE os == orders'
  <2>3. Indexed(pairs, os, trades, tradeIndex, nonce)
    BY <1>2, <2>2, IndexedOtherOrders
  <2>4. Indexed(pairs, os, trades, tradeIndex, nonce + 1)
    BY <1>2, <2>3, IndexedLater
  <2>5. /\ saved'.orders = orders /\ saved'.trades = trades /\ saved'.tradeIndex = tradeIndex
        /\ saved'.nonce = nonce
    BY <2>1 DEF Storage
  <2> QED BY <1>2, <2>1, <2>4, <2>5 DEF IndexInv
<1>6. ASSUME NEW a, NEW h, CancelLimitOrder(a, h)
      PROVE  IndexInv'
  <2>1. /\ orders' = [orders EXCEPT ![h].status = "Canceled"] /\ ~InProgress /\ call' = call
        /\ nonce' = nonce /\ pairs' = pairs /\ trades' = trades /\ tradeIndex' = tradeIndex
    BY <1>6 DEF CancelLimitOrder, Ready, InProgress, callVars, tradeVars, pairVars
  <2>2. DOMAIN orders' = DOMAIN orders
    BY <2>1
  <2> DEFINE os == orders'
  <2>3. Indexed(pairs, os, trades, tradeIndex, nonce)
    BY <1>2, <2>2, IndexedOtherOrders
  <2> QED BY <2>1, <2>3 DEF IndexInv, InProgress
<1>7. CASE InProgress /\ Rollback
  BY <1>1, <1>7 DEF Rollback, IndexInv, pairVars
<1>8. CASE InProgress /\ Waits
  BY <1>8 DEF Waits, IndexInv, pairVars, orderVars, tradeVars
<1>9. CASE InProgress /\ FinishPlacing
  <2>1. call' = Idle /\ UNCHANGED <<pairs, orders, trades, tradeIndex, nonce>>
    BY <1>9 DEF FinishPlacing, AfterPlacing, IInv, Calls, pairVars, tradeVars
  <2> QED BY <1>1, <2>1 DEF IndexInv
<1>10. CASE InProgress /\ call.phase = "trade" /\ Trades
  <2> DEFINE hash == Head(call.queue)
             maker == orders[hash]
             p == call.pair
             trade == NewTrade(Taker, maker, TheExchange)
             ti1 == IndexTrade(Taker, maker, hash)
  <2>1. /\ trades' = Put(trades, nonce, trade) /\ tradeIndex' = ti1 /\ nonce' = nonce + 1
        /\ pairs' = pairs /\ saved' = saved /\ DOMAIN orders' = DOMAIN orders
    BY <1>10 DEF Trades, Records
  <2>2. hash \in DOMAIN orders /\ hash # call.order
    BY <1>10, TheMaker
  <2>3. call.order \in DOMAIN orders /\ p \in DOMAIN lists
    BY <1>10, TheTaker
  <2>4. p \in DOMAIN pairs
    BY <2>3 DEF IInv, StorageOK
  <2>5. /\ trade.base = pairs[p].base /\ trade.quote = pairs[p].quote
        /\ PartiesOf(trade) = {Taker.owner, maker.owner}
    BY DEF NewTrade, PartiesOf
  <2>6. /\ ti1.order = PushTo(PushTo(tradeIndex.order, call.order, nonce), hash, nonce)
        /\ ti1.owner = PushTo(PushTo(tradeIndex.owner, Taker.owner, nonce), maker.owner, nonce)
        /\ ti1.ownerPair = PushTo(PushTo(tradeIndex.ownerPair, <<Taker.owner, p>>, nonce),
                                  <<maker.owner, p>>, nonce)
        /\ ti1.pair = PushTo(tradeIndex.pair, p, nonce)
    BY DEF IndexTrade
  <2> HIDE DEF hash, maker, p, trade, ti1
  <2>7. Indexed(pairs, orders, Put(trades, nonce, trade), ti1, nonce + 1)
    BY <1>2, <2>2, <2>3, <2>4, <2>5, <2>6, IndexedWhenTraded
  <2> DEFINE os == orders'
             ts == Put(trades, nonce, trade)
  <2> HIDE DEF ts
  <2>8. DOMAIN orders \subseteq DOMAIN os
    BY <2>1
  <2> HIDE DEF os
  <2>9. Indexed(pairs, os, ts, ti1, nonce + 1)
    BY <2>7, <2>8, IndexedOtherOrders DEF ts
  <2>10. Indexed(pairs, saved.orders, saved.trades, saved.tradeIndex, saved.nonce)
    BY <1>10 DEF IndexInv
  <2> QED BY <2>1, <2>9, <2>10 DEF IndexInv, os, ts
<1> QED
  BY <1>3, <1>4, <1>5, <1>6, <1>7, <1>8, <1>9, <1>10, KindsOfStep, KindsOfLevel, KindsOfMatch

(* What the property asks of the indexes. *)
LEMMA IndexedMeans ==
  ASSUME IndexInv
  PROVE  TradesIndexed
<1>1. \A a \in Accounts :
        ToSet(GetOr(tradeIndex.owner, a, <<>>)) =
          {n \in DOMAIN trades : a \in {trades[n].buyer, trades[n].seller}}
  BY DEF IndexInv, Indexed, OwnersIndexed, InVector, PartiesOf
<1>2. ASSUME NEW p \in DOMAIN pairs
      PROVE  LET mine == {n \in DOMAIN trades : trades[n].base = pairs[p].base
                                                /\ trades[n].quote = pairs[p].quote}
                 queue == GetOr(tradeIndex.pair, p, <<>>)
             IN /\ OldestFirst(queue) /\ ToSet(queue) = mine
                /\ \A a \in Accounts :
                     ToSet(GetOr(tradeIndex.ownerPair, <<a, p>>, <<>>)) =
                       {n \in mine : a \in {trades[n].buyer, trades[n].seller}}
  <2>1. /\ OldestFirst(GetOr(tradeIndex.pair, p, <<>>))
        /\ InVector(tradeIndex.pair, p) = TradesIn(pairs, p, trades)
    BY DEF IndexInv, Indexed, PairsIndexed
  <2>2. \A a : InVector(tradeIndex.ownerPair, <<a, p>>)
                 = {n \in TradesIn(pairs, p, trades) : a \in PartiesOf(trades[n])}
    BY DEF IndexInv, Indexed, OwnerPairsIndexed
  <2> QED BY <2>1, <2>2 DEF InVector, TradesIn, PartiesOf
<1>3. ASSUME NEW n \in DOMAIN trades
      PROVE  Cardinality({h \in DOMAIN orders : n \in TradesOf(h)}) = 2
  <2>1. PICK a \in DOMAIN orders, b \in DOMAIN orders :
          a # b /\ \A h \in DOMAIN orders : n \in InVector(tradeIndex.order, h) <=> h \in {a, b}
    BY DEF IndexInv, Indexed, OrdersIndexed, OfTwo
  <2>2. {h \in DOMAIN orders : n \in TradesOf(h)} = {a, b}
    BY <2>1 DEF TradesOf, InVector
  <2>3. Cardinality({a, b}) = 2
    <3>1. IsFiniteSet({a}) /\ Cardinality({a}) = 1
      BY FS_Singleton
    <3>2. b \notin {a} /\ {a} \cup {b} = {a, b}
      BY <2>1
    <3>3. Cardinality({a} \cup {b}) = Cardinality({a}) + 1
      BY <3>1, <3>2, FS_AddElement
    <3> QED BY <3>1, <3>2, <3>3
  <2> QED BY <2>2, <2>3
<1> QED BY <1>1, <1>2, <1>3 DEF TradesIndexed

LEMMA IndexInitially == Init => IndexInv
<1> SUFFICES ASSUME Init PROVE IndexInv
  OBVIOUS
<1>1. /\ DOMAIN trades = {} /\ DOMAIN pairs = {} /\ ~InProgress
      /\ DOMAIN tradeIndex.order = {} /\ DOMAIN tradeIndex.owner = {}
      /\ DOMAIN tradeIndex.ownerPair = {} /\ DOMAIN tradeIndex.pair = {}
  BY IdleIsACall DEF Init, EmptyMap, InProgress
<1>2. \A m, k : DOMAIN m = {} => Vectors(m) /\ InVector(m, k) = {}
  BY NothingInVector DEF Vectors
<1> QED BY <1>1, <1>2
        DEF IndexInv, Indexed, TradesNamed, OwnersIndexed, PairsIndexed, OwnerPairsIndexed,
            OrdersIndexed

(* While callers do what Regular says: the indexes of trades name every    *)
(* trade for its parties, for its pair and for its two orders, and nothing *)
(* else; an extrinsic that is undone leaves them as they were.             *)
THEOREM IndexesNameTrades ==
  ASSUME Regular
  PROVE  Spec => []TradesIndexed
<1>1. Init => IndexInv
  BY IndexInitially
<1>2. IInv /\ IInv' /\ IndexInv /\ [Next]_vars => IndexInv'
  BY IndexStep
<1> QED BY <1>1, <1>2, IndexedMeans, InvariantHolds, PTL DEF Spec

-----------------------------------------------------------------------------
(* The vectors of opened and closed orders. *)

NewerFirst == {r \in Nat \X Nat : r[1] > r[2]}
Unequal == {r \in Nat \X Nat : r[1] # r[2]}

LEMMA CountOfVector ==
  ASSUME NEW q \in Seq(Nat), Pairwise(q, Unequal)
  PROVE  IsFiniteSet(ToSet(q)) /\ Cardinality(ToSet(q)) = Len(q)
<1>1. Len(q) \in Nat /\ DOMAIN q = 1 .. Len(q) /\ q \in [1 .. Len(q) -> Nat]
  OBVIOUS
<1>2. ToSet(q) = {q[i] : i \in 1 .. Len(q)}
  BY <1>1 DEF ToSet
<1>3. ASSUME NEW i \in 1 .. Len(q), NEW j \in 1 .. Len(q), q[i] = q[j]
      PROVE  i = j
  <2>1. <<q[i], q[j]>> \notin Unequal /\ <<q[j], q[i]>> \notin Unequal
    BY <1>3 DEF Unequal
  <2>2. ~(i < j) /\ ~(j < i)
    BY <1>1, <2>1 DEF Pairwise
  <2> QED BY <1>1, <2>2
<1>4. q \in Bijection(1 .. Len(q), ToSet(q))
  BY <1>1, <1>2, <1>3 DEF Bijection, Injection, Surjection, IsInjective
<1>5. ExistsBijection(1 .. Len(q), ToSet(q))
  BY <1>4 DEF ExistsBijection
<1> QED BY <1>1, <1>5, FS_CountingElements, FS_NatBijection

(* What AddOrder makes of a vector: the oldest order goes at the cap. *)
Added(q, e, cap) ==
  LET new == <<e>> \o q
  IN IF Contains(q, e) THEN q ELSE IF Len(new) = cap THEN Front(new) ELSE new

LEMMA Preceded ==
  ASSUME NEW q \in Seq(Nat), NEW R, Pairwise(q, R), NEW e \in Nat,
         \A i \in DOMAIN q : <<e, q[i]>> \in R
  PROVE  LET new == <<e>> \o q IN
         /\ new \in Seq(Nat) /\ Len(new) = Len(q) + 1
         /\ Pairwise(new, R) /\ ToSet(new) = ToSet(q) \cup {e}
<1> DEFINE new == <<e>> \o q
<1>1. /\ Len(q) \in Nat /\ DOMAIN q = 1 .. Len(q)
      /\ \A i \in DOMAIN q : q[i] \in Nat
  OBVIOUS
<1>2. /\ new \in Seq(Nat) /\ Len(new) = Len(q) + 1 /\ DOMAIN new = 1 .. (Len(q) + 1)
      /\ new[1] = e /\ \A i \in 1 .. Len(q) : new[i + 1] = q[i]
  OBVIOUS
<1> HIDE DEF new
<1>3. /\ 1 \in DOMAIN new /\ \A i \in DOMAIN q : i + 1 \in DOMAIN new /\ new[i + 1] = q[i]
      /\ \A i \in DOMAIN new : i = 1 \/ (i - 1 \in DOMAIN q /\ new[i] = q[i - 1])
  <2>1. PICK n \in Nat : n = Len(q)
    BY <1>1
  <2>2. DOMAIN q = 1 .. n /\ DOMAIN new = 1 .. (n + 1) /\ \A i \in 1 .. n : new[i + 1] = q[i]
    BY <1>1, <1>2, <2>1
  <2>3. /\ 1 \in 1 .. (n + 1) /\ \A i \in 1 .. n : i + 1 \in 1 .. (n + 1)
        /\ \A i \in 1 .. (n + 1) : i = 1 \/ (i - 1 \in 1 .. n /\ (i - 1) + 1 = i)
    OBVIOUS
  <2> QED BY ONLY <2>2, <2>3
<1>4. Pairwise(new, R)
  <2>1. ASSUME NEW i \in DOMAIN new, NEW j \in DOMAIN new, i < j
        PROVE  <<new[i], new[j]>> \in R
    <3>0. i \in 1 .. (Len(q) + 1) /\ j \in 1 .. (Len(q) + 1)
      BY <1>2
    <3>1. j - 1 \in DOMAIN q /\ new[j] = q[j - 1]
      BY <1>1, <1>3, <2>1, <3>0
    <3>2. CASE i = 1
      BY <1>2, <3>1, <3>2
    <3>3. CASE i # 1
      <4>1. i - 1 \in DOMAIN q /\ new[i] = q[i - 1] /\ i - 1 < j - 1
        BY <1>1, <1>3, <2>1, <3>0, <3>3
      <4> QED BY <3>1, <4>1 DEF Pairwise
    <3> QED BY <3>2, <3>3
  <2> QED BY <2>1 DEF Pairwise
<1>5. ToSet(new) = ToSet(q) \cup {e}
  <2>1. \A i \in DOMAIN new : new[i] = e \/ \E j \in DOMAIN q : new[i] = q[j]
    BY <1>2, <1>3
  <2>2. \A i \in DOMAIN new : new[i] \in ToSet(q) \cup {e}
    BY <2>1 DEF ToSet
  <2>3. ASSUME NEW i \in DOMAIN q PROVE q[i] \in ToSet(new)
    <3>1. i + 1 \in DOMAIN new /\ new[i + 1] = q[i]
      BY <1>3
    <3> QED BY ONLY <3>1 DEF ToSet
  <2>4. e \in ToSet(new)
    BY <1>2, <1>3 DEF ToSet
  <2>5. ToSet(new) \subseteq ToSet(q) \cup {e}
    BY <2>2 DEF ToSet
  <2>6. ToSet(q) \subseteq ToSet(new)
    BY <2>3 DEF ToSet
  <2> QED BY <2>4, <2>5, <2>6
<1> QED BY <1>2, <1>4, <1>5 DEF new

(* All of a vector but its last. *)
LEMMA ButTheLast ==
  ASSUME NEW q \in Seq(Nat), NEW R, Pairwise(q, R), Len(q) > 0
  PROVE  /\ Front(q) \in Seq(Nat) /\ Len(Front(q)) = Len(q) - 1 /\ Pairwise(Front(q), R)
         /\ ToSet(q) = ToSet(Front(q)) \cup {Last(q)} /\ Last(q) \in Nat
         /\ \A g \in ToSet(Front(q)) : <<g, Last(q)>> \in R
<1> DEFINE front == Front(q)
<1>1. PICK n \in Nat : n + 1 = Len(q)
  <2>1. Len(q) \in Nat /\ Len(q) - 1 \in Nat /\ (Len(q) - 1) + 1 = Len(q)
    OBVIOUS
  <2> QED BY <2>1
<1>2. /\ DOMAIN q = 1 .. (n + 1) /\ \A i \in 1 .. (n + 1) : q[i] \in Nat
      /\ Last(q) = q[n + 1]
  BY <1>1 DEF Last
<1>3. /\ front \in Seq(Nat) /\ Len(front) = n /\ DOMAIN front = 1 .. n
      /\ \A i \in 1 .. n : front[i] = q[i]
  BY <1>1, <1>2 DEF Front
<1> HIDE DEF front
<1>4. \A i \in 1 .. n : i \in 1 .. (n + 1) /\ i < n + 1
  BY <1>1
<1>5. n + 1 \in 1 .. (n + 1) /\ \A i \in 1 .. (n + 1) : i = n + 1 \/ i \in 1 .. n
  BY <1>1
<1>6. Pairwise(front, R)
  BY <1>2, <1>3, <1>4 DEF Pairwise
<1>7. ToSet(q) = ToSet(front) \cup {q[n + 1]}
  BY <1>2, <1>3, <1>4, <1>5 DEF ToSet
<1>8. \A i \in 1 .. n : <<q[i], q[n + 1]>> \in R
  BY <1>2, <1>4, <1>5 DEF Pairwise
<1>9. \A g \in ToSet(front) : <<g, q[n + 1]>> \in R
  BY <1>3, <1>8 DEF ToSet
<1> QED BY <1>1, <1>2, <1>3, <1>5, <1>6, <1>7, <1>9 DEF front

LEMMA AddedInOrder ==
  ASSUME NEW q \in Seq(Nat), NEW R, Pairwise(q, R), NEW e \in Nat,
         NEW cap \in Nat \ {0}, Len(q) < cap,
         e \notin ToSet(q) => \A i \in DOMAIN q : <<e, q[i]>> \in R
  PROVE  LET q1 == Added(q, e, cap) IN
         /\ q1 \in Seq(Nat) /\ Pairwise(q1, R) /\ Len(q1) < cap
         /\ ToSet(q1) \subseteq ToSet(q) \cup {e}
         /\ e \in ToSet(q) \/ Len(q) + 1 < cap => ToSet(q1) = ToSet(q) \cup {e}
<1> DEFINE new == <<e>> \o q
           q1 == Added(q, e, cap)
<1>1. Len(q) \in Nat /\ (Contains(q, e) <=> e \in ToSet(q))
  BY DEF Contains, ToSet
<1>2. CASE e \in ToSet(q)
  BY <1>1, <1>2 DEF Added
<1>3. CASE e \notin ToSet(q)
  <2>1. /\ new \in Seq(Nat) /\ Len(new) = Len(q) + 1
        /\ Pairwise(new, R) /\ ToSet(new) = ToSet(q) \cup {e}
    BY <1>3, Preceded
  <2>2. q1 = IF Len(new) = cap THEN Front(new) ELSE new
    BY <1>1, <1>3 DEF Added
  <2> HIDE DEF new, q1
  <2>3. CASE Len(new) # cap
    BY <1>1, <2>1, <2>2, <2>3 DEF q1
  <2>4. CASE Len(new) = cap
    <3>1. Len(new) > 0
      BY <1>1, <2>1
    <3>2. /\ Front(new) \in Seq(Nat) /\ Len(Front(new)) = Len(new) - 1 /\ Pairwise(Front(new), R)
          /\ ToSet(new) = ToSet(Front(new)) \cup {Last(new)}
      BY <2>1, <3>1, ButTheLast
    <3>3. q1 = Front(new) /\ Len(q1) = Len(q)
      BY <1>1, <2>1, <2>2, <2>4, <3>2
    <3> QED BY <1>1, <1>3, <2>1, <2>4, <3>2, <3>3 DEF q1
  <2> QED BY <2>3, <2>4
<1> QED BY <1>2, <1>3

(* A vector of some of the orders in S, below its cap: of all of them, as  *)
(* long as these are fewer than the cap.                                   *)
Some(q, S, cap) ==
  /\ q \in Seq(Nat) /\ Pairwise(q, Unequal) /\ Len(q) < cap
  /\ ToSet(q) \subseteq S /\ IsFiniteSet(S)
Shows(q, S, cap) == Some(q, S, cap) /\ (Cardinality(S) < cap => ToSet(q) = S)

(* A vector of the newest: an order of S that it lacks was pushed out by   *)
(* newer ones of P, the orders there have been.                            *)
Newer(P, h) == {g \in P : h < g}
PushedOut(h, q, P, cap) ==
  /\ \A g \in ToSet(q) : h < g
  /\ Cardinality(Newer(P, h)) >= cap - 1
ShowsNewest(q, S, P, cap) ==
  /\ Some(q, S, cap) /\ Pairwise(q, NewerFirst)
  /\ S \subseteq P /\ P \subseteq Nat /\ IsFiniteSet(P)
  /\ \A h \in S \ ToSet(q) : PushedOut(h, q, P, cap)

LEMMA AddShows ==
  ASSUME NEW q, NEW S, NEW cap \in Nat \ {0}, Shows(q, S, cap), NEW e \in Nat
  PROVE  Shows(Added(q, e, cap), S \cup {e}, cap)
<1> DEFINE q1 == Added(q, e, cap)
           S1 == S \cup {e}
<1>1. /\ q \in Seq(Nat) /\ Pairwise(q, Unequal) /\ Len(q) < cap
      /\ ToSet(q) \subseteq S /\ IsFiniteSet(S)
      /\ Cardinality(S) < cap => ToSet(q) = S
  BY DEF Shows, Some
<1>2. e \notin ToSet(q) => \A i \in DOMAIN q : <<e, q[i]>> \in Unequal
  BY <1>1 DEF ToSet, Unequal
<1>3. /\ q1 \in Seq(Nat) /\ Pairwise(q1, Unequal) /\ Len(q1) < cap
      /\ ToSet(q1) \subseteq ToSet(q) \cup {e}
      /\ e \in ToSet(q) \/ Len(q) + 1 < cap => ToSet(q1) = ToSet(q) \cup {e}
  BY <1>1, <1>2, AddedInOrder
<1> HIDE DEF q1
<1>4. /\ IsFiniteSet(S1) /\ Cardinality(S1) \in Nat /\ Cardinality(S) \in Nat
      /\ Cardinality(S) <= Cardinality(S1)
  <2>1. IsFiniteSet(S1)
    BY <1>1, FS_AddElement
  <2>2. S \subseteq S1
    OBVIOUS
  <2> HIDE DEF S1
  <2> QED BY <1>1, <2>1, <2>2, FS_Subset, FS_CardinalityType
<1>5. ASSUME Cardinality(S1) < cap PROVE ToSet(q1) = S1
  <2>1. ToSet(q) = S
    BY <1>1, <1>4, <1>5
  <2>2. CASE e \in ToSet(q)
    BY <1>3, <2>1, <2>2
  <2>3. CASE e \notin ToSet(q)
    <3>1. IsFiniteSet(ToSet(q)) /\ Cardinality(ToSet(q)) = Len(q)
      BY <1>1, CountOfVector
    <3>2. Cardinality(S1) = Len(q) + 1
      BY <2>1, <2>3, <3>1, FS_AddElement
    <3> QED BY <1>3, <1>5, <2>1, <3>2
  <2> QED BY <2>2, <2>3
<1>6. ToSet(q1) \subseteq S1
  BY <1>1, <1>3
<1> QED BY <1>3, <1>4, <1>5, <1>6 DEF Shows, Some, q1

LEMMA NewerCounted ==
  ASSUME NEW P, NEW P1, P \subseteq P1, IsFiniteSet(P1), NEW h, NEW m \in Int,
         Cardinality(Newer(P, h)) >= m
  PROVE  Cardinality(Newer(P1, h)) >= m
<1>1. Newer(P, h) \subseteq Newer(P1, h) /\ Newer(P1, h) \subseteq P1
  BY DEF Newer
<1>2. IsFiniteSet(Newer(P1, h)) /\ IsFiniteSet(Newer(P, h))
  BY <1>1, FS_Subset
<1>3. Cardinality(Newer(P, h)) <= Cardinality(Newer(P1, h))
  BY <1>1, <1>2, FS_Subset
<1>4. Cardinality(Newer(P, h)) \in Nat /\ Cardinality(Newer(P1, h)) \in Nat
  BY <1>2, FS_CardinalityType
<1> QED BY <1>3, <1>4

(* The new order is newer than all before it; at the cap it pushes out the *)
(* oldest of the vector.                                                   *)
LEMMA AddNewest ==
  ASSUME NEW q, NEW S, NEW P, NEW cap \in Nat \ {0}, ShowsNewest(q, S, P, cap),
         NEW n \in Nat, \A g \in P : g < n
  PROVE  ShowsNewest(Added(q, n, cap), S \cup {n}, P \cup {n}, cap)
<1> DEFINE new == <<n>> \o q
           q1 == Added(q, n, cap)
           S1 == S \cup {n}
           P1 == P \cup {n}
<1>1. /\ q \in Seq(Nat) /\ Pairwise(q, NewerFirst) /\ Pairwise(q, Unequal) /\ Len(q) < cap
      /\ ToSet(q) \subseteq S /\ IsFiniteSet(S)
      /\ S \subseteq P /\ P \subseteq Nat /\ IsFiniteSet(P) /\ Len(q) \in Nat
      /\ \A h \in S \ ToSet(q) : PushedOut(h, q, P, cap)
  BY DEF ShowsNewest, Some
<1>2. n \notin P /\ n \notin ToSet(q) /\ \A g \in ToSet(q) : g < n
  <2>1. ~(n < n)
    OBVIOUS
  <2>2. ToSet(q) \subseteq P
    BY <1>1
  <2> QED BY ONLY <2>1, <2>2, \A g \in P : g < n
<1>3. /\ \A i \in DOMAIN q : <<n, q[i]>> \in NewerFirst
      /\ \A i \in DOMAIN q : <<n, q[i]>> \in Unequal
  <2>1. \A i \in DOMAIN q : q[i] \in ToSet(q) /\ q[i] \in Nat
    BY <1>1 DEF ToSet
  <2> QED BY <1>2, <2>1 DEF NewerFirst, Unequal
<1>4. /\ q1 \in Seq(Nat) /\ Pairwise(q1, NewerFirst) /\ Len(q1) < cap
      /\ ToSet(q1) \subseteq ToSet(q) \cup {n}
      /\ Len(q) + 1 < cap => ToSet(q1) = ToSet(q) \cup {n}
  BY <1>1, <1>3, AddedInOrder
<1>5. Pairwise(q1, Unequal)
  BY <1>1, <1>3, AddedInOrder
<1>6. /\ new \in Seq(Nat) /\ Len(new) = Len(q) + 1
      /\ Pairwise(new, NewerFirst) /\ ToSet(new) = ToSet(q) \cup {n}
  BY <1>1, <1>3, Preceded
<1>7. Len(q) + 1 = cap => q1 = Front(new)
  <2>1. ~Contains(q, n)
    BY <1>2 DEF Contains, ToSet
  <2>2. q1 = IF Len(new) = cap THEN Front(new) ELSE new
    BY <2>1 DEF Added
  <2> QED BY <1>6, <2>2
<1>8. /\ IsFiniteSet(S1) /\ IsFiniteSet(P1) /\ S1 \subseteq P1 /\ P1 \subseteq Nat
      /\ P \subseteq P1 /\ ToSet(q1) \subseteq S1
  <2>1. IsFiniteSet(S1) /\ IsFiniteSet(P1)
    BY <1>1, FS_AddElement
  <2> QED BY <1>1, <1>4, <2>1
<1> HIDE DEF new, q1
<1>9. ASSUME NEW h \in S \ ToSet(q), h \notin ToSet(q1)
      PROVE  PushedOut(h, q1, P1, cap)
  <2>1. (\A g \in ToSet(q) : h < g) /\ Cardinality(Newer(P, h)) >= cap - 1
    BY <1>1 DEF PushedOut
  <2>2. h < n
    BY <1>1
  <2>3. \A g \in ToSet(q1) : h < g
    BY <1>4, <2>1, <2>2
  <2>4. Cardinality(Newer(P1, h)) >= cap - 1
    <3>1. cap - 1 \in Int
      OBVIOUS
    <3> HIDE DEF P1
    <3> QED BY <1>8, <2>1, <3>1, NewerCounted
  <2> QED BY <2>3, <2>4 DEF PushedOut
<1>10. ASSUME NEW h \in ToSet(q) \cup {n}, h \notin ToSet(q1)
       PROVE  PushedOut(h, q1, P1, cap)
  <2>1. Len(q) + 1 = cap
    BY <1>1, <1>4, <1>10
  <2>2. /\ q1 = Front(new) /\ Len(new) > 0
    BY <1>1, <1>6, <1>7, <2>1
  <2>3. /\ Len(q1) = Len(new) - 1 /\ ToSet(new) = ToSet(q1) \cup {Last(new)} /\ Last(new) \in Nat
        /\ \A g \in ToSet(q1) : <<g, Last(new)>> \in NewerFirst
    BY <1>6, <2>2, ButTheLast
  <2>4. h = Last(new)
    BY <1>6, <1>10, <2>3
  <2>5. \A g \in ToSet(q1) : h < g
    BY <2>3, <2>4 DEF NewerFirst
  <2>6. Cardinality(ToSet(q1)) = cap - 1 /\ IsFiniteSet(ToSet(q1))
    BY <1>1, <1>4, <1>5, <1>6, <2>1, <2>3, CountOfVector
  <2>7. ToSet(q1) \subseteq Newer(P1, h)
    BY <1>8, <2>5 DEF Newer
  <2>8. /\ IsFiniteSet(Newer(P1, h)) /\ Cardinality(ToSet(q1)) <= Cardinality(Newer(P1, h))
    <3>1. Newer(P1, h) \subseteq P1
      BY DEF Newer
    <3>2. IsFiniteSet(Newer(P1, h))
      BY <1>8, <3>1, FS_Subset
    <3> QED BY <2>7, <3>2, FS_Subset
  <2>9. Cardinality(Newer(P1, h)) \in Nat
    BY <2>8, FS_CardinalityType
  <2> QED BY <2>5, <2>6, <2>8, <2>9 DEF PushedOut
<1>11. \A h \in S1 \ ToSet(q1) : PushedOut(h, q1, P1, cap)
  BY <1>9, <1>10
<1> HIDE DEF S1, P1
<1>12. ShowsNewest(q1, S1, P1, cap)
  BY <1>4, <1>5, <1>8, <1>11 DEF ShowsNewest, Some
<1> QED BY <1>12 DEF q1, S1, P1

LEMMA DropNewest ==
  ASSUME NEW q, NEW S, NEW P, NEW cap \in Nat \ {0}, ShowsNewest(q, S, P, cap), NEW e
  PROVE  ShowsNewest(Without(q, e), S \ {e}, P, cap)
<1> DEFINE left == Without(q, e)
<1>1. /\ q \in Seq(Nat) /\ Pairwise(q, NewerFirst) /\ Pairwise(q, Unequal) /\ Len(q) < cap
      /\ ToSet(q) \subseteq S /\ IsFiniteSet(S) /\ S \subseteq P
      /\ \A h \in S \ ToSet(q) : PushedOut(h, q, P, cap)
  BY DEF ShowsNewest, Some
<1>2. /\ left \in Seq(Nat) /\ Pairwise(left, Unequal)
      /\ \A h : (\E k \in DOMAIN left : left[k] = h) <=> (\E k \in DOMAIN q : q[k] = h) /\ h # e
  BY <1>1, WithoutKeepsOrder
<1>3. Pairwise(left, NewerFirst)
  BY <1>1, WithoutKeepsOrder
<1> HIDE DEF left
<1>4. ToSet(left) = ToSet(q) \ {e}
  BY <1>2 DEF ToSet
<1>5. Len(left) <= Len(q)
  <2>1. IsFiniteSet(ToSet(q)) /\ Cardinality(ToSet(q)) = Len(q)
    BY <1>1, CountOfVector
  <2>2. Cardinality(ToSet(left)) = Len(left)
    BY <1>2, CountOfVector
  <2>3. ToSet(left) \subseteq ToSet(q)
    BY <1>4
  <2> QED BY <2>1, <2>2, <2>3, FS_Subset
<1>6. Len(left) < cap
  BY <1>1, <1>2, <1>5
<1>7. \A h \in (S \ {e}) \ ToSet(left) : PushedOut(h, left, P, cap)
  BY <1>1, <1>4 DEF PushedOut
<1>8. IsFiniteSet(S \ {e}) /\ S \ {e} \subseteq P /\ ToSet(left) \subseteq S \ {e}
  BY <1>1, <1>4, FS_Subset
<1> QED BY <1>2, <1>3, <1>6, <1>7, <1>8 DEF ShowsNewest, Some, left

(* The orders an account has placed in a pair, and both its vectors.       *)
PlacedBy(ps, os, a, p) ==
  {h \in DOMAIN os : os[h].owner = a /\ os[h].base = ps[p].base /\ os[h].quote = ps[p].quote}
UnfinishedOf(os, P) == {h \in P : ~IsFinished(os[h])}
VectorOf(m, k) == GetOr(m, k, <<>>)

ShowsBoth(os, P, open, shut) ==
  /\ ShowsNewest(open, UnfinishedOf(os, P), P, OpenedOrdersArrayCap)
  /\ Shows(shut, P \ UnfinishedOf(os, P), ClosedOrdersArrayCap)

VectorsShow(ps, os, op, cl) ==
  /\ DOMAIN op \subseteq Accounts \X DOMAIN ps /\ DOMAIN cl \subseteq Accounts \X DOMAIN ps
  /\ \A a \in Accounts : \A p \in DOMAIN ps :
       ShowsBoth(os, PlacedBy(ps, os, a, p), VectorOf(op, <<a, p>>), VectorOf(cl, <<a, p>>))

(* Of all vectors, that of k has become q. *)
Becomes(m, m1, k, q) ==
  /\ DOMAIN m1 \subseteq DOMAIN m \cup {k}
  /\ VectorOf(m1, k) = q
  /\ \A j : j # k => VectorOf(m1, j) = VectorOf(m, j)

LEMMA VectorOfPair ==
  ASSUME NEW m, NEW a, NEW p, NEW h, NEW cap
  PROVE  /\ Becomes(m, AddOrder(m, a, p, h, cap), <<a, p>>, Added(VectorOf(m, <<a, p>>), h, cap))
         /\ Becomes(m, DropOrder(m, a, p, h), <<a, p>>, Without(VectorOf(m, <<a, p>>), h))
BY DEF Becomes, VectorOf, AddOrder, DropOrder, Added, GetOr, Put

(* An order is written: it stays unfinished, or it moves from one vector to*)
(* the other, where it may be already.                                     *)
Finishes(o, o1) ==
  /\ o1.owner = o.owner /\ o1.base = o.base /\ o1.quote = o.quote
  /\ IsFinished(o) => IsFinished(o1)

MovedWhenDone(done, op, cl, op1, cl1, o, pair, h) ==
  /\ op1 = IF done THEN DropOrder(op, o.owner, pair, h) ELSE op
  /\ cl1 = IF done THEN Close(cl, o.owner, pair, h) ELSE cl

LEMMA VectorsWhenWritten ==
  ASSUME NEW ps, NEW at, NEW n, PairsOK(ps, at, n), NEW os, NEW op, NEW cl,
         VectorsShow(ps, os, op, cl), NEW h \in DOMAIN os, h \in Nat, os[h].owner \in Accounts,
         NEW pair \in DOMAIN ps, os[h].base = ps[pair].base, os[h].quote = ps[pair].quote,
         NEW os1, DOMAIN os1 = DOMAIN os, \A i \in DOMAIN os : i # h => os1[i] = os[i],
         Finishes(os[h], os1[h]), NEW op1, NEW cl1,
         MovedWhenDone(IsFinished(os1[h]), op, cl, op1, cl1, os[h], pair, h)
  PROVE  VectorsShow(ps, os1, op1, cl1)
<1> DEFINE o == os[h]
           k == <<o.owner, pair>>
           done == IsFinished(os1[h])
<1>1. \A a, p : PlacedBy(ps, os1, a, p) = PlacedBy(ps, os, a, p)
  <2>1. \A i \in DOMAIN os :
          os1[i].owner = os[i].owner /\ os1[i].base = os[i].base /\ os1[i].quote = os[i].quote
    BY DEF Finishes
  <2> QED BY <2>1 DEF PlacedBy
<1>2. /\ DOMAIN op1 \subseteq Accounts \X DOMAIN ps /\ DOMAIN cl1 \subseteq Accounts \X DOMAIN ps
      /\ \A j : j # k => VectorOf(op1, j) = VectorOf(op, j) /\ VectorOf(cl1, j) = VectorOf(cl, j)
      /\ VectorOf(op1, k) = IF done THEN Without(VectorOf(op, k), h) ELSE VectorOf(op, k)
      /\ VectorOf(cl1, k) = IF done THEN Added(VectorOf(cl, k), h, ClosedOrdersArrayCap)
                            ELSE VectorOf(cl, k)
  <2>1. k \in Accounts \X DOMAIN ps
    OBVIOUS
  <2>2. DOMAIN op \subseteq Accounts \X DOMAIN ps /\ DOMAIN cl \subseteq Accounts \X DOMAIN ps
    BY DEF VectorsShow
  <2>3. Becomes(op, op1, k, IF done THEN Without(VectorOf(op, k), h) ELSE VectorOf(op, k))
    <3>1. Becomes(op, DropOrder(op, o.owner, pair, h), k, Without(VectorOf(op, k), h))
      BY VectorOfPair
    <3> QED BY <3>1 DEF MovedWhenDone, Becomes
  <2>4. Becomes(cl, cl1, k, IF done THEN Added(VectorOf(cl, k), h, ClosedOrdersArrayCap)
                                    ELSE VectorOf(cl, k))
    <3>1. Becomes(cl, Close(cl, o.owner, pair, h), k, Added(VectorOf(cl, k), h, ClosedOrdersArrayCap))
      BY VectorOfPair DEF Close
    <3> QED BY <3>1 DEF MovedWhenDone, Becomes
  <2> HIDE DEF done, k
  <2> QED BY <2>1, <2>2, <2>3, <2>4 DEF Becomes
<1> HIDE DEF done
<1>3. ASSUME NEW a \in Accounts, NEW p \in DOMAIN ps
      PROVE  ShowsBoth(os1, PlacedBy(ps, os1, a, p), VectorOf(op1, <<a, p>>), VectorOf(cl1, <<a, p>>))
  <2> DEFINE P == PlacedBy(ps, os, a, p)
             open == VectorOf(op, <<a, p>>)
             shut == VectorOf(cl, <<a, p>>)
  <2>1. ShowsBoth(os, P, open, shut) /\ PlacedBy(ps, os1, a, p) = P
    BY <1>1 DEF VectorsShow
  <2>2. P \subseteq DOMAIN os /\ (h \in P => a = o.owner /\ p = pair) /\ h \in PlacedBy(ps, os, o.owner, pair)
    <3>1. ps[p].base = ps[pair].base /\ ps[p].quote = ps[pair].quote => p = pair
      BY DEF PairsOK
    <3> QED BY <3>1 DEF PlacedBy
  <2>3. CASE <<a, p>> # k
    <3>1. h \notin P
      BY <2>2, <2>3
    <3>2. UnfinishedOf(os1, P) = UnfinishedOf(os, P)
      BY <2>2, <3>1 DEF UnfinishedOf
    <3>3. VectorOf(op1, <<a, p>>) = open /\ VectorOf(cl1, <<a, p>>) = shut
      BY <1>2, <2>3
    <3> HIDE DEF P, open, shut
    <3> QED BY <2>1, <3>2, <3>3 DEF ShowsBoth
  <2>4. CASE <<a, p>> = k /\ ~done
    <3>1. UnfinishedOf(os1, P) = UnfinishedOf(os, P)
      BY <2>2, <2>4 DEF UnfinishedOf, Finishes, done
    <3>2. VectorOf(op1, <<a, p>>) = open /\ VectorOf(cl1, <<a, p>>) = shut
      BY <1>2, <2>4
    <3> HIDE DEF P, open, shut
    <3> QED BY <2>1, <3>1, <3>2 DEF ShowsBoth
  <2>5. CASE <<a, p>> = k /\ done
    <3>0. h \in P
      BY <2>2, <2>5
    <3>1. UnfinishedOf(os1, P) = UnfinishedOf(os, P) \ {h}
      BY <2>2, <2>5 DEF UnfinishedOf, done
    <3>2. P \ UnfinishedOf(os1, P) = (P \ UnfinishedOf(os, P)) \cup {h}
      BY <3>0, <3>1
    <3>3. /\ VectorOf(op1, <<a, p>>) = Without(open, h)
          /\ VectorOf(cl1, <<a, p>>) = Added(shut, h, ClosedOrdersArrayCap)
      BY <1>2, <2>5
    <3> HIDE DEF P, open, shut
    <3>4. /\ ShowsNewest(open, UnfinishedOf(os, P), P, OpenedOrdersArrayCap)
          /\ Shows(shut, P \ UnfinishedOf(os, P), ClosedOrdersArrayCap)
      BY <2>1 DEF ShowsBoth
    <3>5. ShowsNewest(Without(open, h), UnfinishedOf(os, P) \ {h}, P, OpenedOrdersArrayCap)
      BY <3>4, TradeAssumption, DropNewest
    <3>6. Shows(Added(shut, h, ClosedOrdersArrayCap), (P \ UnfinishedOf(os, P)) \cup {h},
                ClosedOrdersArrayCap)
      BY <3>4, TradeAssumption, AddShows
    <3> QED BY <2>1, <3>1, <3>2, <3>3, <3>5, <3>6 DEF ShowsBoth
  <2> QED BY <2>3, <2>4, <2>5
<1> QED BY <1>2, <1>3 DEF VectorsShow

(* do_create_limit_order: the new order is the newest one. *)
LEMMA VectorsWhenPlaced ==
  ASSUME NEW ps, NEW at, NEW n \in Nat, PairsOK(ps, at, n), NEW os, NEW op, NEW cl,
         VectorsShow(ps, os, op, cl), \A i \in DOMAIN os : i \in Nat /\ i < n,
         NEW o, ~IsFinished(o), o.owner \in Accounts,
         NEW pair \in DOMAIN ps, o.base = ps[pair].base, o.quote = ps[pair].quote
  PROVE  VectorsShow(ps, Put(os, n, o), Open(op, o.owner, pair, n), cl)
<1> DEFINE os1 == Put(os, n, o)
           op1 == Open(op, o.owner, pair, n)
           k == <<o.owner, pair>>
<1>1. /\ DOMAIN os1 = DOMAIN os \cup {n} /\ os1[n] = o /\ n \notin DOMAIN os
      /\ \A i \in DOMAIN os : os1[i] = os[i]
  BY DEF Put
<1>2. /\ DOMAIN op1 \subseteq Accounts \X DOMAIN ps
      /\ \A j : j # k => VectorOf(op1, j) = VectorOf(op, j)
      /\ VectorOf(op1, k) = Added(VectorOf(op, k), n, OpenedOrdersArrayCap)
  <2>1. k \in Accounts \X DOMAIN ps
    OBVIOUS
  <2>2. DOMAIN op \subseteq Accounts \X DOMAIN ps
    BY DEF VectorsShow
  <2>3. Becomes(op, op1, k, Added(VectorOf(op, k), n, OpenedOrdersArrayCap))
    BY VectorOfPair DEF Open
  <2> HIDE DEF k, op1
  <2> QED BY <2>1, <2>2, <2>3 DEF Becomes
<1> HIDE DEF os1, op1
<1>3. ASSUME NEW a \in Accounts, NEW p \in DOMAIN ps
      PROVE  ShowsBoth(os1, PlacedBy(ps, os1, a, p), VectorOf(op1, <<a, p>>), VectorOf(cl, <<a, p>>))
  <2> DEFINE P == PlacedBy(ps, os, a, p)
             P1 == PlacedBy(ps, os1, a, p)
             open == VectorOf(op, <<a, p>>)
             shut == VectorOf(cl, <<a, p>>)
  <2>1. ShowsBoth(os, P, open, shut)
    BY DEF VectorsShow
  <2>2. P1 = IF <<a, p>> = k THEN P \cup {n} ELSE P
    <3>1. ps[p].base = ps[pair].base /\ ps[p].quote = ps[pair].quote => p = pair
      BY DEF PairsOK
    <3>2. \A i \in DOMAIN os : i \in P1 <=> i \in P
      BY <1>1 DEF PlacedBy
    <3>3. n \in P1 <=> <<a, p>> = k
      BY <1>1, <3>1 DEF PlacedBy
    <3>4. P1 \subseteq DOMAIN os \cup {n} /\ P \subseteq DOMAIN os
      BY <1>1 DEF PlacedBy
    <3> HIDE DEF P, P1
    <3> QED BY <1>1, <3>2, <3>3, <3>4
  <2>3. P \subseteq DOMAIN os
    BY DEF PlacedBy
  <2> HIDE DEF P, P1, open, shut
  <2>4. CASE <<a, p>> # k
    <3>1. UnfinishedOf(os1, P) = UnfinishedOf(os, P)
      BY <1>1, <2>3 DEF UnfinishedOf
    <3> QED BY <1>2, <2>1, <2>2, <2>4, <3>1 DEF ShowsBoth, P1, open, shut
  <2>5. CASE <<a, p>> = k
    <3>1. UnfinishedOf(os1, P1) = UnfinishedOf(os, P) \cup {n}
      BY <1>1, <2>2, <2>3, <2>5 DEF UnfinishedOf
    <3>2. P1 \ UnfinishedOf(os1, P1) = P \ UnfinishedOf(os, P)
      BY <1>1, <2>2, <2>3, <2>5, <3>1
    <3>3. /\ ShowsNewest(open, UnfinishedOf(os, P), P, OpenedOrdersArrayCap)
          /\ Shows(shut, P \ UnfinishedOf(os, P), ClosedOrdersArrayCap)
      BY <2>1 DEF ShowsBoth
    <3>4. \A g \in P : g < n
      BY <2>3
    <3>5. ShowsNewest(Added(open, n, OpenedOrdersArrayCap), UnfinishedOf(os, P) \cup {n},
                      P \cup {n}, OpenedOrdersArrayCap)
      BY <3>3, <3>4, TradeAssumption, AddNewest
    <3> QED BY <1>2, <2>2, <2>5, <3>1, <3>2, <3>3, <3>5 DEF ShowsBoth, P1, open, shut
  <2> QED BY <2>4, <2>5
<1> QED BY <1>2, <1>3 DEF VectorsShow, os1, op1

VectorInv ==
  /\ VectorsShow(pairs, orders, opened, closed)
  /\ InProgress => VectorsShow(pairs, saved.orders, saved.opened, saved.closed)

(* The pair of an order, as the invariant has it. *)
LEMMA PairOfOrder ==
  ASSUME NEW ps, NEW at, NEW n, PairsOK(ps, at, n), NEW h, NEW o, OrderOK(at, h, o, n)
  PROVE  /\ PairIn(at, o) \in DOMAIN ps
         /\ o.base = ps[PairIn(at, o)].base /\ o.quote = ps[PairIn(at, o)].quote
         /\ o.owner \in Accounts /\ h \in Nat
BY DEF PairsOK, OrderOK, PairIn, OrderSet

(* The two orders of a trade. *)
LEMMA VectorsWhenTraded ==
  ASSUME IInv, IInv', VectorsShow(pairs, orders, opened, closed), call.phase = "trade", Trades
  PROVE  VectorsShow(pairs, orders', opened', closed')
<1> DEFINE hash == Head(call.queue)
           t == call.order
           maker == orders[hash]
           taker1 == AfterTrade(Taker, GiveOf(TheExchange), HaveOf(TheExchange))
           maker1 == AfterTrade(maker, HaveOf(TheExchange), GiveOf(TheExchange))
           os1 == [orders EXCEPT ![t] = taker1]
           os2 == [orders EXCEPT ![t] = taker1, ![hash] = maker1]
           op1 == Opened(opened, t, taker1)
           cl1 == Shut(closed, t, taker1)
           op2 == Opened(op1, hash, maker1)
           cl2 == Shut(cl1, hash, maker1)
<1>1. /\ orders' = os2 /\ opened' = op2 /\ closed' = cl2 /\ UNCHANGED <<pairs, pairAt>>
  BY DEF Trades, Records
<1>2. /\ hash \in DOMAIN orders /\ hash # t /\ maker \in OrderSet /\ ~IsFinished(maker)
      /\ PairIn(pairAt, maker) = call.pair
  BY TheMaker
<1>3. InProgress
  BY DEF InProgress
<1>4. /\ t \in DOMAIN orders /\ PairIn(pairAt, Taker) = call.pair
      /\ Taker.status # "Canceled" /\ Taker.status # "Filled"
  BY <1>3, TheTaker DEF IInv, Placing, Trading
<1>5. /\ PairsOK(pairs, pairAt, nonce)
      /\ \A h \in DOMAIN orders : OrderOK(pairAt, h, orders[h], nonce)
      /\ \A h \in DOMAIN orders' : OrderOK(pairAt', h, orders'[h], nonce')
      /\ Taker = orders[t] /\ maker = orders[hash]
  BY DEF IInv, StorageOK, Taker
<1>6. /\ taker1.owner = Taker.owner /\ taker1.base = Taker.base /\ taker1.quote = Taker.quote
      /\ taker1.status \in {"Filled", "PartialFilled", Taker.status}
      /\ maker1.owner = maker.owner /\ maker1.base = maker.base /\ maker1.quote = maker.quote
      /\ maker1.status \in {"Filled", "PartialFilled", maker.status}
  <2>1. ASSUME NEW o \in OrderSet, NEW give, NEW have
        PROVE  LET o1 == AfterTrade(o, give, have) IN
               /\ o1.owner = o.owner /\ o1.base = o.base /\ o1.quote = o.quote
               /\ o1.status \in {"Filled", "PartialFilled", o.status}
    BY DEF AfterTrade, OrderSet
  <2>2. Taker \in OrderSet
    BY <1>4, <1>5 DEF OrderOK
  <2>3. /\ taker1.owner = Taker.owner /\ taker1.base = Taker.base /\ taker1.quote = Taker.quote
        /\ taker1.status \in {"Filled", "PartialFilled", Taker.status}
    BY <2>1, <2>2
  <2>4. /\ maker1.owner = maker.owner /\ maker1.base = maker.base /\ maker1.quote = maker.quote
        /\ maker1.status \in {"Filled", "PartialFilled", maker.status}
    BY <1>2, <2>1
  <2> QED BY <2>3, <2>4
<1> HIDE DEF taker1, maker1, hash, maker, t
<1>7. /\ DOMAIN os1 = DOMAIN orders /\ os1[t] = taker1
      /\ \A i \in DOMAIN orders : i # t => os1[i] = orders[i]
      /\ DOMAIN os2 = DOMAIN os1 /\ os2[hash] = maker1 /\ os2[t] = taker1
      /\ \A i \in DOMAIN os1 : i # hash => os2[i] = os1[i]
  BY <1>2, <1>4
<1>8. /\ IsFinished(taker1) <=> taker1.status = "Filled"
      /\ IsFinished(maker1) <=> maker1.status = "Filled"
  <2>1. ~IsFinished(maker) => maker.status # "Canceled"
    BY DEF IsFinished
  <2>2. OrderOK(pairAt', t, taker1, nonce') /\ OrderOK(pairAt', hash, maker1, nonce')
    BY <1>1, <1>2, <1>4, <1>5, <1>7
  <2>3. /\ IsFinished(taker1) <=> taker1.status \in {"Filled", "Canceled"}
        /\ IsFinished(maker1) <=> maker1.status \in {"Filled", "Canceled"}
    BY <2>2, FinishedMeans
  <2> QED BY <1>2, <1>4, <1>6, <2>1, <2>3
<1>9. /\ PairIn(pairAt, Taker) \in DOMAIN pairs
      /\ Taker.base = pairs[PairIn(pairAt, Taker)].base
      /\ Taker.quote = pairs[PairIn(pairAt, Taker)].quote
      /\ Taker.owner \in Accounts /\ t \in Nat
  <2>1. OrderOK(pairAt, t, Taker, nonce)
    BY <1>4, <1>5
  <2> QED BY <1>5, <2>1, PairOfOrder
<1>10. /\ PairIn(pairAt, maker) \in DOMAIN pairs
       /\ maker.base = pairs[PairIn(pairAt, maker)].base
       /\ maker.quote = pairs[PairIn(pairAt, maker)].quote
       /\ maker.owner \in Accounts /\ hash \in Nat
  <2>1. OrderOK(pairAt, hash, maker, nonce)
    BY <1>2, <1>5 DEF maker
  <2> QED BY <1>5, <2>1, PairOfOrder
<1> DEFINE pair == call.pair
<1>11. MovedWhenDone(IsFinished(os1[t]), opened, closed, op1, cl1, orders[t], pair, t)
  <2>1. op1 = IF taker1.status = "Filled" THEN DropOrder(opened, taker1.owner, pair, t) ELSE opened
    BY DEF Opened
  <2>2. cl1 = IF taker1.status = "Filled" THEN Close(closed, taker1.owner, pair, t) ELSE closed
    BY DEF Shut
  <2> HIDE DEF op1, cl1, os1
  <2> QED BY <1>5, <1>6, <1>7, <1>8, <2>1, <2>2 DEF MovedWhenDone
<1>12. MovedWhenDone(IsFinished(os2[hash]), op1, cl1, op2, cl2, os1[hash], pair, hash)
  <2> HIDE DEF op1, cl1
  <2> QED BY <1>2, <1>6, <1>7, <1>8 DEF MovedWhenDone, Opened, Shut, maker
<1> HIDE DEF op1, cl1, op2, cl2, os1, os2
<1>13. Finishes(orders[t], os1[t])
  BY <1>4, <1>5, <1>6, <1>7 DEF Finishes, IsFinished
<1>14. os1[hash] = maker /\ Finishes(os1[hash], os2[hash])
  BY <1>2, <1>6, <1>7 DEF Finishes, maker
<1>15. VectorsShow(pairs, os1, op1, cl1)
  BY <1>4, <1>5, <1>7, <1>9, <1>11, <1>13, VectorsWhenWritten
<1>16. VectorsShow(pairs, os2, op2, cl2)
  BY <1>2, <1>5, <1>7, <1>10, <1>12, <1>14, <1>15, VectorsWhenWritten
<1> QED BY <1>1, <1>16

LEMMA NothingShown ==
  ASSUME NEW os
  PROVE  ShowsBoth(os, {}, <<>>, <<>>)
<1>1. /\ <<>> \in Seq(Nat) /\ Len(<<>>) = 0 /\ ToSet(<<>>) = {}
      /\ Pairwise(<<>>, Unequal) /\ Pairwise(<<>>, NewerFirst)
  BY DEF ToSet, Pairwise
<1>2. \A cap \in Nat \ {0} : 0 < cap
  OBVIOUS
<1>3. IsFiniteSet({}) /\ UnfinishedOf(os, {}) = {}
  BY FS_EmptySet DEF UnfinishedOf
<1>4. {} \ UnfinishedOf(os, {}) = {}
  OBVIOUS
<1> QED BY <1>1, <1>2, <1>3, <1>4, TradeAssumption DEF ShowsBoth, Shows, ShowsNewest, Some

(* create_trade_pair: there is no order of the pair yet. *)
LEMMA VectorsOfNewPair ==
  ASSUME NEW ps, NEW at, NEW n \in Nat, PairsOK(ps, at, n), NEW os, NEW op, NEW cl,
         VectorsShow(ps, os, op, cl),
         \A h \in DOMAIN os : <<os[h].base, os[h].quote>> \in DOMAIN at,
         NEW b, NEW q, <<b, q>> \notin DOMAIN at
  PROVE  VectorsShow(Put(ps, n, [base |-> b, quote |-> q]), os, op, cl)
<1> DEFINE ps1 == Put(ps, n, [base |-> b, quote |-> q])
<1>1. /\ n \notin DOMAIN ps /\ DOMAIN ps1 = DOMAIN ps \cup {n}
      /\ ps1[n].base = b /\ ps1[n].quote = q /\ \A p \in DOMAIN ps : ps1[p] = ps[p]
  <2>1. n \notin DOMAIN ps
    <3>1. \A p \in DOMAIN ps : p \in Nat /\ p < n
      BY ONLY PairsOK(ps, at, n) DEF PairsOK
    <3> QED BY ONLY <3>1, n \in Nat
  <2> QED BY <2>1 DEF Put
<1> HIDE DEF ps1
<1>2. DOMAIN op \subseteq Accounts \X DOMAIN ps /\ DOMAIN cl \subseteq Accounts \X DOMAIN ps
  BY DEF VectorsShow
<1>3. ASSUME NEW a \in Accounts, NEW p \in DOMAIN ps1
      PROVE  ShowsBoth(os, PlacedBy(ps1, os, a, p), VectorOf(op, <<a, p>>), VectorOf(cl, <<a, p>>))
  <2>1. CASE p \in DOMAIN ps
    <3>1. PlacedBy(ps1, os, a, p) = PlacedBy(ps, os, a, p)
      BY <1>1, <2>1 DEF PlacedBy
    <3> QED BY <2>1, <3>1 DEF VectorsShow
  <2>2. CASE p = n
    <3>1. PlacedBy(ps1, os, a, p) = {}
      BY <1>1, <2>2 DEF PlacedBy
    <3>2. VectorOf(op, <<a, p>>) = <<>> /\ VectorOf(cl, <<a, p>>) = <<>>
      BY <1>1, <1>2, <2>2 DEF VectorOf, GetOr
    <3> QED BY <3>1, <3>2, NothingShown
  <2> QED BY <1>1, <2>1, <2>2
<1> QED BY <1>1, <1>2, <1>3 DEF VectorsShow, ps1

LEMMA VectorStep ==
  ASSUME Regular, IInv, IInv', VectorInv, [Next]_vars
  PROVE  VectorInv'
<1>1. Idle.phase = "idle" /\ (call' = Idle => ~InProgress')
  BY IdleIsACall DEF InProgress
<1>2. /\ VectorsShow(pairs, orders, opened, closed)
      /\ nonce \in Nat /\ PairsOK(pairs, pairAt, nonce)
      /\ \A h \in DOMAIN orders : OrderOK(pairAt, h, orders[h], nonce)
  BY DEF VectorInv, IInv, StorageOK
<1>3. CASE Beside
  BY <1>3 DEF Beside, orderVars, tradeVars, callVars, VectorInv, InProgress
<1>4. ASSUME NEW a, NEW b, NEW q, CreateTradePair(a, b, q)
      PROVE  VectorInv'
  <2>1. /\ <<b, q>> \notin DOMAIN pairAt /\ pairs' = Put(pairs, nonce, [base |-> b, quote |-> q])
        /\ ~InProgress /\ call' = call
        /\ orders' = orders /\ opened' = opened /\ closed' = closed
    BY <1>4 DEF CreateTradePair, Ready, InProgress, callVars
  <2>2. \A h \in DOMAIN orders : <<orders[h].base, orders[h].quote>> \in DOMAIN pairAt
    BY <1>2 DEF OrderOK
  <2>3. VectorsShow(pairs', orders, opened, closed)
    BY <1>2, <2>1, <2>2, VectorsOfNewPair
  <2> QED BY <2>1, <2>3 DEF VectorInv, InProgress
<1>5. ASSUME NEW a \in Accounts, NEW p \in DOMAIN pairs, NEW o, NEW x, NEW n,
             CreateLimitOrder(a, p, o, x, n)
      PROVE  VectorInv'
  <2> DEFINE new == NewOrder(a, p, o, x, n)
  <2>1. /\ orders' = Put(orders, nonce, new) /\ opened' = Open(opened, a, p, nonce)
        /\ closed' = closed /\ pairs' = pairs /\ saved' = Storage
    BY <1>5 DEF CreateLimitOrder, Place, pairVars
  <2>2. /\ ~IsFinished(new) /\ new.owner = a
        /\ new.base = pairs[p].base /\ new.quote = pairs[p].quote
    BY DEF NewOrder, IsFinished
  <2> HIDE DEF new
  <2>3. \A h \in DOMAIN orders : h \in Nat /\ h < nonce
    BY <1>2 DEF OrderOK
  <2>4. VectorsShow(pairs, Put(orders, nonce, new), Open(opened, new.owner, p, nonce), closed)
    BY <1>2, <2>2, <2>3, VectorsWhenPlaced
  <2>5. /\ saved'.orders = orders /\ saved'.opened = opened /\ saved'.closed = closed
    BY <2>1 DEF Storage
  <2> QED BY <1>2, <2>1, <2>2, <2>4, <2>5 DEF VectorInv
<1>6. ASSUME NEW a, NEW h \in DOMAIN orders, CancelLimitOrder(a, h)
      PROVE  VectorInv'
  <2> DEFINE o == orders[h]
             pair == PairIn(pairAt, o)
             os1 == [orders EXCEPT ![h].status = "Canceled"]
  <2>1. /\ orders' = os1 /\ ~InProgress /\ call' = call /\ pairs' = pairs
        /\ a = o.owner /\ ~IsFinished(o)
        /\ opened' = DropOrder(opened, o.owner, pair, h)
        /\ closed' = Close(closed, o.owner, pair, h)
    BY <1>6 DEF CancelLimitOrder, CanCancel, Ready, InProgress, callVars, pairVars, PairIn
  <2>2. /\ pair \in DOMAIN pairs /\ o.base = pairs[pair].base /\ o.quote = pairs[pair].quote
        /\ o.owner \in Accounts /\ h \in Nat /\ o \in OrderSet
    <3>1. OrderOK(pairAt, h, o, nonce)
      BY <1>2
    <3>2. o \in OrderSet
      BY <3>1 DEF OrderOK
    <3> HIDE DEF o
    <3> QED BY <1>2, <3>1, <3>2, PairOfOrder
  <2>3. /\ DOMAIN os1 = DOMAIN orders /\ \A i \in DOMAIN orders : i # h => os1[i] = orders[i]
        /\ IsFinished(os1[h]) /\ Finishes(o, os1[h])
    <3>1. os1[h] = [o EXCEPT !.status = "Canceled"]
      OBVIOUS
    <3>2. /\ os1[h].status = "Canceled" /\ os1[h].owner = o.owner
          /\ os1[h].base = o.base /\ os1[h].quote = o.quote
      BY <2>2, <3>1 DEF OrderSet
    <3> QED BY <3>2 DEF IsFinished, Finishes
  <2> DEFINE op1 == DropOrder(opened, o.owner, pair, h)
             cl1 == Close(closed, o.owner, pair, h)
  <2>4. MovedWhenDone(IsFinished(os1[h]), opened, closed, op1, cl1, o, pair, h)
    BY <2>3 DEF MovedWhenDone
  <2>5. o = orders[h]
    OBVIOUS
  <2> HIDE DEF o, pair, os1, op1, cl1
  <2>6. VectorsShow(pairs, os1, op1, cl1)
    BY <1>2, <2>2, <2>3, <2>4, <2>5, VectorsWhenWritten
  <2> QED BY <2>1, <2>6 DEF VectorInv, InProgress, op1, cl1
<1>7. CASE InProgress /\ Rollback
  BY <1>1, <1>7 DEF Rollback, VectorInv, pairVars
<1>8. CASE InProgress /\ Waits
  BY <1>8 DEF Waits, VectorInv, pairVars, orderVars, tradeVars
<1>9. CASE InProgress /\ FinishPlacing
  <2>1. call' = Idle /\ UNCHANGED <<pairs, orders>>
    BY <1>9 DEF FinishPlacing, AfterPlacing, IInv, Calls, pairVars
  <2> DEFINE t == call.order
             pair == call.pair
  <2>2. /\ t \in DOMAIN orders /\ pair = PairIn(pairAt, orders[t]) /\ Taker = orders[t]
        /\ Taker.status = "Filled" => IsFinished(orders[t])
    BY <1>9, TheTaker DEF Taker
  <2>3. CASE Taker.status # "Filled"
    <3>1. opened' = opened /\ closed' = closed
      BY <1>9, <2>3 DEF FinishPlacing
    <3> QED BY <1>1, <1>2, <2>1, <3>1 DEF VectorInv
  <2>4. CASE Taker.status = "Filled"
    <3>1. /\ opened' = DropOrder(opened, orders[t].owner, pair, t)
          /\ closed' = Close(closed, orders[t].owner, pair, t)
      BY <1>9, <2>2, <2>4 DEF FinishPlacing
    <3>2. /\ pair \in DOMAIN pairs /\ orders[t].owner \in Accounts /\ t \in Nat
          /\ orders[t].base = pairs[pair].base /\ orders[t].quote = pairs[pair].quote
      <4>1. OrderOK(pairAt, t, orders[t], nonce)
        BY <1>2, <2>2
      <4> HIDE DEF t, pair
      <4> QED BY <1>2, <2>2, <4>1, PairOfOrder
    <3> DEFINE op1 == DropOrder(opened, orders[t].owner, pair, t)
               cl1 == Close(closed, orders[t].owner, pair, t)
    <3>3. /\ Finishes(orders[t], orders[t])
          /\ MovedWhenDone(IsFinished(orders[t]), opened, closed, op1, cl1, orders[t], pair, t)
      BY <2>2, <2>4 DEF Finishes, MovedWhenDone
    <3> HIDE DEF t, pair, op1, cl1
    <3>4. VectorsShow(pairs, orders, op1, cl1)
      BY <1>2, <2>2, <3>2, <3>3, VectorsWhenWritten
    <3> QED BY <1>1, <2>1, <3>1, <3>4 DEF VectorInv, op1, cl1
  <2> QED BY <2>3, <2>4
<1>10. CASE InProgress /\ call.phase = "trade" /\ Trades
  <2>1. VectorsShow(pairs, orders', opened', closed')
    BY <1>2, <1>10, VectorsWhenTraded
  <2>2. pairs' = pairs /\ saved' = saved
    BY <1>10 DEF Trades, Records
  <2> QED BY <1>10, <2>1, <2>2 DEF VectorInv
<1> QED
  <2>1. \A o \in LimitOrders : o[1] \in Accounts
    BY TradeAssumption
  <2> QED BY <1>3, <1>4, <1>5, <1>6, <1>7, <1>8, <1>9, <1>10, <2>1,
             KindsOfStep, KindsOfLevel, KindsOfMatch

(* What the property asks of the vectors. *)
LEMMA VectorsMean ==
  ASSUME VectorInv
  PROVE  OpenedAndClosed
<1>1. VectorsShow(pairs, orders, opened, closed)
  BY DEF VectorInv
<1>2. \A q \in Seq(Nat) : Pairwise(q, NewerFirst) => NewestFirst(q)
  <2> SUFFICES ASSUME NEW q \in Seq(Nat), Pairwise(q, NewerFirst), NEW i \in 1 .. (Len(q) - 1)
               PROVE  q[i] > q[i + 1]
    BY DEF NewestFirst
  <2>1. Len(q) \in Nat /\ i \in DOMAIN q /\ i + 1 \in DOMAIN q /\ i < i + 1
    OBVIOUS
  <2>2. <<q[i], q[i + 1]>> \in NewerFirst
    BY ONLY Pairwise(q, NewerFirst), <2>1 DEF Pairwise
  <2> QED BY <2>2 DEF NewerFirst
<1>3. ASSUME NEW a \in Accounts, NEW p \in DOMAIN pairs
      PROVE  LET open == GetOr(opened, <<a, p>>, <<>>)
                 shut == GetOr(closed, <<a, p>>, <<>>)
                 placed == PlacedIn(a, p)
                 missing == (placed \cap Live) \ ToSet(open)
                 finished == placed \ Live
             IN /\ ToSet(open) \subseteq placed \cap Live
                /\ NewestFirst(open) /\ Len(open) < OpenedOrdersArrayCap
                /\ \A h \in missing :
                     /\ \A g \in ToSet(open) : h < g
                     /\ Cardinality({g \in placed : h < g}) >= OpenedOrdersArrayCap - 1
                /\ ToSet(shut) \subseteq finished
                /\ Cardinality(ToSet(shut)) = Len(shut) /\ Len(shut) < ClosedOrdersArrayCap
                /\ Cardinality(finished) < ClosedOrdersArrayCap => ToSet(shut) = finished
  <2> DEFINE open == VectorOf(opened, <<a, p>>)
             shut == VectorOf(closed, <<a, p>>)
             placed == PlacedBy(pairs, orders, a, p)
  <2>1. /\ ShowsNewest(open, UnfinishedOf(orders, placed), placed, OpenedOrdersArrayCap)
        /\ Shows(shut, placed \ UnfinishedOf(orders, placed), ClosedOrdersArrayCap)
    BY <1>1 DEF VectorsShow, ShowsBoth
  <2>2. /\ UnfinishedOf(orders, placed) = placed \cap Live
        /\ placed \ UnfinishedOf(orders, placed) = placed \ Live
    BY DEF UnfinishedOf, Live, PlacedBy
  <2> HIDE DEF open, shut, placed
  <2>3. /\ open \in Seq(Nat) /\ Pairwise(open, NewerFirst) /\ Len(open) < OpenedOrdersArrayCap
        /\ ToSet(open) \subseteq placed \cap Live
        /\ \A h \in (placed \cap Live) \ ToSet(open) : PushedOut(h, open, placed, OpenedOrdersArrayCap)
    BY <2>1, <2>2 DEF ShowsNewest, Some
  <2>4. /\ shut \in Seq(Nat) /\ Pairwise(shut, Unequal) /\ Len(shut) < ClosedOrdersArrayCap
        /\ ToSet(shut) \subseteq placed \ Live
        /\ Cardinality(placed \ Live) < ClosedOrdersArrayCap => ToSet(shut) = placed \ Live
    BY <2>1, <2>2 DEF Shows, Some
  <2>5. Cardinality(ToSet(shut)) = Len(shut) /\ NewestFirst(open)
    BY <1>2, <2>3, <2>4, CountOfVector
  <2>6. \A h \in (placed \cap Live) \ ToSet(open) :
          /\ \A g \in ToSet(open) : h < g
          /\ Cardinality({g \in placed : h < g}) >= OpenedOrdersArrayCap - 1
    BY ONLY <2>3 DEF PushedOut, Newer
  <2>7. /\ open = GetOr(opened, <<a, p>>, <<>>) /\ shut = GetOr(closed, <<a, p>>, <<>>)
        /\ placed = PlacedIn(a, p)
    BY DEF open, shut, placed, VectorOf, PlacedBy, PlacedIn
  <2> QED BY ONLY <2>3, <2>4, <2>5, <2>6, <2>7
<1> QED BY ONLY <1>3, Zenon DEF OpenedAndClosed

(* Whatever the caps are, and while callers do what Regular says: the      *)
(* vector of opened orders holds unfinished orders of an account in a pair;*)
(* one that it lacks is older than all it holds and was pushed out by as   *)
(* many newer ones as it can hold.  That of closed orders holds finished   *)
(* ones: an order moves when a trade fills it, when it was filled on being *)
(* placed and when it is canceled.                                         *)
THEOREM OrdersMoveWhenFinished ==
  ASSUME Regular
  PROVE  Spec => []OpenedAndClosed
<1>1. Init => VectorInv
  <2> SUFFICES ASSUME Init PROVE VectorInv
    OBVIOUS
  <2>1. /\ DOMAIN orders = {} /\ DOMAIN pairs = {} /\ ~InProgress
        /\ DOMAIN opened = {} /\ DOMAIN closed = {}
    BY IdleIsACall DEF Init, EmptyMap, InProgress
  <2> QED BY <2>1 DEF VectorInv, VectorsShow
<1>2. IInv /\ IInv' /\ VectorInv /\ [Next]_vars => VectorInv'
  BY VectorStep
<1> QED BY <1>1, <1>2, VectorsMean, InvariantHolds, PTL DEF Spec
-----------------------------------------------------------------------------
(* The buckets of a pair and its trades. *)

TradesSeen(ts, q) ==
  /\ q \in Seq(Nat)
  /\ \A i \in DOMAIN q :
       q[i] \in DOMAIN ts /\ ts[q[i]].price \in Int /\ ts[q[i]].quoteAmount \in Nat

PricesIn(ts, q) == {ts[q[i]].price : i \in DOMAIN q}
LastPrice(ts, q) == IF q = <<>> THEN NoPrice ELSE ts[Last(q)].price
AmountsIn(ts, q) == [i \in DOMAIN q |-> ts[q[i]].quoteAmount]
AmountIn(ts, q) == MP!SumFunctionOnSet(AmountsIn(ts, q), DOMAIN q)

DataOfTrades(s, ts, q) ==
  TradesSeen(ts, q) /\ MP!Recorded(s, PricesIn(ts, q), LastPrice(ts, q), AmountIn(ts, q))

LEMMA SeenNothing ==
  ASSUME NEW ts
  PROVE  /\ TradesSeen(ts, <<>>) /\ PricesIn(ts, <<>>) = {} /\ LastPrice(ts, <<>>) = NoPrice
         /\ AmountIn(ts, <<>>) = 0
<1>1. MP!SumFunctionOnSet(AmountsIn(ts, <<>>), {}) = 0
  BY AssumptionsOfMarketData, MP!SumOfNone
<1> QED BY <1>1 DEF TradesSeen, PricesIn, LastPrice, AmountIn

(* Trades of other pairs do not matter. *)
LEMMA SeenAsBefore ==
  ASSUME NEW s, NEW ts, NEW q, DataOfTrades(s, ts, q), NEW ts1,
         \A n \in DOMAIN ts : n \in DOMAIN ts1 /\ ts1[n] = ts[n]
  PROVE  DataOfTrades(s, ts1, q)
<1>1. \A i \in DOMAIN q : q[i] \in DOMAIN ts1 /\ ts1[q[i]] = ts[q[i]]
  BY DEF DataOfTrades, TradesSeen
<1>2. TradesSeen(ts1, q) /\ PricesIn(ts1, q) = PricesIn(ts, q)
  BY <1>1 DEF DataOfTrades, TradesSeen, PricesIn
<1>3. LastPrice(ts1, q) = LastPrice(ts, q)
  <2>1. q # <<>> => Len(q) \in DOMAIN q
    BY DEF DataOfTrades, TradesSeen
  <2> QED BY <1>1, <2>1 DEF LastPrice, Last
<1>4. AmountIn(ts1, q) = AmountIn(ts, q)
  <2>1. AmountsIn(ts1, q) = AmountsIn(ts, q)
    BY <1>1 DEF AmountsIn
  <2> QED BY <2>1 DEF AmountIn
<1> QED BY <1>2, <1>3, <1>4 DEF DataOfTrades

LEMMA SeenAfterTrade ==
  ASSUME NEW s, NEW ts, NEW q, DataOfTrades(s, ts, q), NEW n \in Nat, n \notin DOMAIN ts,
         NEW trade, trade.price \in Int, trade.quoteAmount \in Nat, NEW now
  PROVE  DataOfTrades(MP!Traded(s, now, trade.price, trade.quoteAmount),
                      Put(ts, n, trade), Append(q, n))
<1> DEFINE ts1 == Put(ts, n, trade)
           q1 == Append(q, n)
           m == Len(q)
<1>1. /\ q \in Seq(Nat) /\ m \in Nat /\ DOMAIN q = 1 .. m
      /\ q1 \in Seq(Nat) /\ Len(q1) = m + 1 /\ DOMAIN q1 = 1 .. (m + 1)
      /\ q1[m + 1] = n /\ \A i \in 1 .. m : q1[i] = q[i]
  BY DEF DataOfTrades, TradesSeen
<1>2. /\ \A i \in DOMAIN q : /\ q[i] \in DOMAIN ts /\ ts[q[i]].price \in Int
                            /\ ts[q[i]].quoteAmount \in Nat
      /\ MP!Recorded(s, PricesIn(ts, q), LastPrice(ts, q), AmountIn(ts, q))
  BY DEF DataOfTrades, TradesSeen
<1>3. /\ DOMAIN ts1 = DOMAIN ts \cup {n} /\ ts1[n] = trade
      /\ \A k \in DOMAIN ts : ts1[k] = ts[k]
  BY DEF Put
<1> HIDE DEF ts1, q1, m
<1>4. DOMAIN q1 = DOMAIN q \cup {m + 1} /\ m + 1 \notin DOMAIN q /\ MP!IsFiniteSet(DOMAIN q)
  <2>1. MP!IsFiniteSet(1 .. m)
    <3>1. IsFiniteSet(1 .. m)
      BY <1>1, FS_Interval
    <3> QED BY <3>1 DEF IsFiniteSet, MP!IsFiniteSet
  <2> QED BY <1>1, <2>1
<1>5. \A i \in DOMAIN q : ts1[q1[i]] = ts[q[i]] /\ q1[i] \in DOMAIN ts1
  BY <1>1, <1>2, <1>3
<1>6. ts1[q1[m + 1]] = trade /\ q1[m + 1] \in DOMAIN ts1
  BY <1>1, <1>3
<1>7. TradesSeen(ts1, q1)
  <2>1. ASSUME NEW i \in DOMAIN q1
        PROVE  q1[i] \in DOMAIN ts1 /\ ts1[q1[i]].price \in Int /\ ts1[q1[i]].quoteAmount \in Nat
    BY <1>2, <1>4, <1>5, <1>6
  <2> QED BY <1>1, <2>1 DEF TradesSeen
<1>8. PricesIn(ts1, q1) = PricesIn(ts, q) \cup {trade.price}
  <2>1. \A i \in DOMAIN q : ts1[q1[i]].price = ts[q[i]].price
    BY <1>5
  <2> QED BY ONLY <1>4, <1>6, <2>1 DEF PricesIn
<1>9. LastPrice(ts1, q1) = trade.price
  <2>1. q1 # <<>> /\ Last(q1) = q1[m + 1]
    BY <1>1 DEF Last
  <2> QED BY <1>6, <2>1 DEF LastPrice
<1>10. AmountIn(ts1, q1) = AmountIn(ts, q) + trade.quoteAmount
  <2> DEFINE f == AmountsIn(ts, q)
             g == AmountsIn(ts1, q1)
  <2>1. \A i \in DOMAIN q : f[i] = g[i] /\ g[i] \in Int
    BY <1>2, <1>4, <1>5 DEF AmountsIn
  <2>2. g[m + 1] = trade.quoteAmount
    BY <1>4, <1>6 DEF AmountsIn
  <2> HIDE DEF f, g
  <2>3. \A i \in DOMAIN q \cup {m + 1} : g[i] \in Int
    BY <2>1, <2>2
  <2>4. \A i \in DOMAIN q : f[i] = g[i]
    BY <2>1
  <2>5. MP!SumFunctionOnSet(g, DOMAIN q \cup {m + 1}) = MP!SumFunctionOnSet(f, DOMAIN q) + g[m + 1]
    <3>1. PICK S, e : S = DOMAIN q /\ e = m + 1
      OBVIOUS
    <3>2. MP!IsFiniteSet(S) /\ e \notin S /\ \A i \in S : f[i] = g[i]
      BY <1>4, <2>4, <3>1
    <3>3. \A i \in S \cup {e} : g[i] \in Int
      BY <2>3, <3>1
    <3>4. MP!SumFunctionOnSet(g, S \cup {e}) = MP!SumFunctionOnSet(f, S) + g[e]
      BY ONLY <3>2, <3>3, AssumptionsOfMarketData, MP!SumWithOne
    <3> QED BY <3>1, <3>4
  <2> QED BY <1>4, <2>2, <2>5 DEF AmountIn, f, g
<1>11. PricesIn(ts, q) \in SUBSET Int /\ AmountIn(ts, q) \in Nat
  <2>1. \A i \in DOMAIN q : AmountsIn(ts, q)[i] \in Nat
    BY <1>2 DEF AmountsIn
  <2>2. AmountIn(ts, q) \in Nat
    BY <1>4, <2>1, AssumptionsOfMarketData, MP!SumType DEF AmountIn
  <2> QED BY <1>2, <2>2 DEF PricesIn
<1> DEFINE P == PricesIn(ts, q)
           last == LastPrice(ts, q)
           total == AmountIn(ts, q)
<1>12. MP!Recorded(s, P, last, total)
  BY <1>2
<1> HIDE DEF P, last, total
<1>13. MP!Recorded(MP!Traded(s, now, trade.price, trade.quoteAmount), P \cup {trade.price},
                   trade.price, total + trade.quoteAmount)
  BY <1>11, <1>12, AssumptionsOfMarketData, MP!TradeIsRecorded DEF P, total
<1> QED BY <1>7, <1>8, <1>9, <1>10, <1>13 DEF DataOfTrades, P, total, ts1, q1

DataOf(ps, ts, m, st) ==
  \A p \in DOMAIN ps : p \in DOMAIN st /\ DataOfTrades(st[p], ts, GetOr(m, p, <<>>))

DataInv ==
  /\ DataOf(pairs, trades, tradeIndex.pair, stats)
  /\ InProgress => DataOf(pairs, saved.trades, saved.tradeIndex.pair, saved.stats)

LEMMA DataStep ==
  ASSUME Regular, IInv, IndexInv, DataInv, [Next]_vars
  PROVE  DataInv'
<1>1. Idle.phase = "idle" /\ (call' = Idle => ~InProgress')
  BY IdleIsACall DEF InProgress
<1>2. /\ DataOf(pairs, trades, tradeIndex.pair, stats)
      /\ nonce \in Nat /\ PairsOK(pairs, pairAt, nonce)
      /\ \A t \in DOMAIN trades : t \in Nat /\ t < nonce
      /\ Vectors(tradeIndex.pair) /\ DOMAIN tradeIndex.pair \subseteq DOMAIN pairs
  BY DEF DataInv, IInv, StorageOK, IndexInv, Indexed, TradesNamed, PairsIndexed
<1>3. CASE Beside
  <2>1. /\ pairs' = pairs /\ trades' = trades /\ tradeIndex' = tradeIndex
        /\ saved' = saved /\ InProgress' = InProgress
    BY <1>3 DEF Beside, tradeVars, callVars, InProgress
  <2>2. DataOf(pairs, trades, tradeIndex.pair, stats')
    <3>1. CASE UNCHANGED marketVars
      BY <1>2, <3>1 DEF marketVars
    <3>2. CASE M!OnInitialize \/ OnFinalize
      <4>1. MP!OnInitialize \/ MP!OnFinalize
        BY <3>2, SameInitialize, SameFinalize DEF OnFinalize
      <4>2. ASSUME NEW p \in DOMAIN pairs
            PROVE  p \in DOMAIN stats'
                   /\ DataOfTrades(stats'[p], trades, GetOr(tradeIndex.pair, p, <<>>))
        <5> DEFINE q == GetOr(tradeIndex.pair, p, <<>>)
                   P == PricesIn(trades, q)
                   last == LastPrice(trades, q)
                   total == AmountIn(trades, q)
        <5>1. /\ p \in DOMAIN stats /\ TradesSeen(trades, q)
              /\ MP!Recorded(stats[p], P, last, total)
          BY <1>2 DEF DataOf, DataOfTrades
        <5> HIDE DEF P, last, total
        <5>2. p \in DOMAIN stats' /\ MP!Recorded(stats'[p], P, last, total)
          BY <4>1, <5>1, AssumptionsOfMarketData, MP!HooksKeepBuckets
        <5> QED BY <5>1, <5>2 DEF DataOfTrades, P, last, total
      <4> QED BY <4>2 DEF DataOf
    <3> QED BY <1>3, <3>1, <3>2 DEF Beside
  <2> QED BY <2>1, <2>2 DEF DataInv
<1>4. ASSUME NEW a, NEW b, NEW c, CreateTradePair(a, b, c)
      PROVE  DataInv'
  <2>1. /\ MP!NewPair(nonce) /\ ~InProgress /\ call' = call
        /\ pairs' = Put(pairs, nonce, [base |-> b, quote |-> c])
        /\ trades' = trades /\ tradeIndex' = tradeIndex
    BY <1>4, SameNewPair DEF CreateTradePair, Ready, InProgress, callVars, tradeVars
  <2>2. nonce \notin DOMAIN pairs /\ DOMAIN pairs' = DOMAIN pairs \cup {nonce}
    <3>1. \A x \in DOMAIN pairs : x \in Nat /\ x < nonce
      BY ONLY <1>2 DEF PairsOK
    <3>2. nonce \in Nat
      BY <1>2
    <3>3. nonce \notin DOMAIN pairs
      BY ONLY <3>1, <3>2
    <3> QED BY <2>1, <3>3 DEF Put
  <2>3. /\ DOMAIN stats' = DOMAIN stats \cup {nonce} /\ stats'[nonce] = MP!EmptyStats
        /\ \A p \in DOMAIN stats : p # nonce => stats'[p] = stats[p]
    BY <2>1 DEF MP!NewPair, MP!Put
  <2>4. \A p \in DOMAIN pairs :
          p \in DOMAIN stats' /\ DataOfTrades(stats'[p], trades, GetOr(tradeIndex.pair, p, <<>>))
    BY <1>2, <2>2, <2>3 DEF DataOf
  <2>5. DataOfTrades(stats'[nonce], trades, GetOr(tradeIndex.pair, nonce, <<>>))
    <3>1. GetOr(tradeIndex.pair, nonce, <<>>) = <<>>
      BY <1>2, <2>2 DEF GetOr
    <3>2. MP!Recorded(MP!EmptyStats, {}, NoPrice, 0)
      BY AssumptionsOfMarketData, MP!NothingRecorded
    <3> QED BY <2>3, <3>1, <3>2, SeenNothing DEF DataOfTrades
  <2>6. DataOf(pairs', trades, tradeIndex.pair, stats')
    BY <2>2, <2>3, <2>4, <2>5 DEF DataOf
  <2> QED BY <2>1, <2>6 DEF DataInv, InProgress
<1>5. ASSUME NEW a, NEW p, NEW o, NEW x, NEW n, CreateLimitOrder(a, p, o, x, n)
      PROVE  DataInv'
  <2>1. /\ UNCHANGED marketVars /\ saved' = Storage
        /\ pairs' = pairs /\ trades' = trades /\ tradeIndex' = tradeIndex
    BY <1>5 DEF CreateLimitOrder, Place, tradeVars, pairVars
  <2>2. /\ stats' = stats /\ saved'.stats = stats
        /\ saved'.trades = trades /\ saved'.tradeIndex = tradeIndex
    BY <2>1 DEF Storage, marketVars
  <2> QED BY <1>2, <2>1, <2>2 DEF DataInv
<1>6. ASSUME NEW a, NEW h, CancelLimitOrder(a, h)
      PROVE  DataInv'
  <2>1. /\ UNCHANGED marketVars /\ ~InProgress /\ call' = call
        /\ pairs' = pairs /\ trades' = trades /\ tradeIndex' = tradeIndex
    BY <1>6 DEF CancelLimitOrder, Ready, InProgress, callVars, tradeVars, pairVars
  <2> QED BY <1>2, <2>1 DEF DataInv, InProgress, marketVars
<1>7. CASE InProgress /\ Rollback
  BY <1>1, <1>7 DEF Rollback, DataInv, pairVars
<1>8. CASE InProgress /\ Waits
  BY <1>8 DEF Waits, DataInv, pairVars, marketVars, tradeVars
<1>9. CASE InProgress /\ FinishPlacing
  <2>1. call' = Idle /\ UNCHANGED <<pairs, trades, tradeIndex, stats>>
    BY <1>9 DEF FinishPlacing, AfterPlacing, IInv, Calls, pairVars, tradeVars, marketVars
  <2> QED BY <1>1, <1>2, <2>1 DEF DataInv
<1>10. CASE InProgress /\ call.phase = "trade" /\ Trades
  <2> DEFINE hash == Head(call.queue)
             maker == orders[hash]
             p == call.pair
             trade == NewTrade(Taker, maker, TheExchange)
             q == GetOr(tradeIndex.pair, p, <<>>)
  <2>1. /\ trades' = Put(trades, nonce, trade)
        /\ tradeIndex'.pair = PushTo(tradeIndex.pair, p, nonce)
        /\ MP!SetMarketData(p, trade.price, trade.quoteAmount)
        /\ pairs' = pairs /\ saved' = saved
    BY <1>10, SameSetMarketData DEF Trades, Records, IndexTrade, NewTrade
  <2>2. p \in DOMAIN pairs
    BY <1>10, TheTaker DEF IInv, StorageOK
  <2>3. trade.price \in Int /\ trade.quoteAmount \in Nat
    <3>1. maker \in OrderSet /\ Taker \in OrderSet
      BY <1>10, TheTaker, TheMaker
    <3>2. TheExchange.quote \in Nat
      BY <3>1, ExchangeAmounts DEF TheExchange
    <3>3. maker.price \in Int
      BY <3>1 DEF OrderSet
    <3> QED BY <3>2, <3>3 DEF NewTrade
  <2> HIDE DEF hash, maker, trade, p
  <2>4. /\ p \in DOMAIN stats /\ DOMAIN stats' = DOMAIN stats
        /\ stats'[p] = MP!Traded(stats[p], block, trade.price, trade.quoteAmount)
        /\ \A r \in DOMAIN stats : r # p => stats'[r] = stats[r]
    BY <2>1 DEF MP!SetMarketData
  <2>5. /\ GetOr(tradeIndex'.pair, p, <<>>) = Append(q, nonce)
        /\ \A r : r # p => GetOr(tradeIndex'.pair, r, <<>>) = GetOr(tradeIndex.pair, r, <<>>)
    <3>1. Grown(tradeIndex.pair, p, nonce, PushTo(tradeIndex.pair, p, nonce))
      BY <1>2, VectorGrows
    <3> QED BY <2>1, <3>1 DEF Grown
  <2>6. nonce \notin DOMAIN trades
    <3>1. \A t \in DOMAIN trades : t \in Nat /\ t < nonce
      BY <1>2
    <3>2. nonce \in Nat
      BY <1>2
    <3> QED BY ONLY <3>1, <3>2
  <2>7. DataOfTrades(stats'[p], trades', GetOr(tradeIndex'.pair, p, <<>>))
    <3>1. DataOfTrades(stats[p], trades, q)
      BY <1>2, <2>2 DEF DataOf
    <3> HIDE DEF q
    <3>2. DataOfTrades(MP!Traded(stats[p], block, trade.price, trade.quoteAmount),
                       Put(trades, nonce, trade), Append(q, nonce))
      BY <1>2, <2>3, <2>6, <3>1, SeenAfterTrade
    <3> QED BY <2>1, <2>4, <2>5, <3>2 DEF q
  <2>8. ASSUME NEW r \in DOMAIN pairs, r # p
        PROVE  r \in DOMAIN stats'
               /\ DataOfTrades(stats'[r], trades', GetOr(tradeIndex'.pair, r, <<>>))
    <3> DEFINE qr == GetOr(tradeIndex.pair, r, <<>>)
               ts1 == Put(trades, nonce, trade)
    <3>1. r \in DOMAIN stats /\ DataOfTrades(stats[r], trades, qr)
      BY <1>2 DEF DataOf
    <3>2. \A n \in DOMAIN trades : n \in DOMAIN ts1 /\ ts1[n] = trades[n]
      BY <2>6 DEF Put
    <3> HIDE DEF qr, ts1
    <3>3. DataOfTrades(stats[r], ts1, qr)
      BY <3>1, <3>2, SeenAsBefore
    <3> QED BY <2>1, <2>4, <2>5, <2>8, <3>1, <3>3 DEF qr, ts1
  <2>9. DataOf(pairs, trades', tradeIndex'.pair, stats')
    BY <2>2, <2>4, <2>7, <2>8 DEF DataOf
  <2>10. DataOf(pairs, saved.trades, saved.tradeIndex.pair, saved.stats)
    BY <1>10 DEF DataInv
  <2> QED BY <2>1, <2>9, <2>10 DEF DataInv
<1> QED
  BY <1>3, <1>4, <1>5, <1>6, <1>7, <1>8, <1>9, <1>10, KindsOfStep, KindsOfLevel, KindsOfMatch

(* What the property says of a pair. *)
TradesFit == \A p \in DOMAIN pairs : AmountTraded(p) <= MaxAmount

LEMMA DataMeans ==
  ASSUME DataInv, NEW p \in DOMAIN pairs
  PROVE  /\ PricesOfTrades(p)
         /\ AmountTraded(p) <= MaxAmount =>
              SumOf([b \in DOMAIN stats[p].buckets |-> stats[p].buckets[b].volume]) = AmountTraded(p)
<1> DEFINE q == GetOr(tradeIndex.pair, p, <<>>)
           s == stats[p]
<1>1. /\ TradesSeen(trades, q)
      /\ MP!PricesOf(s, PricesIn(trades, q), LastPrice(trades, q))
      /\ AmountIn(trades, q) <= MaxAmount => MP!TotalOf(s) = AmountIn(trades, q)
  BY DEF DataInv, DataOf, DataOfTrades, MP!Recorded
<1>2. AmountIn(trades, q) = AmountTraded(p)
  BY Zenon DEF AmountTraded, AmountIn, AmountsIn, SumOf,
     SumFunctionOnSet, MP!SumFunctionOnSet, FoldFunctionOnSet, MP!FoldFunctionOnSet,
     MapThenFoldSet, MP!MapThenFoldSet
<1>3. MP!TotalOf(s) = SumOf([b \in DOMAIN s.buckets |-> s.buckets[b].volume])
  BY Zenon DEF SumOf, MP!TotalOf,
     SumFunctionOnSet, MP!SumFunctionOnSet, FoldFunctionOnSet, MP!FoldFunctionOnSet,
     MapThenFoldSet, MP!MapThenFoldSet
<1>4. PricesOfTrades(p)
  <2>1. CASE q = <<>>
    <3>1. PricesIn(trades, q) = {} /\ LastPrice(trades, q) = NoPrice
      BY <2>1, SeenNothing
    <3> QED BY <1>1, <2>1, <3>1 DEF PricesOfTrades, MP!PricesOf
  <2>2. CASE q # <<>>
    BY <1>1, <2>2 DEF PricesOfTrades, MP!PricesOf, PricesIn, LastPrice
  <2> QED BY <2>1, <2>2
<1> HIDE DEF q
<1> QED BY <1>1, <1>2, <1>3, <1>4

LEMMA DataInitially == Init => DataInv
<1> SUFFICES ASSUME Init PROVE DataInv
  OBVIOUS
<1>1. DOMAIN pairs = {} /\ ~InProgress
  BY IdleIsACall DEF Init, EmptyMap, InProgress
<1> QED BY <1>1 DEF DataInv, DataOf

(* While callers do what Regular says, set_tp_market_data writes what the  *)
(* trades say: the latest price is that of the newest trade of the pair,   *)
(* each price is within the extremes of a bucket, and these are prices of  *)
(* trades; the hooks and rollbacks change nothing about it.                *)
THEOREM BucketsHaveTheirPrices ==
  ASSUME Regular
  PROVE  Spec => [](\A p \in DOMAIN pairs : PricesOfTrades(p))
<1>1. Init => IndexInv /\ DataInv
  BY IndexInitially, DataInitially
<1>2. IInv /\ IInv' /\ IndexInv /\ DataInv /\ [Next]_vars => IndexInv' /\ DataInv'
  BY IndexStep, DataStep
<1>3. DataInv => \A p \in DOMAIN pairs : PricesOfTrades(p)
  BY DataMeans
<1> QED BY <1>1, <1>2, <1>3, InvariantHolds, PTL DEF Spec

(* Under the same hypothesis the buckets also add up to what was traded,   *)
(* as long as that fits.                                                   *)
THEOREM BucketsAddUpTrades ==
  ASSUME Regular
  PROVE  Spec /\ []TradesFit => []MarketDataOfTrades
<1>1. Init => IndexInv /\ DataInv
  BY IndexInitially, DataInitially
<1>2. IInv /\ IInv' /\ IndexInv /\ DataInv /\ [Next]_vars => IndexInv' /\ DataInv'
  BY IndexStep, DataStep
<1>3. DataInv /\ TradesFit => MarketDataOfTrades
  BY DataMeans DEF TradesFit, MarketDataOfTrades
<1> QED BY <1>1, <1>2, <1>3, InvariantHolds, PTL DEF Spec
-----------------------------------------------------------------------------
(* The totals of the levels. *)

QueueOf(list, p) == ToSet(list[p].orders)
AskedIn(os, S) == SumFunctionOnSet([h \in S |-> os[h].remainedBuy], S)

(* The total of a level is what its orders still ask for. *)
LevelAdds(list, os, p) == list[p].buyAmount = AskedIn(os, QueueOf(list, p))

CanceledAt(ps, os, pair) ==
  {os[h].price : h \in {x \in DOMAIN os :
     /\ os[x].status = "Canceled"
     /\ os[x].base = ps[pair].base /\ os[x].quote = ps[pair].quote}}

TotalsOf(ps, os, pair, list) ==
  \A p \in Levels(list) \ CanceledAt(ps, os, pair) : LevelAdds(list, os, p)

Totals(ps, os, ls) == \A pair \in DOMAIN ls : TotalsOf(ps, os, pair, ls[pair])

(* Also what an extrinsic in progress may undo has them. *)
TotalsInv ==
  /\ Totals(pairs, orders, lists)
  /\ InProgress => Totals(pairs, saved.orders, saved.lists)

(* What the orders of a level ask for is an amount. *)
FitsOf(ps, os, pair, list) ==
  \A p \in Levels(list) \ CanceledAt(ps, os, pair) : AskedIn(os, QueueOf(list, p)) <= MaxAmount

LevelsFit == \A pair \in DOMAIN lists : FitsOf(pairs, orders, pair, lists[pair])

(* The orders of a level, as the invariant has them. *)
OfLevel(list, os, p) ==
  /\ IsFiniteSet(QueueOf(list, p))
  /\ \A h : h \in QueueOf(list, p) <=> Queued(list, p, h)
  /\ \A h \in QueueOf(list, p) :
       h \in DOMAIN os /\ os[h].price = p /\ os[h].remainedBuy \in Nat

LEMMA OrdersOfLevel ==
  ASSUME NEW at, NEW pair, NEW list, NEW os, NEW n, BookOK(at, pair, list, os),
         \A h \in DOMAIN os : OrderOK(at, h, os[h], n), NEW p \in DOMAIN list
  PROVE  OfLevel(list, os, p)
<1>1. PICK buys, sells : Tidy(list, buys, sells) /\ Held(at, pair, list, os, buys)
  BY DEF BookOK
<1>2. list[p].orders \in Seq(Nat) /\ Ascending(list[p].orders)
  BY <1>1 DEF Tidy, Shape, Queues, Linked, Stored, Items, Ascending
<1> DEFINE q == list[p].orders
<1>3. Pairwise(q, Unequal)
  <2> HIDE DEF q
  <2>1. q \in Seq(Nat) /\ Ascending(q)
    BY <1>2 DEF q
  <2>2. \A i, j \in DOMAIN q : i < j => q[i] \in Nat /\ q[j] \in Nat /\ q[i] # q[j]
    BY <2>1 DEF Ascending
  <2> QED BY <2>2 DEF Pairwise, Unequal
<1>4. IsFiniteSet(ToSet(q))
  <2> HIDE DEF q
  <2>1. q \in Seq(Nat)
    BY <1>2 DEF q
  <2> QED BY <1>3, <2>1, CountOfVector
<1>5. \A h : h \in ToSet(q) <=> Queued(list, p, h)
  BY DEF ToSet, Queued
<1>6. ASSUME NEW h \in ToSet(q)
      PROVE  h \in DOMAIN os /\ os[h].price = p /\ os[h].remainedBuy \in Nat
  <2>1. h \in DOMAIN os /\ os[h].price = p
    BY <1>1, <1>5, <1>6 DEF Held
  <2>2. os[h] \in OrderSet
    BY <2>1 DEF OrderOK
  <2> QED BY <2>1, <2>2, MathAssumption DEF OrderSet, Amount
<1> QED BY <1>4, <1>5, <1>6 DEF OfLevel, QueueOf

(* A level with the same orders, which ask for the same, has its total. *)
LEMMA SameLevel ==
  ASSUME NEW list, NEW os, NEW p, LevelAdds(list, os, p), OfLevel(list, os, p),
         NEW list1, NEW os1, list1[p].buyAmount = list[p].buyAmount,
         QueueOf(list1, p) = QueueOf(list, p),
         \A h \in QueueOf(list, p) : os1[h].remainedBuy = os[h].remainedBuy
  PROVE  LevelAdds(list1, os1, p)
<1> DEFINE S == QueueOf(list, p)
           f == [h \in S |-> os[h].remainedBuy]
           g == [h \in S |-> os1[h].remainedBuy]
<1>1. IsFiniteSet(S) /\ \A h \in S : f[h] = g[h]
  BY DEF OfLevel
<1>2. AskedIn(os, S) = AskedIn(os1, S)
  <2>1. AskedIn(os, S) = SumFunctionOnSet(f, S) /\ AskedIn(os1, S) = SumFunctionOnSet(g, S)
    BY DEF AskedIn
  <2> HIDE DEF S, f, g
  <2> QED BY <1>1, <2>1, SumSame
<1> QED BY <1>2 DEF LevelAdds

(* A canceled order stays what it is. *)
LEMMA CanceledStays ==
  ASSUME NEW ps, NEW ps1, NEW os, NEW os1, NEW pair, ps1[pair] = ps[pair],
         \A h \in DOMAIN os : os[h].status = "Canceled" => h \in DOMAIN os1 /\ os1[h] = os[h]
  PROVE  CanceledAt(ps, os, pair) \subseteq CanceledAt(ps1, os1, pair)
BY DEF CanceledAt

(* A step that changes one list, and orders of its pair. *)
LEMMA TotalsReplaced ==
  ASSUME NEW ps, NEW at, NEW os, NEW ls, NEW n, NEW but, StorageOK(ps, at, os, ls, n, but),
         Totals(ps, os, ls), NEW pair, NEW os1, SameElsewhere(at, pair, os, os1),
         \A h \in DOMAIN os : os[h].status = "Canceled" => os1[h] = os[h],
         NEW list, TotalsOf(ps, os1, pair, list)
  PROVE  Totals(ps, os1, Put(ls, pair, list))
<1> DEFINE ls1 == Put(ls, pair, list)
<1>1. /\ DOMAIN ls1 = DOMAIN ls \cup {pair} /\ ls1[pair] = list
      /\ \A q \in DOMAIN ls \ {pair} : ls1[q] = ls[q]
  BY DEF Put
<1> HIDE DEF ls1
<1>2. ASSUME NEW q \in DOMAIN ls \ {pair}, NEW p \in Levels(ls[q]) \ CanceledAt(ps, os1, q)
      PROVE  LevelAdds(ls[q], os1, p)
  <2>1. DOMAIN os \subseteq DOMAIN os1
    BY DEF SameElsewhere
  <2>2. p \in Levels(ls[q]) \ CanceledAt(ps, os, q) /\ p \in DOMAIN ls[q]
    BY <1>2, <2>1, CanceledStays DEF Levels
  <2>3. LevelAdds(ls[q], os, p)
    BY <2>2 DEF Totals, TotalsOf
  <2>4. BookOK(at, q, ls[q], os) /\ \A h \in DOMAIN os : OrderOK(at, h, os[h], n)
    BY DEF StorageOK
  <2>5. OfLevel(ls[q], os, p)
    BY <2>2, <2>4, OrdersOfLevel
  <2>6. ASSUME NEW h \in QueueOf(ls[q], p) PROVE os1[h].remainedBuy = os[h].remainedBuy
    <3>1. PICK buys : Held(at, q, ls[q], os, buys)
      BY <2>4 DEF BookOK
    <3>2. h \in DOMAIN os /\ PairIn(at, os[h]) = q
      BY <2>5, <3>1 DEF Held, OfLevel
    <3> QED BY <3>2 DEF SameElsewhere
  <2> QED BY <2>3, <2>5, <2>6, SameLevel
<1> QED BY <1>1, <1>2 DEF Totals, TotalsOf, ls1

(* do_create_limit_order, before order_match. *)
LEMMA TotalsWhenPlaced ==
  ASSUME NEW ps, NEW at, NEW os, NEW ls, NEW n, NEW but, StorageOK(ps, at, os, ls, n, but),
         Totals(ps, os, ls), NEW pair, NEW o, PairIn(at, o) = pair, Bottom < Top
  PROVE  Totals(ps, Put(os, n, o), Put(ls, pair, Ensure(GetOr(ls, pair, EmptyMap), NoPrice)))
<1> DEFINE os1 == Put(os, n, o)
           list == Ensure(GetOr(ls, pair, EmptyMap), NoPrice)
<1>1. n \in Nat /\ n \notin DOMAIN os /\ \A h \in DOMAIN os : OrderOK(at, h, os[h], n)
  <2>1. n \in Nat /\ \A h \in DOMAIN os : OrderOK(at, h, os[h], n)
    BY DEF StorageOK
  <2>2. \A h \in DOMAIN os : h < n
    BY <2>1 DEF OrderOK
  <2> QED BY <2>1, <2>2
<1>2. DOMAIN os1 = DOMAIN os \cup {n} /\ os1[n] = o /\ \A h \in DOMAIN os : os1[h] = os[h]
  BY <1>1 DEF Put
<1> HIDE DEF os1
<1>3. SameElsewhere(at, pair, os, os1)
  BY <1>2 DEF SameElsewhere
<1>4. TotalsOf(ps, os1, pair, list)
  <2>1. CASE pair \in DOMAIN ls
    <3>1. BookOK(at, pair, ls[pair], os)
      BY <2>1 DEF StorageOK
    <3>2. PICK buys, sells : Tidy(ls[pair], buys, sells)
      BY <3>1 DEF BookOK
    <3>3. Keyed(ls[pair], buys, sells)
      BY <3>2, KeysDiffer DEF Tidy
    <3>4. list = ls[pair]
      BY <2>1, <3>3 DEF GetOr, Ensure, Keyed
    <3> HIDE DEF list
    <3>5. ASSUME NEW p \in Levels(list) \ CanceledAt(ps, os1, pair)
          PROVE  LevelAdds(list, os1, p)
      <4>1. p \in Levels(list) \ CanceledAt(ps, os, pair) /\ p \in DOMAIN list
        BY <1>2, <3>5, CanceledStays DEF Levels
      <4>2. LevelAdds(list, os, p)
        BY <2>1, <3>4, <4>1 DEF Totals, TotalsOf
      <4>3. OfLevel(list, os, p)
        BY <1>1, <3>1, <3>4, <4>1, OrdersOfLevel
      <4>4. \A h \in QueueOf(list, p) : os1[h].remainedBuy = os[h].remainedBuy
        BY <1>2, <4>3 DEF OfLevel
      <4> QED BY <4>2, <4>3, <4>4, SameLevel
    <3> QED BY <3>5 DEF TotalsOf
  <2>2. CASE pair \notin DOMAIN ls
    <3>1. DOMAIN list = {Bottom, NoPrice, Top}
      BY <2>2, FreshIsTidy DEF GetOr
    <3> QED BY <3>1 DEF TotalsOf, Levels
  <2> QED BY <2>1, <2>2
<1> HIDE DEF list
<1>5. Totals(ps, os1, Put(ls, pair, list))
  BY <1>2, <1>3, <1>4, TotalsReplaced
<1> QED BY <1>5 DEF os1, list

(* Sums that fit an amount are what the machine computes. *)
LEMMA WrapsOfSums ==
  ASSUME NEW a \in Nat, NEW b \in Nat
  PROVE  /\ a + b <= MaxAmount => AddWrap(a, b) = a + b
         /\ b <= a /\ a <= MaxAmount => SubWrap(a, b) = a - b
<1>1. MaxAmount \in Nat
  BY MathAssumption
<1>2. \A x, m \in Nat : x <= m => x % (m + 1) = x
  OBVIOUS
<1>3. a + b \in Nat /\ (b <= a => a - b \in Nat /\ a - b <= a)
  OBVIOUS
<1> QED BY <1>1, <1>2, <1>3 DEF AddWrap, SubWrap

(* The orders of a level, and one more. *)
LEMMA AskedWithOne ==
  ASSUME NEW os, NEW S, IsFiniteSet(S), \A h \in S : os[h].remainedBuy \in Nat,
         NEW t, t \notin S, os[t].remainedBuy \in Nat
  PROVE  /\ AskedIn(os, S \cup {t}) = AskedIn(os, S) + os[t].remainedBuy
         /\ AskedIn(os, S) \in Nat
<1> DEFINE f == [h \in S |-> os[h].remainedBuy]
           g == [h \in S \cup {t} |-> os[h].remainedBuy]
<1>1. \A h \in S : f[h] = g[h]
  OBVIOUS
<1>2. \A h \in S : f[h] \in Nat
  OBVIOUS
<1>3. \A h \in S \cup {t} : g[h] \in Int
  OBVIOUS
<1>4. g[t] = os[t].remainedBuy
  OBVIOUS
<1>5. AskedIn(os, S) = SumFunctionOnSet(f, S)
  BY DEF AskedIn
<1>6. AskedIn(os, S \cup {t}) = SumFunctionOnSet(g, S \cup {t})
  BY DEF AskedIn
<1> HIDE DEF f, g
<1>7. SumFunctionOnSet(f, S) \in Nat
  BY <1>2, SumType
<1>8. SumFunctionOnSet(g, S \cup {t}) = SumFunctionOnSet(f, S) + g[t]
  BY <1>1, <1>3, SumWithOne
<1> QED BY <1>4, <1>5, <1>6, <1>7, <1>8


(* The level an order joins. *)
LEMMA JoinedLevel ==
  ASSUME NEW list, NEW os, NEW p, LevelAdds(list, os, p), OfLevel(list, os, p),
         NEW t, t \notin QueueOf(list, p), os[t].remainedBuy \in Nat,
         NEW new, QueueOf(new, p) = QueueOf(list, p) \cup {t},
         new[p].buyAmount = AddWrap(list[p].buyAmount, os[t].remainedBuy),
         AskedIn(os, QueueOf(new, p)) <= MaxAmount
  PROVE  LevelAdds(new, os, p)
<1>1. IsFiniteSet(QueueOf(list, p)) /\ \A h \in QueueOf(list, p) : os[h].remainedBuy \in Nat
  BY DEF OfLevel
<1>2. /\ AskedIn(os, QueueOf(list, p) \cup {t}) = AskedIn(os, QueueOf(list, p)) + os[t].remainedBuy
      /\ AskedIn(os, QueueOf(list, p)) \in Nat
  BY <1>1, AskedWithOne
<1>3. list[p].buyAmount = AskedIn(os, QueueOf(list, p))
  BY DEF LevelAdds
<1>4. AddWrap(list[p].buyAmount, os[t].remainedBuy) = list[p].buyAmount + os[t].remainedBuy
  BY <1>2, <1>3, WrapsOfSums
<1> QED BY <1>2, <1>3, <1>4 DEF LevelAdds

(* do_create_limit_order, after order_match: the order joins its level. *)
LEMMA TotalsWhenEntered ==
  ASSUME NEW ps, NEW at, NEW os, NEW ls, NEW n, NEW t, StorageOK(ps, at, os, ls, n, {t}),
         Totals(ps, os, ls), NEW pair \in DOMAIN ls, t \in DOMAIN os,
         \A q : ~Queued(ls[pair], q, t),
         NEW new, StorageOK(ps, at, os, Put(ls, pair, new), n, {}),
         \A p, h : Queued(new, p, h) <=> Queued(ls[pair], p, h) \/ (p = os[t].price /\ h = t),
         TotalsWith(new, ls[pair], os[t].price, os[t].remainedBuy),
         \A p \in Levels(new) \ CanceledAt(ps, os, pair) : AskedIn(os, QueueOf(new, p)) <= MaxAmount
  PROVE  Totals(ps, os, Put(ls, pair, new))
<1> DEFINE list == ls[pair]
           price == os[t].price
           buy == os[t].remainedBuy
<1>1. /\ \A h \in DOMAIN os : OrderOK(at, h, os[h], n)
      /\ BookOK(at, pair, list, os) /\ BookOK(at, pair, new, os)
  <2>1. pair \in DOMAIN Put(ls, pair, new) /\ Put(ls, pair, new)[pair] = new
    BY DEF Put
  <2> QED BY <2>1 DEF StorageOK
<1>2. buy \in Nat
  <2>1. os[t] \in OrderSet
    BY <1>1 DEF OrderOK
  <2> QED BY <2>1, MathAssumption DEF OrderSet, Amount
<1>3. /\ DOMAIN new = DOMAIN list \cup {price}
      /\ price \in DOMAIN list => new[price].buyAmount = AddWrap(list[price].buyAmount, buy)
      /\ price \notin DOMAIN list => new[price].buyAmount = buy
      /\ \A p \in DOMAIN list \ {price} : new[p].buyAmount = list[p].buyAmount
  BY DEF TotalsWith
<1>4. \A p, h : Queued(new, p, h) <=> Queued(list, p, h) \/ (p = price /\ h = t)
  OBVIOUS
<1>5. \A q : ~Queued(list, q, t)
  OBVIOUS
<1>6. pair \in DOMAIN ls /\ list = ls[pair]
  OBVIOUS
<1> HIDE DEF list, price, buy
<1>7. ASSUME NEW p \in Levels(new) \ CanceledAt(ps, os, pair)
      PROVE  LevelAdds(new, os, p)
  <2>1. p \in DOMAIN new /\ AskedIn(os, QueueOf(new, p)) <= MaxAmount
    BY <1>7 DEF Levels
  <2>2. OfLevel(new, os, p)
    BY <1>1, <2>1, OrdersOfLevel
  <2>3. ASSUME p \in DOMAIN list PROVE LevelAdds(list, os, p) /\ OfLevel(list, os, p)
    <3>1. LevelAdds(list, os, p)
      BY <1>6, <1>7, <2>3 DEF Totals, TotalsOf, Levels
    <3> QED BY <1>1, <2>3, <3>1, OrdersOfLevel
  <2>4. CASE p # price
    <3>1. LevelAdds(list, os, p) /\ OfLevel(list, os, p) /\ new[p].buyAmount = list[p].buyAmount
      BY <1>3, <2>1, <2>3, <2>4
    <3>2. QueueOf(new, p) = QueueOf(list, p)
      BY <1>4, <2>2, <2>4, <3>1 DEF OfLevel
    <3> QED BY <3>1, <3>2, SameLevel
  <2>5. CASE p = price /\ price \in DOMAIN list
    <3>1. LevelAdds(list, os, p) /\ OfLevel(list, os, p)
      BY <2>3, <2>5
    <3>2. t \notin QueueOf(list, p) /\ QueueOf(new, p) = QueueOf(list, p) \cup {t}
      BY <1>4, <1>5, <2>2, <2>5, <3>1 DEF OfLevel
    <3>3. new[p].buyAmount = AddWrap(list[p].buyAmount, os[t].remainedBuy) /\ os[t].remainedBuy \in Nat
      BY <1>2, <1>3, <2>5 DEF buy
    <3> QED BY <2>1, <3>1, <3>2, <3>3, JoinedLevel
  <2>6. CASE p = price /\ price \notin DOMAIN list
    <3>1. QueueOf(new, p) = {} \cup {t}
      <4>1. \A h : ~Queued(list, p, h)
        BY <2>6 DEF Queued
      <4>2. \A h : h \in QueueOf(new, p) <=> h = t
        BY <1>4, <2>2, <2>6, <4>1 DEF OfLevel
      <4> QED BY <4>2
    <3>2. AskedIn(os, {} \cup {t}) = AskedIn(os, {}) + os[t].remainedBuy
      BY <1>2, AskedWithOne, FS_EmptySet DEF buy
    <3>3. AskedIn(os, {}) = 0
      BY SumOfNone DEF AskedIn
    <3> QED BY <1>2, <1>3, <2>6, <3>1, <3>2, <3>3 DEF LevelAdds, buy
  <2> QED BY <2>4, <2>5, <2>6
<1>8. TotalsOf(ps, os, pair, new)
  BY <1>7 DEF TotalsOf
<1>9. SameElsewhere(at, pair, os, os)
  BY DEF SameElsewhere
<1> QED BY <1>8, <1>9, TotalsReplaced

(* The level of an order that a trade reduces. *)
LEMMA ReducedLevel ==
  ASSUME NEW list, NEW os, NEW x, LevelAdds(list, os, x), OfLevel(list, os, x),
         AskedIn(os, QueueOf(list, x)) <= MaxAmount,
         NEW hash \in QueueOf(list, x), NEW give \in Nat, give <= os[hash].remainedBuy,
         NEW os1, os1[hash].remainedBuy = os[hash].remainedBuy - give,
         \A h \in QueueOf(list, x) \ {hash} : os1[h].remainedBuy = os[h].remainedBuy,
         NEW list1, list1[x].buyAmount = SubWrap(list[x].buyAmount, give),
         \/ QueueOf(list1, x) = QueueOf(list, x)
         \/ os1[hash].remainedBuy = 0 /\ QueueOf(list1, x) = QueueOf(list, x) \ {hash}
  PROVE  LevelAdds(list1, os1, x)
<1> DEFINE S == QueueOf(list, x)
           R == S \ {hash}
<1>1. /\ IsFiniteSet(R) /\ hash \notin R /\ S = R \cup {hash}
      /\ \A h \in R : os[h].remainedBuy \in Nat
      /\ \A h \in R : os1[h].remainedBuy \in Nat
      /\ os[hash].remainedBuy \in Nat
  <2>1. IsFiniteSet(S) /\ \A h \in S : os[h].remainedBuy \in Nat
    BY DEF OfLevel
  <2>2. IsFiniteSet(R)
    BY <2>1, FS_Subset
  <2> QED BY <2>1, <2>2
<1>2. os1[hash].remainedBuy \in Nat /\ \A h \in R : os1[h].remainedBuy = os[h].remainedBuy
  BY <1>1
<1>3. list[x].buyAmount = AskedIn(os, S) /\ AskedIn(os, S) <= MaxAmount
  BY DEF LevelAdds
<1>4. \/ QueueOf(list1, x) = S
      \/ os1[hash].remainedBuy = 0 /\ QueueOf(list1, x) = R
  OBVIOUS
<1> HIDE DEF S, R
<1>5. AskedIn(os, S) = AskedIn(os, R) + os[hash].remainedBuy /\ AskedIn(os, R) \in Nat
  BY <1>1, AskedWithOne
<1>6. AskedIn(os1, S) = AskedIn(os1, R) + os1[hash].remainedBuy
  BY <1>1, <1>2, AskedWithOne
<1>7. AskedIn(os1, R) = AskedIn(os, R)
  <2> DEFINE f == [h \in R |-> os[h].remainedBuy]
             g == [h \in R |-> os1[h].remainedBuy]
  <2>1. \A h \in R : f[h] = g[h]
    BY <1>2
  <2>2. AskedIn(os, R) = SumFunctionOnSet(f, R) /\ AskedIn(os1, R) = SumFunctionOnSet(g, R)
    BY DEF AskedIn
  <2> HIDE DEF f, g
  <2>3. SumFunctionOnSet(f, R) = SumFunctionOnSet(g, R)
    BY <1>1, <2>1, SumSame
  <2> QED BY <2>2, <2>3
<1>8. SubWrap(list[x].buyAmount, give) = AskedIn(os, S) - give
  <2>1. AskedIn(os, S) \in Nat /\ give <= AskedIn(os, S)
    BY <1>1, <1>5
  <2> QED BY <1>3, <2>1, WrapsOfSums
<1>9. AskedIn(os1, S) = AskedIn(os, S) - give
  BY <1>1, <1>5, <1>6, <1>7
<1>10. AskedIn(os1, QueueOf(list1, x)) = AskedIn(os1, S)
  <2>1. CASE QueueOf(list1, x) = S
    BY <2>1
  <2>2. CASE os1[hash].remainedBuy = 0 /\ QueueOf(list1, x) = R
    BY <1>5, <1>6, <1>7, <2>2
  <2> QED BY <1>4, <2>1, <2>2
<1> QED BY <1>8, <1>9, <1>10 DEF LevelAdds

(* order_match, one trade: the level of the order that is matched has less *)
(* to ask for.                                                             *)
LEMMA TotalsWhenTraded ==
  ASSUME NEW ps, NEW at, NEW os, NEW ls, NEW n, NEW t, StorageOK(ps, at, os, ls, n, {t}),
         Totals(ps, os, ls), NEW pair \in DOMAIN ls, t \in DOMAIN os, PairIn(at, os[t]) = pair,
         \A q : ~Queued(ls[pair], q, t),
         NEW x, NEW hash, Queued(ls[pair], x, hash),
         NEW give \in Nat, NEW have, give <= os[hash].remainedBuy,
         NEW os1, os1 = TradedOrders(os, t, hash, give, have), NEW n1,
         NEW list1, StorageOK(ps, at, os1, Put(ls, pair, list1), n1, {t}),
         os1[t].base = os[t].base, os1[t].quote = os[t].quote,
         \A h \in DOMAIN os : IsFinished(os[h]) => os1[h] = os[h],
         \A p, h : Queued(list1, p, h)
                     <=> Queued(ls[pair], p, h) /\ ~(h \in DOMAIN os1 /\ IsFinished(os1[h])),
         TotalsWithout(list1, ls[pair], x, give),
         \A p \in Levels(ls[pair]) \ CanceledAt(ps, os, pair) :
           AskedIn(os, QueueOf(ls[pair], p)) <= MaxAmount
  PROVE  Totals(ps, os1, Put(ls, pair, list1))
<1> DEFINE list == ls[pair]
<1>1. /\ BookOK(at, pair, list, os) /\ \A h \in DOMAIN os : OrderOK(at, h, os[h], n)
      /\ BookOK(at, pair, list1, os1) /\ \A h \in DOMAIN os1 : OrderOK(at, h, os1[h], n1)
  <2>1. pair \in DOMAIN Put(ls, pair, list1) /\ Put(ls, pair, list1)[pair] = list1
    BY DEF Put
  <2> QED BY <2>1 DEF StorageOK
<1>2. PICK buys : Held(at, pair, list, os, buys)
  BY <1>1 DEF BookOK
<1>3. /\ \A p, h : Queued(list1, p, h)
                     <=> Queued(list, p, h) /\ ~(h \in DOMAIN os1 /\ IsFinished(os1[h]))
      /\ TotalsWithout(list1, list, x, give)
      /\ Queued(list, x, hash) /\ \A q : ~Queued(list, q, t)
      /\ \A p \in Levels(list) \ CanceledAt(ps, os, pair) : AskedIn(os, QueueOf(list, p)) <= MaxAmount
      /\ \A p \in Levels(list) \ CanceledAt(ps, os, pair) : LevelAdds(list, os, p)
  BY DEF Totals, TotalsOf
<1> HIDE DEF list
<1>4. /\ hash \in DOMAIN os /\ ~IsFinished(os[hash]) /\ hash # t
      /\ os[hash].price = x /\ PairIn(at, os[hash]) = pair
  BY <1>2, <1>3 DEF Held
<1>5. /\ DOMAIN os1 = DOMAIN os /\ \A h \in DOMAIN os \ {t, hash} : os1[h] = os[h]
      /\ os1[hash] = AfterTrade(os[hash], have, give)
  BY <1>4 DEF TradedOrders
<1>6. /\ os1[hash].remainedBuy = os[hash].remainedBuy - give
      /\ os1[hash].base = os[hash].base /\ os1[hash].quote = os[hash].quote
      /\ os1[hash].status # "Canceled" \/ os1[hash].status = os[hash].status
  <2>1. os[hash] \in OrderSet
    BY <1>1, <1>4 DEF OrderOK
  <2> QED BY <1>5, <2>1 DEF AfterTrade, OrderSet
<1>7. IsFinished(os1[hash]) => os1[hash].remainedBuy = 0
  <2>1. OrderOK(at, hash, os1[hash], n1)
    BY <1>1, <1>4, <1>5
  <2> QED BY <1>4, <1>6, <2>1 DEF OrderOK, IsFinished
<1>8. SameElsewhere(at, pair, os, os1)
  <2>1. PairIn(at, os1[t]) = pair /\ PairIn(at, os1[hash]) = pair
    BY <1>4, <1>6 DEF PairIn
  <2> QED BY <1>4, <1>5, <2>1 DEF SameElsewhere
<1>9. /\ \A h \in DOMAIN os : os[h].status = "Canceled" => os1[h] = os[h]
      /\ CanceledAt(ps, os, pair) \subseteq CanceledAt(ps, os1, pair)
  <2>1. \A h \in DOMAIN os : os[h].status = "Canceled" => os1[h] = os[h]
    BY DEF IsFinished
  <2> QED BY <1>5, <2>1, CanceledStays
<1>10. \A p, h : Queued(list, p, h) =>
         h \in DOMAIN os /\ ~IsFinished(os[h]) /\ os[h].price = p /\ h # t
  BY <1>2, <1>3 DEF Held
<1>11. ASSUME NEW p \in Levels(list1) \ CanceledAt(ps, os1, pair)
       PROVE  LevelAdds(list1, os1, p)
  <2>1. /\ p \in DOMAIN list1 /\ p \in DOMAIN list
        /\ list1[p].buyAmount = IF p = x THEN SubWrap(list[p].buyAmount, give) ELSE list[p].buyAmount
    BY <1>3, <1>11 DEF Levels, TotalsWithout
  <2>2. /\ p \in Levels(list) \ CanceledAt(ps, os, pair) /\ LevelAdds(list, os, p)
        /\ AskedIn(os, QueueOf(list, p)) <= MaxAmount
    BY <1>3, <1>9, <1>11, <2>1 DEF Levels
  <2>3. OfLevel(list, os, p) /\ OfLevel(list1, os1, p)
    BY <1>1, <2>1, OrdersOfLevel
  <2>4. \A h \in QueueOf(list, p) \ {hash} : os1[h] = os[h] /\ ~IsFinished(os[h])
    BY <1>5, <1>10, <2>3 DEF OfLevel
  <2>5. \A h : h \in QueueOf(list1, p) <=> h \in QueueOf(list, p) /\ ~(h = hash /\ IsFinished(os1[hash]))
    BY <1>3, <1>4, <1>5, <2>3, <2>4 DEF OfLevel
  <2>6. CASE p = x
    <3>1. hash \in QueueOf(list, p)
      BY <1>3, <2>3, <2>6 DEF OfLevel
    <3>2. \/ QueueOf(list1, p) = QueueOf(list, p)
          \/ os1[hash].remainedBuy = 0 /\ QueueOf(list1, p) = QueueOf(list, p) \ {hash}
      BY <1>7, <2>5
    <3>3. \A h \in QueueOf(list, p) \ {hash} : os1[h].remainedBuy = os[h].remainedBuy
      BY <2>4
    <3>4. list1[p].buyAmount = SubWrap(list[p].buyAmount, give)
      BY <2>1, <2>6
    <3> QED BY <1>6, <2>2, <2>3, <3>1, <3>2, <3>3, <3>4, ReducedLevel
  <2>7. CASE p # x
    <3>1. hash \notin QueueOf(list, p)
      BY <1>4, <2>3, <2>7 DEF OfLevel
    <3>2. QueueOf(list1, p) = QueueOf(list, p)
      BY <2>5, <3>1
    <3>3. \A h \in QueueOf(list, p) : os1[h].remainedBuy = os[h].remainedBuy
      BY <2>4, <3>1
    <3>4. list1[p].buyAmount = list[p].buyAmount
      BY <2>1, <2>7
    <3> QED BY <2>2, <2>3, <3>2, <3>3, <3>4, SameLevel
  <2> QED BY <2>6, <2>7
<1>12. TotalsOf(ps, os1, pair, list1)
  BY <1>11 DEF TotalsOf
<1> QED BY <1>8, <1>9, <1>12, TotalsReplaced

(* do_cancel_limit_order: the price is one of those that are excepted from *)
(* now on, and the other levels are as before.                             *)
LEMMA TotalsWhenCanceled ==
  ASSUME NEW ps, NEW at, NEW os, NEW ls, NEW n, NEW t, StorageOK(ps, at, os, ls, n, {}),
         Totals(ps, os, ls), t \in DOMAIN os, ~IsFinished(os[t]),
         NEW pair, pair = PairIn(at, os[t]), NEW left,
         Withdrawn(ps, at, os, ls, n, t, pair, left)
  PROVE  Totals(ps, [os EXCEPT ![t].status = "Canceled"], Put(ls, pair, left))
<1> DEFINE os1 == [os EXCEPT ![t].status = "Canceled"]
           list == ls[pair]
           price == os[t].price
<1>1. /\ StorageOK(ps, at, os1, Put(ls, pair, left), n, {})
      /\ pair \in DOMAIN ls /\ DOMAIN left = DOMAIN list
      /\ \A p \in DOMAIN list \ {price} : left[p] = list[p]
  BY DEF Withdrawn
<1>2. /\ DOMAIN os1 = DOMAIN os
      /\ \A h \in DOMAIN os : h # t => os1[h] = os[h]
      /\ os1[t] = [os[t] EXCEPT !.status = "Canceled"]
  OBVIOUS
<1> HIDE DEF os1
<1>3. BookOK(at, pair, list, os) /\ \A h \in DOMAIN os : OrderOK(at, h, os[h], n)
  BY <1>1 DEF StorageOK
<1>4. /\ os1[t].status = "Canceled" /\ os1[t].remainedBuy = os[t].remainedBuy
      /\ os1[t].price = price /\ os1[t].base = os[t].base /\ os1[t].quote = os[t].quote
  <2>1. os[t] \in OrderSet
    BY <1>3 DEF OrderOK
  <2> QED BY <1>2, <2>1 DEF OrderSet
<1>5. os[t].base = ps[pair].base /\ os[t].quote = ps[pair].quote
  BY <1>3 DEF StorageOK, PairsOK, OrderOK, PairIn
<1>6. SameElsewhere(at, pair, os, os1)
  <2>1. PairIn(at, os1[t]) = pair
    BY <1>4 DEF PairIn
  <2> QED BY <1>2, <2>1 DEF SameElsewhere
<1>7. \A h \in DOMAIN os : os[h].status = "Canceled" => os1[h] = os[h]
  BY <1>2 DEF IsFinished
<1>8. CanceledAt(ps, os, pair) \subseteq CanceledAt(ps, os1, pair)
  BY <1>2, <1>7, CanceledStays
<1>9. price \in CanceledAt(ps, os1, pair)
  BY <1>2, <1>4, <1>5 DEF CanceledAt
<1>10. ASSUME NEW p \in Levels(left) \ CanceledAt(ps, os1, pair)
       PROVE  LevelAdds(left, os1, p)
  <2>1. /\ p \in Levels(list) \ CanceledAt(ps, os, pair) /\ p \in DOMAIN list
        /\ left[p] = list[p]
    BY <1>1, <1>8, <1>9, <1>10 DEF Levels
  <2>2. LevelAdds(list, os, p) /\ OfLevel(list, os, p)
    BY <1>1, <1>3, <2>1, OrdersOfLevel DEF Totals, TotalsOf
  <2>3. QueueOf(left, p) = QueueOf(list, p)
    BY <2>1 DEF QueueOf
  <2>4. \A h \in QueueOf(list, p) : os1[h].remainedBuy = os[h].remainedBuy
    BY <1>2, <1>4, <2>2 DEF OfLevel
  <2> QED BY <2>1, <2>2, <2>3, <2>4, SameLevel
<1>11. TotalsOf(ps, os1, pair, left)
  BY <1>10 DEF TotalsOf
<1>12. Totals(ps, os1, Put(ls, pair, left))
  BY <1>6, <1>7, <1>11, TotalsReplaced
<1> QED BY <1>12 DEF os1

(* What a trade has done to the orders and to the list of its pair. *)
TakenFrom(hash, give, have, x, list1) ==
  LET t == call.order
      list == lists[call.pair]
  IN /\ Queued(list, x, hash) /\ give \in Nat /\ give <= orders[hash].remainedBuy
     /\ orders' = TradedOrders(orders, t, hash, give, have)
     /\ lists' = Put(lists, call.pair, list1)
     /\ StorageOK(pairs, pairAt, orders', lists', nonce + 1, {t})
     /\ orders'[t].base = orders[t].base /\ orders'[t].quote = orders[t].quote
     /\ \A h \in DOMAIN orders : IsFinished(orders[h]) => orders'[h] = orders[h]
     /\ \A p, h : Queued(list1, p, h)
                    <=> Queued(list, p, h) /\ ~(h \in DOMAIN orders' /\ IsFinished(orders'[h]))
     /\ TotalsWithout(list1, list, x, give)

LEMMA TradeTakes ==
  ASSUME IInv, call.phase = "trade", Trades
  PROVE  \E hash, give, have, x, list1 : TakenFrom(hash, give, have, x, list1)
<1> DEFINE t == call.order
           pair == call.pair
           list == lists[pair]
           otype == Opposite(Taker.otype)
           x == Best(list, otype)
           hash == Head(call.queue)
           maker == orders[hash]
           give == GiveOf(TheExchange)
           have == HaveOf(TheExchange)
           os1 == TradedOrders(orders, t, hash, give, have)
           swept == TradedSwept(orders, list, t, hash, give, have, otype)
<1>1. InProgress
  BY DEF InProgress
<1>2. /\ t \in DOMAIN orders
      /\ Taker \in OrderSet /\ Taker.otype \in OrderTypes
      /\ StorageOK(pairs, pairAt, orders, lists, nonce, {t})
      /\ pair \in DOMAIN lists /\ List(pair) = list
      /\ PairIn(pairAt, Taker) = pair
      /\ \A q : ~Queued(list, q, t)
  BY <1>1, TheTaker
<1>3. /\ Taker.status \notin {"Filled", "Canceled"}
      /\ x \in DOMAIN list /\ list[x].orders = call.queue /\ call.queue # <<>>
  BY <1>1 DEF IInv, Trading, Placing
<1>4. otype \in OrderTypes /\ MaxAmount \in Nat
  BY <1>2, OppositeType, MathAssumption
<1>5. PICK buys, sells : Tidy(list, buys, sells) /\ Held(pairAt, pair, list, orders, buys)
  BY <1>2 DEF StorageOK, BookOK
<1>6. hash = list[x].orders[1] /\ Queued(list, x, hash)
  <2>1. list[x].orders \in Seq(Nat) /\ Queued(list, x, list[x].orders[1])
    BY <1>3, <1>4, <1>5, BestLevel
  <2> QED BY <1>3, <2>1
<1>7. maker \in OrderSet /\ hash \in DOMAIN orders
  BY <1>1, TheMaker
<1>8. give \in Nat /\ have \in Nat
  <2>1. TheExchange.base \in Nat /\ TheExchange.quote \in Nat
    BY <1>2, <1>7, ExchangeAmounts DEF TheExchange
  <2> QED BY <2>1 DEF GiveOf, HaveOf
<1>9. Taker = orders[t]
  BY DEF Taker
<1>10. /\ give <= Taker.remainedSell /\ have <= Taker.remainedBuy
       /\ have <= maker.remainedSell /\ give <= maker.remainedBuy
  <2>1. /\ ~(give > Taker.remainedSell) /\ ~(have > Taker.remainedBuy)
        /\ ~(have > maker.remainedSell) /\ ~(give > maker.remainedBuy)
    BY DEF Trades, Records
  <2>2. /\ Taker.remainedSell \in Nat /\ Taker.remainedBuy \in Nat
        /\ maker.remainedSell \in Nat /\ maker.remainedBuy \in Nat
    BY <1>2, <1>4, <1>7 DEF OrderSet, Amount
  <2> HIDE DEF give, have, maker
  <2> QED BY <1>8, <2>1, <2>2
<1>11. orders' = os1 /\ lists' = Put(lists, pair, swept.list)
  <2> DEFINE orders1 == [orders EXCEPT ![t] = AfterTrade(Taker, give, have),
                                       ![hash] = AfterTrade(maker, have, give)]
             swept1 == Sweep(ReduceAmount(List(pair), maker.price, have, give), otype,
                             {h \in DOMAIN orders1 : IsFinished(orders1[h])})
  <2>1. orders' = orders1 /\ lists' = [lists EXCEPT ![pair] = swept1.list]
    BY Zenon DEF Trades, Records
  <2>2. orders1 = os1
    BY <1>9 DEF TradedOrders, TradedTaker
  <2>3. swept1 = swept
    BY <1>2, <2>2 DEF TradedSwept
  <2> HIDE DEF swept, swept1, orders1, os1
  <2>4. [lists EXCEPT ![pair] = swept1.list] = Put(lists, pair, swept1.list)
    BY <1>2 DEF Put
  <2> QED BY <2>1, <2>2, <2>3, <2>4
<1> HIDE DEF t, pair, list, otype, x, hash, maker, give, have, os1, swept
<1>12. list = lists[pair] /\ x = Best(list, otype) /\ maker = orders[hash]
  BY DEF list, x, maker
<1>13. TradeWrites(pairs, pairAt, orders, lists, nonce, t, pair, hash, give, have,
                   TradedOrders(orders, t, hash, give, have),
                   TradedSwept(orders, list, t, hash, give, have, otype), otype)
  BY <1>2, <1>3, <1>4, <1>6, <1>8, <1>9, <1>10, <1>12, TradedStorage, SMTT(20)
<1>14. TradeWrites(pairs, pairAt, orders, lists, nonce, t, pair, hash, give, have,
                   os1, swept, otype)
  BY <1>13 DEF os1, swept
<1>15. /\ StorageOK(pairs, pairAt, os1, Put(lists, pair, swept.list), nonce + 1, {t})
       /\ SameTerms(orders[t], os1[t])
       /\ \A h \in DOMAIN orders : IsFinished(orders[h]) => os1[h] = orders[h]
       /\ \A p, h : Queued(swept.list, p, h)
                      <=> Queued(list, p, h) /\ ~(h \in DOMAIN os1 /\ IsFinished(os1[h]))
       /\ TotalsWithout(swept.list, list, x, give)
  BY <1>12, <1>14 DEF TradeWrites
<1>16. TakenFrom(hash, give, have, x, swept.list)
  BY <1>6, <1>8, <1>10, <1>11, <1>12, <1>15 DEF TakenFrom, SameTerms, os1, t, pair
<1> QED BY <1>16

LEMMA TotalsStep ==
  ASSUME Regular, IInv, IInv', LevelsFit, LevelsFit', TotalsInv, [Next]_vars
  PROVE  TotalsInv'
<1>1. Idle.phase = "idle" /\ (call' = Idle => ~InProgress')
  BY IdleIsACall DEF InProgress
<1>2. /\ Totals(pairs, orders, lists)
      /\ StorageOK(pairs, pairAt, orders, lists, nonce, Taking)
      /\ nonce \in Nat /\ PairsOK(pairs, pairAt, nonce) /\ DOMAIN lists \subseteq DOMAIN pairs
      /\ \A h \in DOMAIN orders : OrderOK(pairAt, h, orders[h], nonce)
  BY DEF TotalsInv, IInv, StorageOK
<1>3. CASE Beside
  BY <1>3 DEF Beside, orderVars, callVars, TotalsInv, InProgress
<1>4. ASSUME NEW a, NEW b, NEW q, CreateTradePair(a, b, q)
      PROVE  TotalsInv'
  <2> DEFINE ps1 == Put(pairs, nonce, [base |-> b, quote |-> q])
  <2>1. /\ pairs' = ps1 /\ ~InProgress /\ call' = call
        /\ orders' = orders /\ lists' = lists
    BY <1>4 DEF CreateTradePair, Ready, InProgress, callVars
  <2>2. \A p \in DOMAIN lists : ps1[p] = pairs[p]
    <3>1. \A p \in DOMAIN lists : p \in Nat /\ p < nonce
      BY <1>2 DEF PairsOK
    <3>2. \A p \in DOMAIN lists : p \in DOMAIN pairs /\ p # nonce
      BY <1>2, <3>1
    <3> QED BY <3>2 DEF Put
  <2> HIDE DEF ps1
  <2>3. \A p \in DOMAIN lists : CanceledAt(pairs, orders, p) \subseteq CanceledAt(ps1, orders, p)
    BY <2>2, CanceledStays
  <2>4. Totals(ps1, orders, lists)
    BY <1>2, <2>3 DEF Totals, TotalsOf
  <2> QED BY <2>1, <2>4 DEF TotalsInv, InProgress
<1>5. ASSUME NEW a \in Accounts, NEW p \in DOMAIN pairs, NEW o, NEW x \in Nat, NEW n,
             CreateLimitOrder(a, p, o, x, n)
      PROVE  TotalsInv'
  <2> DEFINE new == NewOrder(a, p, o, x, n)
  <2>1. /\ orders' = Put(orders, nonce, new) /\ pairs' = pairs /\ saved' = Storage
        /\ lists' = Put(lists, p, Ensure(GetOr(lists, p, EmptyMap), NoPrice))
        /\ AcceptableTerms(o, x, n)
    BY <1>5 DEF CreateLimitOrder, Place, CanPlace, pairVars, List
  <2>2. new.base = pairs[p].base /\ new.quote = pairs[p].quote
    BY DEF NewOrder
  <2> HIDE DEF new
  <2>3. PairIn(pairAt, new) = p
    BY <1>2, <2>2 DEF PairsOK, PairIn
  <2>4. Bottom < Top
    <3>1. MaxAmount \in Nat /\ MaxAmount > 0
      BY <2>1, MathAssumption DEF AcceptableTerms
    <3> QED BY <3>1 DEF Bottom, Top
  <2>5. Totals(pairs, Put(orders, nonce, new),
               Put(lists, p, Ensure(GetOr(lists, p, EmptyMap), NoPrice)))
    BY <1>2, <2>3, <2>4, TotalsWhenPlaced
  <2>6. saved'.orders = orders /\ saved'.lists = lists
    BY <2>1 DEF Storage
  <2> QED BY <1>2, <2>1, <2>5, <2>6 DEF TotalsInv
<1>6. ASSUME NEW a, NEW h \in DOMAIN orders, CancelLimitOrder(a, h)
      PROVE  TotalsInv'
  <2> DEFINE pair == PairIn(pairAt, orders[h])
             left == RemoveOrder(List(pair), orders[h].price, h,
                                 orders[h].sellAmount, orders[h].buyAmount)
  <2>1. /\ orders' = [orders EXCEPT ![h].status = "Canceled"] /\ lists' = Put(lists, pair, left)
        /\ ~InProgress /\ call' = call /\ pairs' = pairs /\ ~IsFinished(orders[h])
        /\ Len(ItemAt(List(pair), orders[h].price).orders) > 1
    BY <1>6 DEF CancelLimitOrder, CanCancel, Ready, Regular, InProgress, callVars, pairVars, PairIn
  <2>2. StorageOK(pairs, pairAt, orders, lists, nonce, {})
    BY <1>2, <2>1 DEF Taking
  <2>3. orders[h].sellAmount \in Int /\ orders[h].buyAmount \in Int
    <3>1. orders[h] \in OrderSet /\ MaxAmount \in Nat
      BY <1>2, MathAssumption DEF OrderOK
    <3> QED BY <3>1 DEF OrderSet, Amount
  <2>4. pair = PairIn(pairAt, orders[h]) /\ List(pair) = GetOr(lists, pair, EmptyMap)
    BY DEF List
  <2> HIDE DEF pair
  <2>5. Withdrawn(pairs, pairAt, orders, lists, nonce, h, pair, left)
    BY <2>1, <2>2, <2>3, <2>4, CanceledStorage
  <2> HIDE DEF left
  <2>6. Totals(pairs, [orders EXCEPT ![h].status = "Canceled"], Put(lists, pair, left))
    BY <1>2, <2>1, <2>2, <2>4, <2>5, TotalsWhenCanceled
  <2> QED BY <2>1, <2>6 DEF TotalsInv, InProgress
<1>7. CASE InProgress /\ Rollback
  BY <1>1, <1>7 DEF Rollback, TotalsInv, pairVars
<1>8. CASE InProgress /\ Waits
  BY <1>8 DEF Waits, TotalsInv, pairVars, orderVars
<1>9. CASE /\ InProgress /\ FinishPlacing
           /\ NothingToMatch(Taker, Best(List(call.pair), Opposite(Taker.otype)))
  <2>1. call' = Idle /\ UNCHANGED <<pairs, pairAt, nonce, orders>>
    BY <1>9 DEF FinishPlacing, AfterPlacing, IInv, Calls, pairVars
  <2>2. CASE Taker.status = "Filled"
    <3>1. lists' = lists
      BY <1>9, <2>2 DEF FinishPlacing
    <3> QED BY <1>1, <1>2, <2>1, <3>1 DEF TotalsInv
  <2>3. CASE Taker.status # "Filled"
    <3> DEFINE t == call.order
               pair == call.pair
    <3>1. PICK new : Joined(new)
      BY <1>9, <2>3, TakerJoins
    <3>2. /\ StorageOK(pairs, pairAt, orders, lists, nonce, {t}) /\ pair \in DOMAIN lists
          /\ t \in DOMAIN orders /\ \A q : ~Queued(lists[pair], q, t) /\ Taker = orders[t]
      BY <1>9, TheTaker DEF Taker
    <3>3. /\ StorageOK(pairs, pairAt, orders, Put(lists, pair, new), nonce, {})
          /\ \A p, h : Queued(new, p, h)
                         <=> Queued(lists[pair], p, h) \/ (p = orders[t].price /\ h = t)
          /\ TotalsWith(new, lists[pair], orders[t].price, orders[t].remainedBuy)
          /\ lists' = Put(lists, pair, new)
      BY <3>1, <3>2 DEF Joined
    <3>4. \A p \in Levels(new) \ CanceledAt(pairs, orders, pair) :
            AskedIn(orders, QueueOf(new, p)) <= MaxAmount
      <4>1. pair \in DOMAIN lists' /\ lists'[pair] = new
        BY <3>3 DEF Put
      <4> QED BY <2>1, <4>1 DEF LevelsFit, FitsOf
    <3> HIDE DEF t, pair
    <3>5. Totals(pairs, orders, Put(lists, pair, new))
      BY <1>2, <3>2, <3>3, <3>4, TotalsWhenEntered
    <3> QED BY <1>1, <2>1, <3>3, <3>5 DEF TotalsInv
  <2> QED BY <2>2, <2>3
<1>10. CASE InProgress /\ call.phase = "trade" /\ Trades
  <2> DEFINE t == call.order
             pair == call.pair
  <2>1. pairs' = pairs /\ saved' = saved
    BY <1>10 DEF Trades, Records
  <2>2. PICK hash, give, have, x, list1 : TakenFrom(hash, give, have, x, list1)
    BY <1>10, TradeTakes
  <2>3. /\ StorageOK(pairs, pairAt, orders, lists, nonce, {t}) /\ pair \in DOMAIN lists
        /\ t \in DOMAIN orders /\ \A q : ~Queued(lists[pair], q, t)
        /\ PairIn(pairAt, orders[t]) = pair
    BY <1>10, TheTaker DEF Taker
  <2> DEFINE os1 == orders'
  <2>4. /\ Queued(lists[pair], x, hash) /\ give \in Nat /\ give <= orders[hash].remainedBuy
        /\ os1 = TradedOrders(orders, t, hash, give, have)
        /\ lists' = Put(lists, pair, list1)
        /\ StorageOK(pairs, pairAt, os1, Put(lists, pair, list1), nonce + 1, {t})
        /\ os1[t].base = orders[t].base /\ os1[t].quote = orders[t].quote
        /\ \A h \in DOMAIN orders : IsFinished(orders[h]) => os1[h] = orders[h]
        /\ \A p, h : Queued(list1, p, h)
                       <=> Queued(lists[pair], p, h) /\ ~(h \in DOMAIN os1 /\ IsFinished(os1[h]))
        /\ TotalsWithout(list1, lists[pair], x, give)
    BY <2>2 DEF TakenFrom
  <2>5. \A p \in Levels(lists[pair]) \ CanceledAt(pairs, orders, pair) :
          AskedIn(orders, QueueOf(lists[pair], p)) <= MaxAmount
    BY <2>3 DEF LevelsFit, FitsOf
  <2>6. os1 = orders'
    OBVIOUS
  <2> HIDE DEF t, pair, os1
  <2>7. Totals(pairs, os1, Put(lists, pair, list1))
    BY <1>2, <2>3, <2>4, <2>5, TotalsWhenTraded
  <2> QED BY <1>10, <2>1, <2>4, <2>6, <2>7 DEF TotalsInv
<1> QED
  <2>1. \A o \in LimitOrders : o[1] \in Accounts /\ o[3] \in Nat
    BY TradeAssumption, MathAssumption
  <2> QED BY <1>3, <1>4, <1>5, <1>6, <1>7, <1>8, <1>9, <1>10, <2>1,
             KindsOfStep, KindsOfLevel, KindsOfMatch

LEMMA TotalsInitially == Init => TotalsInv
<1>1. SUFFICES ASSUME Init PROVE TotalsInv
  OBVIOUS
<1>2. DOMAIN lists = {} /\ ~InProgress
  BY <1>1, IdleIsACall DEF Init, InProgress, EmptyMap
<1> QED BY <1>2 DEF TotalsInv, Totals

LEMMA TotalsMean == TotalsInv => LevelBuyTotals
<1>1. \A p : CanceledIn(p) = CanceledAt(pairs, orders, p)
  BY DEF CanceledIn, CanceledAt
<1>2. \A p, price : AskedAt(lists[p][price]) = AskedIn(orders, QueueOf(lists[p], price))
  BY DEF AskedAt, AskedIn, QueueOf, SumOf
<1> QED BY <1>1, <1>2 DEF TotalsInv, Totals, TotalsOf, LevelAdds, LevelBuyTotals

(* While callers do what Regular says: the buy_amount of every level of a  *)
(* list is what its orders still ask for, as long as that is an amount in  *)
(* every state, whatever limit orders are placed, matched and canceled.    *)
(* Prices at which an order was canceled are excepted:                     *)
(* do_cancel_limit_order takes off all the order asked for at first.       *)
THEOREM LevelsCountOnce ==
  ASSUME Regular
  PROVE  Spec /\ []LevelsFit => []LevelBuyTotals
<1>1. Init => TotalsInv
  BY TotalsInitially
<1>2. IInv /\ IInv' /\ LevelsFit /\ LevelsFit' /\ TotalsInv /\ [Next]_vars => TotalsInv'
  BY TotalsStep
<1>3. TotalsInv => LevelBuyTotals
  BY TotalsMean
<1> QED BY <1>1, <1>2, <1>3, InvariantHolds, PTL DEF Spec
============================================================================
