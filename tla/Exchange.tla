---------------------------- MODULE Exchange ----------------------------
(***************************************************************************)
(* Two orders that trade, seen apart from accounts and price lists: a taker*)
(* and a maker whose prices match exchange what calculate_ex_amount says;  *)
(* then another order takes the place of the one that is filled.  The      *)
(* orders that meet are therefore those that order_match brings together:  *)
(* new ones, and ones that earlier trades left with something.             *)
(***************************************************************************)
EXTENDS OrderMath

CONSTANTS
  OrderPrices,     \* the prices and the amounts of the orders placed
  OrderAmounts

ASSUME ExchangeAssumption == OrderPrices \cup OrderAmounts \subseteq 0 .. MaxAmount

(* The products of calculate_ex_amount, which are not checked, fit a u128: *)
(* the largest is PriceFactor times the base amount of an order.  Trade is *)
(* also run without this assumption, see MCTradeAnyCancel.                 *)
ASSUME WidthAssumption ==
  \A price \in OrderPrices, amount \in OrderAmounts :
    /\ amount * PriceFactor <= MaxAmount
    /\ ToBase(amount, price) * PriceFactor <= MaxAmount

VARIABLES taker, maker,
          last     \* the exchange of the last trade, and the orders before it

exchangeVars == <<taker, maker, last>>

(* Order::new, of an order that passes the checks of do_create_limit_order *)
PlacedOrder(otype, price, amount) ==
  [otype |-> otype, price |-> price,
   sellAmount |-> amount, buyAmount |-> Counterparty(otype, price, amount),
   remainedSell |-> amount, remainedBuy |-> Counterparty(otype, price, amount),
   status |-> "Created"]

NewOrders(otype) ==
  {PlacedOrder(otype, t[1], t[2]) :
     t \in {u \in OrderPrices \X OrderAmounts : AcceptableTerms(otype, u[1], u[2])}}

Matched(t, m) == PriceMatched(t.price, t.otype, m.price)

Give(t, ex) == IF t.otype = "Buy" THEN ex.base ELSE ex.quote
Have(t, ex) == IF t.otype = "Buy" THEN ex.quote ELSE ex.base

(* The orders a taker may find in the price list: new ones, and what new   *)
(* takers left of them.                                                    *)
RestingOrders(otype) ==
  NewOrders(otype) \cup
  {m \in {LET ex == CalculateExAmount(mt[1], mt[2])
          IN AfterTrade(mt[1], Have(mt[2], ex), Give(mt[2], ex)) :
            mt \in {u \in NewOrders(otype) \X NewOrders(Opposite(otype)) : Matched(u[2], u[1])}} :
     m.status # "Filled"}

NoTrade == [base |-> 0, quote |-> 0]

Init ==
  /\ \E otype \in OrderTypes :
       taker \in NewOrders(otype) /\ maker \in NewOrders(Opposite(otype))
  /\ Matched(taker, maker)
  /\ last = [ex |-> NoTrade, taker |-> taker, maker |-> maker]

(* The exchange in the loop of order_match. *)
Exchanged ==
  LET ex == CalculateExAmount(maker, taker) IN
  /\ taker.status # "Filled" /\ maker.status # "Filled"
  /\ taker' = AfterTrade(taker, Give(taker, ex), Have(taker, ex))
  /\ maker' = AfterTrade(maker, Have(taker, ex), Give(taker, ex))
  /\ last' = [ex |-> ex, taker |-> taker, maker |-> maker]

NextMaker ==
  /\ maker.status = "Filled" /\ taker.status # "Filled"
  /\ maker' \in RestingOrders(maker.otype)
  /\ Matched(taker, maker')
  /\ UNCHANGED taker
  /\ last' = [ex |-> NoTrade, taker |-> taker, maker |-> maker']

NextTaker ==
  /\ taker.status = "Filled" /\ maker.status # "Filled"
  /\ taker' \in NewOrders(taker.otype)
  /\ Matched(taker', maker)
  /\ UNCHANGED maker
  /\ last' = [ex |-> NoTrade, taker |-> taker', maker |-> maker]

Next == Exchanged \/ NextMaker \/ NextTaker

Spec == Init /\ [][Next]_exchangeVars

-----------------------------------------------------------------------------
(* Properties *)

(* Neither order pays more than it still offers nor takes more than it     *)
(* still asks for: the checked_sub of order_match never fail.              *)
NeitherExceedsItsRest ==
  \A o \in {taker, maker} :
    /\ o.remainedSell >= 0 /\ o.remainedSell <= o.sellAmount
    /\ o.remainedBuy >= 0 /\ o.remainedBuy <= o.buyAmount

(* A trade fills one of the two orders, so the loops of order_match get    *)
(* ahead with every trade.                                                 *)
OneIsFilled == last.ex # NoTrade => "Filled" \in {taker.status, maker.status}

(* The exchange is at the price of the maker up to one unit of one token,  *)
(* which the roundings of calculate_ex_amount may add or take.             *)
NearTheMakersPrice ==
  LET priced == last.ex.quote * last.maker.price
      paid   == last.ex.base * PriceFactor
      margin == IF last.maker.price > PriceFactor THEN last.maker.price ELSE PriceFactor
  IN priced - paid <= margin /\ paid - priced <= margin

(* Whatever an order has traded, it can pay for the rest of what it asks   *)
(* for at its own price: the roundings never leave it in the price list    *)
(* asking for more than it offers, or offering nothing.                    *)
RestAtItsPrice == \A o \in {taker, maker} : OffersItsPrice(o)
==========================================================================
