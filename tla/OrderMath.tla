---------------------------- MODULE OrderMath ----------------------------
(***************************************************************************)
(* The integer arithmetic of pallet_trade (pallets/trade/src/lib.rs): what *)
(* an order asks for in return of what it sells, and how much a taker and  *)
(* a maker exchange.  A price is the number of base units per PriceFactor  *)
(* quote units.                                                            *)
(***************************************************************************)
EXTENDS Integers

CONSTANTS
  MaxAmount,     \* <Balance<T>>::max_value(), the largest u128
  PriceFactor    \* T::PriceFactor

ASSUME MathAssumption ==
  /\ MaxAmount \in Nat
  /\ PriceFactor \in Nat \ {0}

OrderTypes == {"Buy", "Sell"}

(* impl Not for OrderType *)
Opposite(otype) == IF otype = "Buy" THEN "Sell" ELSE "Buy"

(* u128 arithmetic in a release build wraps. *)
MulWrap(x, y) == (x * y) % (MaxAmount + 1)
AddWrap(x, y) == (x + y) % (MaxAmount + 1)
SubWrap(x, y) == (x - y) % (MaxAmount + 1)

-----------------------------------------------------------------------------
(* ensure_counterparty_amount_bounds computes in U256, which cannot        *)
(* overflow: the amount bought for what is sold, and back.                 *)
ToQuote(base, price) == (base * PriceFactor) \div price
ToBase(quote, price) == (quote * price) \div PriceFactor

Counterparty(otype, price, amount) ==
  IF otype = "Buy" THEN ToQuote(amount, price) ELSE ToBase(amount, price)

(* ensure_bounds, then the two checks of ensure_counterparty_amount_bounds:*)
(* converting back gives the amount sold, and the amount bought is in range*)
AcceptableTerms(otype, price, amount) ==
  /\ price > 0 /\ price <= MaxAmount
  /\ amount > 0 /\ amount <= MaxAmount
  /\ LET counter == Counterparty(otype, price, amount) IN
     /\ Counterparty(Opposite(otype), price, counter) = amount
     /\ counter # 0 /\ counter <= MaxAmount

-----------------------------------------------------------------------------
(* calculate_ex_amount computes in u128, at the maker's price. *)
ExQuote(base, price) == MulWrap(base, PriceFactor) \div price
ExBase(quote, price) == MulWrap(quote, price) \div PriceFactor

(* Mutant: whether the buyer asks for that much is not looked at. *)
SellerFilledUnchecked(buyer, seller, price) ==
  seller.remainedBuy <= buyer.remainedSell

(* Which of the two orders the exchange fills. *)
SellerFilled(buyer, seller, price) ==
  IF seller.remainedBuy <= buyer.remainedSell
  THEN buyer.remainedBuy >= ExQuote(seller.remainedBuy, price)
  ELSE seller.remainedBuy < ExBase(buyer.remainedBuy, price)

(* Mutant: one unit more, whether or not the buyer still asks for it. *)
FillSellerUnchecked(buyer, seller, price) ==
  LET quote == ExQuote(seller.remainedBuy, price) IN
  [base  |-> seller.remainedBuy,
   quote |-> IF ExBase(quote, price) # seller.remainedBuy THEN AddWrap(quote, 1) ELSE quote]

(* The seller receives all it still asks for, and gives one unit more of   *)
(* the quote token when the division left a fraction.                      *)
FillSeller(buyer, seller, price) ==
  LET quote == ExQuote(seller.remainedBuy, price)
      fraction == /\ ExBase(quote, price) # seller.remainedBuy
                  /\ buyer.remainedBuy > quote
  IN [base  |-> seller.remainedBuy,
      quote |-> IF fraction THEN AddWrap(quote, 1) ELSE quote]

(* Mutant: a fraction is rounded in favour of the buyer. *)
FillBuyerRoundsDown(buyer, seller, price) ==
  [base |-> ExBase(buyer.remainedBuy, price), quote |-> buyer.remainedBuy]

(* The buyer receives all it still asks for, and pays one unit more of the *)
(* base token when the division left a fraction.                           *)
FillBuyer(buyer, seller, price) ==
  LET base == ExBase(buyer.remainedBuy, price)
      fraction == /\ ExQuote(base, price) # buyer.remainedBuy
                  /\ seller.remainedBuy > base
  IN [base  |-> IF fraction THEN AddWrap(base, 1) ELSE base,
      quote |-> buyer.remainedBuy]

(* Mutant: the price is that of the taker. *)
CalculateAtTakersPrice(maker, taker) ==
  LET buyer  == IF taker.otype = "Buy" THEN taker ELSE maker
      seller == IF taker.otype = "Buy" THEN maker ELSE taker
  IN IF SellerFilled(buyer, seller, taker.price)
     THEN FillSeller(buyer, seller, taker.price)
     ELSE FillBuyer(buyer, seller, taker.price)

CalculateExAmount(maker, taker) ==
  LET buyer  == IF taker.otype = "Buy" THEN taker ELSE maker
      seller == IF taker.otype = "Buy" THEN maker ELSE taker
  IN IF SellerFilled(buyer, seller, maker.price)
     THEN FillSeller(buyer, seller, maker.price)
     ELSE FillBuyer(buyer, seller, maker.price)

-----------------------------------------------------------------------------
(* Mutants: PartialFilled is assigned after Filled; what an order gave     *)
(* remains to be sold.                                                     *)
AfterTradePartialLast(o, give, have) ==
  LET filled == o.remainedBuy = have IN
  [o EXCEPT
     !.remainedSell = IF filled THEN 0 ELSE @ - give,
     !.remainedBuy  = @ - have,
     !.status = IF o.remainedSell = o.sellAmount THEN "PartialFilled"
                ELSE IF filled THEN "Filled" ELSE @]

AfterTradeKeepsSell(o, give, have) ==
  LET filled == o.remainedBuy = have IN
  [o EXCEPT
     !.remainedSell = IF filled THEN 0 ELSE @,
     !.remainedBuy  = @ - have,
     !.status = IF filled THEN "Filled" ELSE "PartialFilled"]

(* An order that gave and had; one that has all it asked for is filled,    *)
(* and gives nothing more.                                                 *)
AfterTrade(o, give, have) ==
  LET filled == o.remainedBuy = have IN
  [o EXCEPT
     !.remainedSell = IF filled THEN 0 ELSE @ - give,
     !.remainedBuy  = @ - have,
     !.status = IF filled THEN "Filled"
                ELSE IF o.remainedSell = o.sellAmount THEN "PartialFilled" ELSE @]

(* Mutants: nothing is released; it is released before the order gives. *)
LeftoverNone(o, give, have) == 0
LeftoverBeforePaying(o, give, have) == IF o.remainedBuy = have THEN o.remainedSell ELSE 0

(* What is released to an order that is filled. *)
Leftover(o, give, have) == IF o.remainedBuy = have THEN o.remainedSell - give ELSE 0

(* What is left of an order: what it asks for is worth no more, at its own *)
(* price, than what it offers.                                             *)
OffersItsPrice(o) ==
  IF o.otype = "Buy"
  THEN o.remainedBuy * o.price <= o.remainedSell * PriceFactor
  ELSE o.remainedBuy * PriceFactor <= o.remainedSell * o.price

(* Mutant: orders of the same price do not match. *)
PriceMatchedStrictly(orderPrice, otype, itemPrice) ==
  IF otype = "Sell" THEN orderPrice < itemPrice ELSE orderPrice > itemPrice

(* price_matched *)
PriceMatched(orderPrice, otype, itemPrice) ==
  IF otype = "Sell" THEN orderPrice <= itemPrice ELSE orderPrice >= itemPrice
==========================================================================
