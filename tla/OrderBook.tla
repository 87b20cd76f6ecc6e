---------------------------- MODULE OrderBook ----------------------------
(***************************************************************************)
(* What pallet_trade promises to its users, said without the price list,   *)
(* the three balances of a token, the statuses of orders and the vectors of*)
(* hashes: there are accounts that own amounts of tokens, and a book of    *)
(* unfinished orders.                                                      *)
(*                                                                         *)
(*   - What the orders of an account still offer cannot be spent or offered*)
(*     again.  Nothing else is withheld from it, except what market orders *)
(*     left over: that is stranded, and no call gives it back.             *)
(*   - A new order trades with the best order on the other side, the oldest*)
(*     of several at a price, until it is filled or nobody accepts its     *)
(*     price; only then it rests.                                          *)
(*   - A trade fills one of the two, at the price of the one that was there*)
(*     up to a unit, and leaves both able to pay for the rest they ask for.*)
(*   - An order leaves the book when it is filled or canceled, and then    *)
(*     withholds nothing any more; an order of a market order leaves it    *)
(*     when nobody accepts its price, and what it still offers is stranded.*)
(*   - Once it has been placed, nothing that it meets makes an order fail. *)
(*     A market order is a series of orders, and either all are kept or    *)
(*     none.                                                               *)
(*                                                                         *)
(* Trade is shown to implement this (TradeRefinement), with `stranded' read*)
(* off the frozen balances: so what is frozen is exactly what the orders   *)
(* offer and what is stranded.  A specification of what may happen: it does*)
(* not say that a payment or an order that is possible here is accepted.   *)
(***************************************************************************)
EXTENDS OrderMath, Functions, FiniteSets

CONSTANTS Accounts, Tokens

VARIABLES
  wealth,    \* <<account, token>> -> what the account owns, offered or not
  book,      \* order -> the unfinished order; a newer order is larger
  stranded,  \* <<account, token>> -> what market orders left over
  taker,     \* the order that is being matched, and whether it may rest
  before     \* wealth, book and stranded before the extrinsic in progress

bookVars == <<wealth, book, stranded, taker, before>>

Holdings == Accounts \X Tokens

Orders ==
  [owner : Accounts, otype : OrderTypes, price : Nat, sells : Tokens, buys : Tokens,
   remainedSell : Nat, remainedBuy : Nat]

NoTaker == [order |-> -1, rests |-> FALSE]
Nothing == <<>>
Now == [wealth |-> wealth, book |-> book, stranded |-> stranded]

Without(b, gone) == Restrict(b, DOMAIN b \ gone)

(* What an account owns, does not offer, and has not lost to a market order.*)
Offered(account, token) ==
  LET mine == {h \in DOMAIN book : book[h].owner = account /\ book[h].sells = token}
  IN SumFunctionOnSet([h \in mine |-> book[h].remainedSell], mine)
Free(account, token) ==
  wealth[<<account, token>>] - Offered(account, token) - stranded[<<account, token>>]

Moved(w, from, to, token, amount) ==
  [w EXCEPT ![<<from, token>>] = @ - amount, ![<<to, token>>] = @ + amount]

-----------------------------------------------------------------------------
(* Who trades with whom *)

Opposed(a, b) ==
  /\ book[a].otype = Opposite(book[b].otype)
  /\ book[a].sells = book[b].buys /\ book[a].buys = book[b].sells

Accepts(a, b) == PriceMatched(book[a].price, book[a].otype, book[b].price)

(* a comes before b, two orders of one side. *)
Before(a, b) ==
  \/ book[a].price = book[b].price /\ a < b
  \/ book[a].price # book[b].price /\ (book[a].otype = "Buy" <=> book[a].price > book[b].price)

OtherSide(a) == {b \in DOMAIN book : Opposed(a, b)}

(* The order a trades with next. *)
BestFor(a, b) ==
  /\ b \in OtherSide(a) /\ Accepts(a, b)
  /\ \A c \in OtherSide(a) \ {b} : Before(b, c)

(* The order once it gave and had; it takes the rest back when it is       *)
(* filled, which is when it leaves the book.                               *)
Reduced(o, give, have) ==
  [o EXCEPT !.remainedSell = @ - give, !.remainedBuy = @ - have]

AtPrice(price, base, quote) ==
  \E unit \in {price, PriceFactor} :
    quote * price - base * PriceFactor \in -unit .. unit

Fair(buyer, seller, price, base, quote) ==
  LET b == Reduced(buyer, base, quote)
      s == Reduced(seller, quote, base)
  IN /\ b.remainedBuy = 0 \/ s.remainedBuy = 0
     /\ b.remainedBuy > 0 => OffersItsPrice(b)
     /\ s.remainedBuy > 0 => OffersItsPrice(s)
     /\ base > 0 /\ quote > 0
     /\ AtPrice(price, base, quote)

-----------------------------------------------------------------------------
Init ==
  /\ wealth \in [Holdings -> Nat]
  /\ book = [h \in {} |-> h]
  /\ stranded = [h \in Holdings |-> 0]
  /\ taker = NoTaker
  /\ before = Nothing

(* An account issues a token nobody has, and pays with what it does not    *)
(* offer.                                                                  *)
Issue ==
  /\ before = Nothing
  /\ \E h \in Holdings :
       /\ \A a \in Accounts : wealth[<<a, h[2]>>] = 0
       /\ wealth' = [wealth EXCEPT ![h] = wealth'[h]]
       /\ wealth'[h] >= 0
  /\ UNCHANGED <<book, stranded, taker, before>>

Pay ==
  /\ before = Nothing
  /\ \E from, to \in Accounts, token \in Tokens : \E amount \in 0 .. Free(from, token) :
       wealth' = Moved(wealth, from, to, token, amount)
  /\ UNCHANGED <<book, stranded, taker, before>>

(* A market order begins; it may end having placed nothing. *)
Begin ==
  /\ before = Nothing /\ before' = Now
  /\ UNCHANGED <<wealth, book, stranded, taker>>

(* A new order: the extrinsic itself, or one of the series of a market     *)
(* order.  It offers something free, and exactly its price.                *)
Place ==
  /\ taker = NoTaker
  /\ \E h \in DOMAIN book' \ DOMAIN book, rests \in BOOLEAN :
       LET o == book'[h] IN
       /\ h \in Nat /\ o \in Orders
       /\ \A g \in DOMAIN book : g < h
       /\ DOMAIN book' = DOMAIN book \cup {h} /\ Restrict(book', DOMAIN book) = book
       /\ AcceptableTerms(o.otype, o.price, o.remainedSell)
       /\ o.remainedBuy = Counterparty(o.otype, o.price, o.remainedSell)
       /\ o.remainedSell <= Free(o.owner, o.sells)
       /\ taker' = [order |-> h, rests |-> rests]
       /\ rests <=> before = Nothing
  /\ before' = IF before = Nothing THEN Now ELSE before
  /\ UNCHANGED <<wealth, stranded>>

(* base is what the buyer gives, quote what it has for it. *)
Traded(buyer, seller, base, quote) ==
  [book EXCEPT ![buyer]  = Reduced(@, base, quote),
               ![seller] = Reduced(@, quote, base)]

Filled(b) == {h \in DOMAIN b : b[h].remainedBuy = 0}

Exchanged(buyer, seller, price) ==
  LET b == book[buyer]
      s == book[seller]
  IN \E base \in 0 .. b.remainedSell, quote \in 0 .. b.remainedBuy :
       LET traded == Traded(buyer, seller, base, quote)
       IN /\ quote <= s.remainedSell /\ base <= s.remainedBuy
          /\ Fair(b, s, price, base, quote)
          /\ book' = Without(traded, Filled(traded))
          /\ wealth' = Moved(Moved(wealth, b.owner, s.owner, b.sells, base),
                             s.owner, b.owner, s.sells, quote)

Trade ==
  /\ taker # NoTaker
  /\ \E maker \in DOMAIN book :
       /\ BestFor(taker.order, maker)
       /\ IF book[maker].otype = "Sell"
          THEN Exchanged(taker.order, maker, book[maker].price)
          ELSE Exchanged(maker, taker.order, book[maker].price)
  /\ taker' = IF taker.order \in DOMAIN book' THEN taker ELSE NoTaker
  /\ UNCHANGED <<before, stranded>>

(* Nobody trades with the taker: it rests, and that ends its extrinsic, or *)
(* it was placed by a market order, which goes on without it, and its rest *)
(* is stranded.                                                            *)
Rest ==
  /\ taker # NoTaker
  /\ \A b \in OtherSide(taker.order) : ~Accepts(taker.order, b)
  /\ taker' = NoTaker
  /\ IF taker.rests
     THEN before' = Nothing /\ UNCHANGED <<book, stranded>>
     ELSE LET o == book[taker.order] IN
          /\ book' = Without(book, {taker.order})
          /\ stranded' = [stranded EXCEPT ![<<o.owner, o.sells>>] = @ + o.remainedSell]
          /\ UNCHANGED before
  /\ UNCHANGED wealth

Commit ==
  /\ before # Nothing /\ taker = NoTaker
  /\ before' = Nothing
  /\ UNCHANGED <<wealth, book, stranded, taker>>

(* A market order that cannot go on has done nothing. *)
Undo ==
  /\ before # Nothing /\ taker = NoTaker
  /\ wealth' = before.wealth /\ book' = before.book /\ stranded' = before.stranded
  /\ before' = Nothing
  /\ UNCHANGED taker

CancelOrder ==
  /\ before = Nothing
  /\ \E h \in DOMAIN book : book' = Without(book, {h})
  /\ UNCHANGED <<wealth, stranded, taker, before>>

Next ==
  Issue \/ Pay \/ Begin \/ Place \/ Trade \/ Rest \/ Commit \/ Undo \/ CancelOrder

Spec == Init /\ [][Next]_bookVars

-----------------------------------------------------------------------------
(* No two orders that rest would trade with each other, also not when a    *)
(* market order has been undone or has left.                               *)
NoneWouldTrade ==
  \A a, b \in DOMAIN book \ {taker.order} : Opposed(a, b) => ~Accepts(a, b)
==========================================================================
