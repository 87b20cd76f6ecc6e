------------------------- MODULE OrderBookProofs -------------------------
(***************************************************************************)
(* That the orders that rest in the book never accept each other's prices, *)
(* for all accounts, tokens, prices and amounts.                           *)
(***************************************************************************)
EXTENDS OrderBook, TLAPS

Typed(b) == DOMAIN b \subseteq Nat /\ \A h \in DOMAIN b : b[h] \in Orders

(* The orders of a book but those of a set do not trade. *)
Crosses(o, p) ==
  /\ o.otype = Opposite(p.otype)
  /\ o.sells = p.buys /\ o.buys = p.sells
  /\ PriceMatched(o.price, o.otype, p.price)
Apart(b, out) == \A g, h \in DOMAIN b \ out : ~Crosses(b[g], b[h])

(* An order is matched only inside an extrinsic, whose snapshot holds no   *)
(* order that is being matched.                                            *)
IInv ==
  /\ Typed(book) /\ Apart(book, {taker.order})
  /\ taker # NoTaker => taker.order \in DOMAIN book /\ before # Nothing
  /\ before # Nothing => Typed(before.book) /\ Apart(before.book, {})

LEMMA CrossesBothWays ==
  ASSUME NEW o \in Orders, NEW p \in Orders
  PROVE  Crosses(o, p) <=> Crosses(p, o)
BY DEF Crosses, Orders, Opposite, OrderTypes, PriceMatched

(* A trade changes nothing that decides who trades with whom. *)
LEMMA ReducedStays ==
  ASSUME NEW o \in Orders, NEW give \in 0 .. o.remainedSell, NEW have \in 0 .. o.remainedBuy
  PROVE  /\ Reduced(o, give, have) \in Orders
         /\ \A p : /\ Crosses(Reduced(o, give, have), p) <=> Crosses(o, p)
                   /\ Crosses(p, Reduced(o, give, have)) <=> Crosses(p, o)
<1> DEFINE n == Reduced(o, give, have)
<1>1. /\ n.otype = o.otype /\ n.price = o.price /\ n.sells = o.sells /\ n.buys = o.buys
      /\ n.owner = o.owner
      /\ n.remainedSell = o.remainedSell - give /\ n.remainedBuy = o.remainedBuy - have
      /\ n = [o EXCEPT !.remainedSell = n.remainedSell, !.remainedBuy = n.remainedBuy]
  BY DEF Reduced, Orders
<1>2. o.remainedSell - give \in Nat /\ o.remainedBuy - have \in Nat
  BY DEF Orders
<1> HIDE DEF n
<1>3. n \in Orders
  BY <1>1, <1>2 DEF Orders
<1> QED  BY <1>1, <1>3 DEF Crosses, n

LEMMA FewerStayApart ==
  ASSUME NEW b, NEW gone, NEW out, Typed(b), Apart(b, out)
  PROVE  Typed(Without(b, gone)) /\ Apart(Without(b, gone), out)
BY DEF Typed, Apart, Without, Restrict

(* No key is the order of NoTaker. *)
LEMMA NobodyOut ==
  ASSUME NEW b, Typed(b)
  PROVE  Apart(b, {NoTaker.order}) <=> Apart(b, {})
BY DEF Typed, Apart, NoTaker

LEMMA NowIsSomething == Now # Nothing
<1>1. "book" \in DOMAIN Now
  BY DEF Now
<1>2. DOMAIN Nothing = {}
  BY DEF Nothing
<1> QED  BY <1>1, <1>2

LEMMA Initially == Init => IInv
BY DEF Init, IInv, Typed, Apart, Nothing

LEMMA PlaceStep == ASSUME IInv, Place PROVE IInv'
<1>1. PICK h \in DOMAIN book' \ DOMAIN book :
        /\ h \in Nat /\ book'[h] \in Orders
        /\ DOMAIN book' = DOMAIN book \cup {h} /\ Restrict(book', DOMAIN book) = book
        /\ taker'.order = h
  BY DEF Place
<1>2. \A g \in DOMAIN book : book'[g] = book[g]
  BY <1>1 DEF Restrict
<1>3. Apart(book, {}) /\ Typed(book)
  BY NobodyOut DEF Place, IInv
<1>4. Typed(book') /\ Apart(book', {taker'.order})
  BY <1>1, <1>2, <1>3 DEF Typed, Apart
<1>5. before' # Nothing /\ Typed(before'.book) /\ Apart(before'.book, {})
  <2>1. Now.book = book
    BY DEF Now
  <2> QED  BY <1>3, <2>1, NowIsSomething DEF Place, IInv
<1> QED  BY <1>1, <1>4, <1>5 DEF IInv

LEMMA ExchangedStays ==
  ASSUME Typed(book),
         NEW buyer \in DOMAIN book, NEW seller \in DOMAIN book, buyer # seller,
         NEW price, Exchanged(buyer, seller, price),
         NEW out, Apart(book, out)
  PROVE  Typed(book') /\ Apart(book', out) /\ DOMAIN book' \subseteq DOMAIN book
<1> DEFINE b == book[buyer]
           s == book[seller]
<1>1. PICK base \in 0 .. b.remainedSell, quote \in 0 .. b.remainedBuy :
        /\ quote <= s.remainedSell /\ base <= s.remainedBuy
        /\ book' = Without(Traded(buyer, seller, base, quote),
                           Filled(Traded(buyer, seller, base, quote)))
  BY DEF Exchanged
<1> DEFINE traded == Traded(buyer, seller, base, quote)
<1>2. b \in Orders /\ s \in Orders
  BY DEF Typed
<1>3. quote \in 0 .. s.remainedSell /\ base \in 0 .. s.remainedBuy
  BY <1>1, <1>2 DEF Orders
<1>4. /\ DOMAIN traded = DOMAIN book
      /\ traded[buyer] = Reduced(b, base, quote)
      /\ traded[seller] = Reduced(s, quote, base)
      /\ \A h \in DOMAIN book : h \notin {buyer, seller} => traded[h] = book[h]
  BY DEF Traded
<1>5. \A h \in DOMAIN book :
        /\ traded[h] \in Orders
        /\ \A p : /\ Crosses(traded[h], p) <=> Crosses(book[h], p)
                  /\ Crosses(p, traded[h]) <=> Crosses(p, book[h])
  <2>1. /\ traded[buyer] \in Orders
        /\ \A p : /\ Crosses(traded[buyer], p) <=> Crosses(b, p)
                  /\ Crosses(p, traded[buyer]) <=> Crosses(p, b)
    BY <1>2, <1>4, ReducedStays
  <2>2. /\ traded[seller] \in Orders
        /\ \A p : /\ Crosses(traded[seller], p) <=> Crosses(s, p)
                  /\ Crosses(p, traded[seller]) <=> Crosses(p, s)
    BY <1>2, <1>3, <1>4, ReducedStays
  <2> HIDE DEF traded
  <2> QED  BY <1>4, <2>1, <2>2 DEF Typed
<1> HIDE DEF traded
<1>6. Typed(traded) /\ Apart(traded, out)
  BY <1>4, <1>5 DEF Typed, Apart
<1>7. book' = Without(traded, Filled(traded))
  BY <1>1 DEF traded
<1>8. DOMAIN book' \subseteq DOMAIN book
  BY <1>4, <1>7 DEF Without, Restrict
<1> QED  BY <1>6, <1>7, <1>8, FewerStayApart

LEMMA TradeStep == ASSUME IInv, Trade PROVE IInv'
<1>1. /\ taker.order \in DOMAIN book /\ before # Nothing /\ before' = before
      /\ Typed(book) /\ Apart(book, {taker.order})
      /\ Typed(before.book) /\ Apart(before.book, {})
  BY DEF Trade, IInv
<1>2. PICK maker \in DOMAIN book :
        /\ BestFor(taker.order, maker)
        /\ \/ Exchanged(taker.order, maker, book[maker].price)
           \/ Exchanged(maker, taker.order, book[maker].price)
  BY DEF Trade
<1>3. taker.order # maker
  <2>1. book[taker.order].otype = Opposite(book[maker].otype)
    BY <1>2 DEF BestFor, OtherSide, Opposed
  <2>2. book[maker].otype \in OrderTypes
    BY <1>1 DEF Typed, Orders
  <2> QED  BY <2>1, <2>2 DEF Opposite, OrderTypes
<1>4. Typed(book') /\ Apart(book', {taker.order})
  <2>1. CASE Exchanged(taker.order, maker, book[maker].price)
    BY <1>1, <1>3, <2>1, ExchangedStays
  <2>2. CASE Exchanged(maker, taker.order, book[maker].price)
    BY <1>1, <1>3, <2>2, ExchangedStays
  <2> QED  BY <1>2, <2>1, <2>2
<1>5. CASE taker.order \in DOMAIN book'
  <2>1. taker' = taker
    BY <1>5 DEF Trade
  <2> QED  BY <1>1, <1>4, <1>5, <2>1 DEF IInv
<1>6. CASE taker.order \notin DOMAIN book'
  <2>1. taker' = NoTaker
    BY <1>6 DEF Trade
  <2>2. Apart(book', {})
    BY <1>4, <1>6 DEF Apart
  <2> QED  BY <1>1, <1>4, <2>1, <2>2, NobodyOut DEF IInv
<1> QED  BY <1>5, <1>6

(* The taker met nobody whose price it accepts, and none of the others     *)
(* accepts its price.                                                      *)
LEMMA RestStep == ASSUME IInv, Rest PROVE IInv'
<1>1. /\ taker.order \in DOMAIN book /\ before # Nothing /\ taker' = NoTaker
      /\ Typed(book) /\ Apart(book, {taker.order})
      /\ Typed(before.book) /\ Apart(before.book, {})
  BY DEF Rest, IInv
<1>2. CASE taker.rests
  <2>1. book' = book /\ before' = Nothing
    BY <1>2 DEF Rest
  <2>2. \A h \in DOMAIN book : ~Crosses(book[taker.order], book[h])
    BY <1>1 DEF Rest, OtherSide, Opposed, Accepts, Crosses
  <2>3. \A h \in DOMAIN book : ~Crosses(book[h], book[taker.order])
    BY <1>1, <2>2, CrossesBothWays DEF Typed
  <2>4. Apart(book, {})
    BY <1>1, <2>2, <2>3 DEF Apart
  <2> QED  BY <1>1, <2>1, <2>4, NobodyOut DEF IInv
<1>3. CASE ~taker.rests
  <2>1. book' = Without(book, {taker.order}) /\ before' = before
    BY <1>3 DEF Rest
  <2>2. Typed(book') /\ Apart(book', {taker.order})
    BY <1>1, <2>1, FewerStayApart
  <2>3. taker.order \notin DOMAIN book'
    BY <2>1 DEF Without, Restrict
  <2>4. Apart(book', {})
    BY <2>2, <2>3 DEF Apart
  <2> QED  BY <1>1, <2>1, <2>2, <2>4, NobodyOut DEF IInv
<1> QED  BY <1>2, <1>3

LEMMA Inductive == IInv /\ [Next]_bookVars => IInv'
<1> SUFFICES ASSUME IInv, [Next]_bookVars PROVE IInv'
  OBVIOUS
<1>1. CASE Issue
  BY <1>1 DEF Issue, IInv
<1>2. CASE Pay
  BY <1>2 DEF Pay, IInv
<1>3. CASE Begin
  <2>1. Now.book = book
    BY DEF Now
  <2>2. taker = NoTaker /\ taker' = taker /\ book' = book /\ before' = Now
    BY <1>3 DEF Begin, IInv
  <2>3. Typed(book) /\ Apart(book, {})
    BY <2>2, NobodyOut DEF IInv
  <2> QED  BY <2>1, <2>2, <2>3 DEF IInv
<1>4. CASE Place
  BY <1>4, PlaceStep
<1>5. CASE Trade
  BY <1>5, TradeStep
<1>6. CASE Rest
  BY <1>6, RestStep
<1>7. CASE Commit
  BY <1>7 DEF Commit, IInv
<1>8. CASE Undo
  <2>1. Typed(before.book) /\ Apart(before.book, {})
    BY <1>8 DEF Undo, IInv
  <2> QED  BY <1>8, <2>1, NobodyOut DEF Undo, IInv
<1>9. CASE CancelOrder
  <2>1. PICK h \in DOMAIN book : book' = Without(book, {h})
    BY <1>9 DEF CancelOrder
  <2>2. Typed(book') /\ Apart(book', {taker.order})
    BY <2>1, FewerStayApart DEF IInv
  <2> QED  BY <1>9, <2>2 DEF CancelOrder, IInv
<1>10. CASE UNCHANGED bookVars
  BY <1>10 DEF bookVars, IInv
<1> QED
  BY <1>1, <1>2, <1>3, <1>4, <1>5, <1>6, <1>7, <1>8, <1>9, <1>10 DEF Next

(* No two orders that rest in the book would trade with each other: what   *)
(* order_match leaves unmatched accepts no price of the other side, and    *)
(* cancellations, refused market orders and filled orders do not change    *)
(* that.                                                                   *)
THEOREM NeverCrossed == Spec => []NoneWouldTrade
<1>1. IInv => NoneWouldTrade
  BY DEF IInv, Apart, Crosses, NoneWouldTrade, Opposed, Accepts
<1> QED  BY <1>1, Initially, Inductive, PTL DEF Spec
==========================================================================
