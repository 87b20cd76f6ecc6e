------------------------- MODULE TradeRefinement -------------------------
(***************************************************************************)
(* Trade implements OrderBook.  What an account owns is BalanceOf; what it *)
(* offers is read from Orders; what of FreezedBalanceOf no order offers is *)
(* stranded; the book is the set of unfinished orders, and not             *)
(* LinkedItemList.                                                         *)
(***************************************************************************)
EXTENDS TradeProperties

BookOf(all) ==
  [h \in {x \in DOMAIN all : ~IsFinished(all[x])} |->
     [owner |-> all[h].owner, otype |-> all[h].otype, price |-> all[h].price,
      sells |-> Sells(all[h]), buys |-> Buys(all[h]),
      remainedSell |-> all[h].remainedSell, remainedBuy |-> all[h].remainedBuy]]

(* What is frozen of each token and account beyond what its unfinished     *)
(* orders sell.                                                            *)
Stranded(l, all) ==
  [k \in T!Holdings |-> l.freezed[k] - RemainingIn(all, k[1], k[2])]

(* Between its placement and the end of its extrinsic an unfinished order  *)
(* is the taker.                                                           *)
Matching ==
  /\ call.phase \in {"match", "trade", "settle", "looping"}
  /\ call.order \in Live

Book == INSTANCE OrderBook WITH
  Tokens <- T!TokenHashes,
  wealth <- ledger.balance,
  book   <- BookOf(orders),
  stranded <- Stranded(ledger, orders),
  taker  <- IF Matching THEN [order |-> call.order, rests |-> ~call.market]
                        ELSE [order |-> -1, rests |-> FALSE],
  before <- IF Quiet THEN <<>>
            ELSE [wealth |-> saved.ledger.balance, book |-> BookOf(saved.orders),
                  stranded |-> Stranded(saved.ledger, saved.orders)]

(* Every step of an extrinsic is a step of the abstract order book, or one *)
(* it does not see.  Matching through the price list, and rolling back, do *)
(* nothing that OrderBook does not allow; and no step but the one in which *)
(* do_create_market_order marks a rest as filled (trade/lib.rs:779) leaves *)
(* funds frozen that no order sells, and that one exactly the rest.        *)
ImplementsOrderBook == Book!Spec
==========================================================================
