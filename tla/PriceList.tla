---------------------------- MODULE PriceList ----------------------------
(***************************************************************************)
(* The linked list of price levels of one trade pair                       *)
(* (pallets/trade/src/linked_price_list.rs).  A list is the storage map    *)
(* from a price, or NoPrice for the head, to a PriceItem: the buy levels   *)
(* lie between Bottom and the head, the sell levels between the head and   *)
(* Top, each linked to its neighbours by their prices.                     *)
(*                                                                         *)
(*     Bottom <-> 1 <-> 2 <-> head (NoPrice) <-> 4 <-> Top                 *)
(*                                                                         *)
(* Every operator takes a list and returns the list the function leaves in *)
(* storage.  The loops are functions of the number of rounds; a loop that  *)
(* has not ended after more rounds than it could do useful work never ends,*)
(* and says so.                                                            *)
(***************************************************************************)
EXTENDS OrderMath, StorageMaps, FiniteSets

CONSTANT NoPrice     \* the None of Option<Price>

ASSUME NoPriceAssumption == NoPrice \notin Int

Bottom == 0             \* P2::min_value()
Top == MaxAmount        \* P2::max_value()

Sentinel(prev, next, price) ==
  [prev |-> prev, next |-> next, price |-> price,
   buyAmount |-> 0, sellAmount |-> 0, orders |-> <<>>]

FreshHead == Sentinel(Bottom, Top, NoPrice)

(* read(price) of a key that is missing: the three sentinels are written   *)
(* anew, whatever else the list holds, and the head is returned.           *)
Fresh(list) ==
  Put(Put(Put(list, Bottom, Sentinel(Top, NoPrice, Bottom)),
          Top, Sentinel(NoPrice, Bottom, Top)),
      NoPrice, FreshHead)

Ensure(list, price) == IF price \in DOMAIN list THEN list ELSE Fresh(list)
ItemAt(list, price) == IF price \in DOMAIN list THEN list[price] ELSE FreshHead

HeadItem(list) == ItemAt(list, NoPrice)

NextMatchPrice(item, otype) == IF otype = "Buy" THEN item.prev ELSE item.next

-----------------------------------------------------------------------------
(* append *)

(* The loop of append stops at the item the new level is put behind. *)
Behind(item, price, end) ==
  \/ item.next = end
  \/ item.next # NoPrice /\ price < item.next

SideEnd(otype) == IF otype = "Buy" THEN NoPrice ELSE Top

Walk(list, price, otype) ==
  LET start == IF otype = "Buy" THEN Bottom ELSE NoPrice
      walk[n \in Nat] ==
        IF n = 0
        THEN [list |-> Ensure(list, start), item |-> ItemAt(list, start)]
        ELSE LET at == walk[n - 1] IN
             IF Behind(at.item, price, SideEnd(otype)) THEN at
             ELSE [list |-> Ensure(at.list, at.item.next),
                   item |-> ItemAt(at.list, at.item.next)]
  IN walk[2 * (Cardinality(DOMAIN list) + 3)]

(* Whether the loop of append ends. *)
AppendEnds(list, price, otype) ==
  \/ price \in DOMAIN list
  \/ Behind(Walk(list, price, otype).item, price, SideEnd(otype))

NewLevel(list, price, hash, sell, buy, otype) ==
  LET found  == Walk(list, price, otype)
      before == [found.item EXCEPT !.next = price]
      list1  == Put(found.list, before.price, before)
      after  == ItemAt(list1, found.item.next)
      list2  == Put(Ensure(list1, found.item.next),
                    after.price, [after EXCEPT !.prev = price])
  IN Put(list2, price,
         [prev |-> before.price, next |-> after.price, price |-> price,
          buyAmount |-> buy, sellAmount |-> sell, orders |-> <<hash>>])

(* Mutant: the newest order of a level is the first of its queue. *)
JoinLevelFirst(list, price, hash, sell, buy) ==
  [list EXCEPT ![price].orders     = <<hash>> \o @,
               ![price].buyAmount  = AddWrap(@, buy),
               ![price].sellAmount = AddWrap(@, sell)]

JoinLevel(list, price, hash, sell, buy) ==
  [list EXCEPT ![price].orders     = Append(@, hash),
               ![price].buyAmount  = AddWrap(@, buy),
               ![price].sellAmount = AddWrap(@, sell)]

AppendOrder(list, price, hash, sell, buy, otype) ==
  IF price \in DOMAIN list
  THEN JoinLevel(list, price, hash, sell, buy)
  ELSE NewLevel(list, price, hash, sell, buy, otype)

-----------------------------------------------------------------------------
(* Mutant: the two totals are mixed up. *)
ReduceAmountSwapped(list, price, sell, buy) ==
  LET item == ItemAt(list, price) IN
  Put(Ensure(list, price), price,
      [item EXCEPT !.buyAmount = SubWrap(@, sell), !.sellAmount = SubWrap(@, buy)])

(* update_reduce_amount, after a trade at that price *)
ReduceAmount(list, price, sell, buy) ==
  LET item == ItemAt(list, price) IN
  Put(Ensure(list, price), price,
      [item EXCEPT !.buyAmount  = SubWrap(@, buy),
                   !.sellAmount = SubWrap(@, sell)])

(* Mutant: the item is taken, and only the item before it is linked anew. *)
RemoveItemOneWay(list, price) ==
  IF price \notin DOMAIN list THEN list
  ELSE LET item == list[price]
           rest == Take(list, price)
       IN [p \in DOMAIN rest |->
             [rest[p] EXCEPT !.next = IF p = item.prev THEN item.next ELSE @]]

(* remove_item: the item is taken, and its neighbours, where there are any,*)
(* are linked to each other.                                               *)
RemoveItem(list, price) ==
  IF price \notin DOMAIN list THEN list
  ELSE LET item == list[price]
           rest == Take(list, price)
       IN [p \in DOMAIN rest |->
             [rest[p] EXCEPT !.next = IF p = item.prev THEN item.next ELSE @,
                             !.prev = IF p = item.next THEN item.prev ELSE @]]

(* remove_order, of a canceled order.  A level that has no order left is   *)
(* removed from the list, and then written back.                           *)
CanRemoveOrder(list, price, hash) ==
  price \in DOMAIN list => \E i \in DOMAIN list[price].orders : list[price].orders[i] = hash

(* Mutant: the totals are reduced, and the order stays in the queue. *)
RemoveOrderKeepsOrder(list, price, hash, sell, buy) ==
  IF price \notin DOMAIN list THEN list
  ELSE Put(list, price, [list[price] EXCEPT !.buyAmount  = SubWrap(@, buy),
                                            !.sellAmount = SubWrap(@, sell)])

RemoveOrder(list, price, hash, sell, buy) ==
  IF price \notin DOMAIN list THEN list
  ELSE LET left == [list[price] EXCEPT
                      !.orders     = Without(@, hash),
                      !.buyAmount  = SubWrap(@, buy),
                      !.sellAmount = SubWrap(@, sell)]
       IN Put(IF left.orders = <<>> THEN RemoveItem(list, price) ELSE list, price, left)

-----------------------------------------------------------------------------
(* remove_order_match_price and remove_orders_in_one_item, after a trade:  *)
(* from the best price on, levels all of whose orders are finished are     *)
(* removed, up to the first unfinished order.                              *)

MatchEnd(otype) == IF otype = "Buy" THEN Bottom ELSE Top

Best(list, otype) == NextMatchPrice(HeadItem(list), otype)

(* Mutant: a level goes once its oldest order is finished. *)
OldestFinished(item, finished) ==
  item.orders = <<>> \/ item.orders[1] \in finished

AllFinished(item, finished) ==
  \A i \in DOMAIN item.orders : item.orders[i] \in finished

(* The finished orders before the first unfinished one go. *)
DropFinished(list, price, finished) ==
  LET queue == list[price].orders
      first == CHOOSE i \in DOMAIN queue :
                 /\ queue[i] \notin finished
                 /\ \A j \in 1 .. (i - 1) : queue[j] \in finished
  IN [list EXCEPT ![price].orders = SubSeq(queue, first, Len(queue))]

(* The rounds that remove a whole level; a level that is missing changes   *)
(* nothing, so the loop looks for it forever, and no price at all panics.  *)
Sweep(list, otype, finished) ==
  LET sweep[n \in Nat] ==
        IF n = 0 THEN Ensure(list, NoPrice)
        ELSE LET l == sweep[n - 1]
                 b == Best(l, otype)
             IN IF b \in DOMAIN l \ {NoPrice, MatchEnd(otype)} /\ AllFinished(l[b], finished)
                THEN RemoveItem(l, b)
                ELSE l
      last == sweep[Cardinality(DOMAIN list)]
      best == Best(last, otype)
  IN CASE best = MatchEnd(otype) -> [list |-> last, result |-> "ok"]
       [] best = NoPrice         -> [list |-> last, result |-> "panics"]
       [] OTHER ->
            IF best \notin DOMAIN last THEN [list |-> last, result |-> "never ends"]
            ELSE [list |-> DropFinished(last, best, finished), result |-> "ok"]
-----------------------------------------------------------------------------
(* What these functions keep: a list that is closed into a circle and read *)
(* both ways, from Bottom over the buy levels to the head, and on over the *)
(* sell levels to Top, both in the order of their prices.                  *)

(* q is the level after p: the least one above p, or the end of the side.  *)
NextIn(levels, p, q, end) ==
  /\ q \in levels \cup {end}
  /\ q \in levels => p < q
  /\ \A x \in levels : p < x => q \in levels /\ q <= x

Sorted(list, buys, sells) ==
  /\ DOMAIN list = buys \cup sells \cup {Bottom, NoPrice, Top}
  /\ \A p \in buys \cup {Bottom} : NextIn(buys, p, list[p].next, NoPrice)
  /\ NextIn(sells, Bottom, list[NoPrice].next, Top)
  /\ \A p \in sells : NextIn(sells, p, list[p].next, Top)
  /\ list[Top].next = Bottom
  /\ \A p \in DOMAIN list :
       /\ list[p].price = p
       /\ list[p].next \in DOMAIN list /\ list[list[p].next].prev = p
       /\ list[p].prev \in DOMAIN list /\ list[list[p].prev].next = p
==========================================================================
