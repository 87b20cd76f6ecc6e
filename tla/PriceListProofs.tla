------------------------- MODULE PriceListProofs -------------------------
(***************************************************************************)
(* That the functions of a price list keep it linked both ways, in the     *)
(* order of its prices, and filled with the orders they are given, for     *)
(* lists of any length: the links they write, the loop of append, the sweep*)
(* after a trade, and what a cancellation takes out of a queue.            *)
(*                                                                         *)
(* The head has no price, and the same prices may be those of buy or of    *)
(* sell levels, so where single links are written the order is that of a   *)
(* rank of the keys; of whole functions it is that of Sorted.  The loops   *)
(* are recursive functions: SumProofs has what is needed to unfold them.   *)
(***************************************************************************)
EXTENDS PriceList, SumProofs, SequenceTheorems, TLAPS

Keys == Int \cup {NoPrice}

Items ==
  [prev : Keys, next : Keys, price : Keys, buyAmount : Int, sellAmount : Int,
   orders : Seq(Nat)]

Stored(list) == \A p \in DOMAIN list : list[p] \in Items /\ list[p].price = p

(* Every item is the previous one of its next, and the next one of its     *)
(* previous.                                                               *)
Linked(list) ==
  /\ Stored(list)
  /\ \A p \in DOMAIN list :
       /\ list[p].next \in DOMAIN list /\ list[list[p].next].prev = p
       /\ list[p].prev \in DOMAIN list /\ list[list[p].prev].next = p

(* From Bottom to Top, around which the list is closed. *)
Ordered(list, rank) ==
  \A p \in DOMAIN list \ {Top} : rank[p] < rank[list[p].next]

-----------------------------------------------------------------------------
(* What an update of the links of one item leaves alone. *)
Relink(item, next, prev) == [item EXCEPT !.next = next, !.prev = prev]

LEMMA Relinked ==
  ASSUME NEW item \in Items, NEW next \in Keys, NEW prev \in Keys
  PROVE  /\ Relink(item, next, prev) \in Items
         /\ Relink(item, next, prev).orders = item.orders
         /\ Relink(item, next, prev).buyAmount = item.buyAmount
         /\ Relink(item, next, prev).next = next
         /\ Relink(item, next, prev).prev = prev
         /\ Relink(item, next, prev).price = item.price
BY DEF Items, Relink

(* A list with the same links as one that is linked is linked. *)
LEMMA SameLinks ==
  ASSUME NEW list, Linked(list), NEW new, DOMAIN new = DOMAIN list,
         \A p \in DOMAIN list :
           /\ new[p] \in Items /\ new[p].price = p
           /\ new[p].next = list[p].next /\ new[p].prev = list[p].prev
  PROVE  Linked(new)
<1>1. Stored(new)
  BY DEF Stored
<1>2. ASSUME NEW p \in DOMAIN list
      PROVE  /\ new[p].next \in DOMAIN new /\ new[new[p].next].prev = p
             /\ new[p].prev \in DOMAIN new /\ new[new[p].prev].next = p
  <2>1. /\ list[p].next \in DOMAIN list /\ list[list[p].next].prev = p
        /\ list[p].prev \in DOMAIN list /\ list[list[p].prev].next = p
    BY DEF Linked
  <2>2. new[p].next = list[p].next /\ new[p].prev = list[p].prev
    OBVIOUS
  <2>3. new[list[p].next].prev = list[list[p].next].prev
    BY <2>1
  <2>4. new[list[p].prev].next = list[list[p].prev].next
    BY <2>1
  <2> QED  BY <2>1, <2>2, <2>3, <2>4
<1> QED  BY <1>1, <1>2 DEF Linked

(* What is left of the levels has the totals it had. *)
SameTotals(left, list) ==
  \A p \in DOMAIN left : p \in DOMAIN list /\ left[p].buyAmount = list[p].buyAmount

(* remove_item links the neighbours of what it takes to each other, whether*)
(* they are levels, sentinels or one and the same item: matching removes   *)
(* the levels it has emptied this way.                                     *)
THEOREM RemovalKeepsLinks ==
  ASSUME NEW list, Linked(list), NEW price \in DOMAIN list
  PROVE  /\ Linked(RemoveItem(list, price))
         /\ DOMAIN RemoveItem(list, price) = DOMAIN list \ {price}
         /\ \A p \in DOMAIN list \ {price} :
              /\ RemoveItem(list, price)[p].next
                   = IF p = list[price].prev THEN list[price].next ELSE list[p].next
              /\ RemoveItem(list, price)[p].orders = list[p].orders
              /\ RemoveItem(list, price)[p].buyAmount = list[p].buyAmount
<1> DEFINE item == list[price]
           left == RemoveItem(list, price)
           next(p) == IF p = item.prev THEN item.next ELSE list[p].next
           prev(p) == IF p = item.next THEN item.prev ELSE list[p].prev
<1>1. DOMAIN left = DOMAIN list \ {price}
  BY DEF RemoveItem, Take
<1>2. ASSUME NEW p \in DOMAIN left
      PROVE  left[p] = [list[p] EXCEPT !.next = next(p), !.prev = prev(p)]
  BY <1>1 DEF RemoveItem, Take
<1> HIDE DEF left
<1>3. ASSUME NEW p \in DOMAIN left
      PROVE  /\ left[p] \in Items /\ left[p].price = p
             /\ left[p].next = next(p) /\ left[p].prev = prev(p)
             /\ left[p].orders = list[p].orders /\ left[p].buyAmount = list[p].buyAmount
  <2>1. list[p] \in Items /\ list[p].price = p /\ item \in Items
    BY <1>1 DEF Linked, Stored
  <2>2. next(p) \in Keys /\ prev(p) \in Keys
    BY <2>1 DEF Items
  <2>3. left[p] = Relink(list[p], next(p), prev(p))
    BY <1>2 DEF Relink
  <2>4. LET r == Relink(list[p], next(p), prev(p)) IN
        /\ r \in Items /\ r.orders = list[p].orders /\ r.buyAmount = list[p].buyAmount
        /\ r.next = next(p) /\ r.prev = prev(p) /\ r.price = list[p].price
    BY ONLY <2>1, <2>2, Relinked
  <2> HIDE DEF item, next, prev
  <2> QED  BY ONLY <2>1, <2>3, <2>4
<1>4. ASSUME NEW p \in DOMAIN left
      PROVE  /\ next(p) \in DOMAIN left /\ prev(next(p)) = p
             /\ prev(p) \in DOMAIN left /\ next(prev(p)) = p
  BY <1>1 DEF Linked
<1>5. \A p \in DOMAIN list \ {price} :
        /\ left[p].next = IF p = item.prev THEN item.next ELSE list[p].next
        /\ left[p].orders = list[p].orders
        /\ left[p].buyAmount = list[p].buyAmount
  BY <1>1, <1>3
<1> HIDE DEF item, next, prev
<1>6. ASSUME NEW p \in DOMAIN left
      PROVE  /\ left[p].next \in DOMAIN left /\ left[left[p].next].prev = p
             /\ left[p].prev \in DOMAIN left /\ left[left[p].prev].next = p
  <2>1. left[p].next = next(p) /\ left[p].prev = prev(p)
    BY <1>3
  <2>2. left[next(p)].prev = prev(next(p)) /\ left[prev(p)].next = next(prev(p))
    BY <1>3, <1>4
  <2> QED  BY <1>4, <2>1, <2>2
<1>7. Linked(left)
  BY <1>3, <1>6 DEF Linked, Stored
<1> QED  BY <1>1, <1>5, <1>7 DEF left, item

(* What remains is in the order it was in. *)
THEOREM RemovalKeepsOrder ==
  ASSUME NEW list, Linked(list), NEW price \in DOMAIN list \ {Top}, list[Top].next # price,
         NEW rank \in [Keys -> Int], Ordered(list, rank), Top \in DOMAIN list
  PROVE  Ordered(RemoveItem(list, price), rank)
<1> DEFINE item == list[price]
           left == RemoveItem(list, price)
<1>1. DOMAIN left = DOMAIN list \ {price}
  BY DEF RemoveItem, Take
<1>2. ASSUME NEW p \in DOMAIN left
      PROVE  left[p].next = IF p = item.prev THEN item.next ELSE list[p].next
  <2>1. left[p] = [list[p] EXCEPT !.next = IF p = item.prev THEN item.next ELSE @,
                                  !.prev = IF p = item.next THEN item.prev ELSE @]
    BY <1>1 DEF RemoveItem, Take
  <2>2. list[p] \in Items /\ item \in Items
    BY <1>1 DEF Linked, Stored
  <2> HIDE DEF item, left
  <2> QED  BY <2>1, <2>2 DEF Items
<1> HIDE DEF left
<1>3. ASSUME NEW p \in DOMAIN left \ {Top} PROVE rank[p] < rank[left[p].next]
  <2>1. p \in DOMAIN list \ {Top} /\ rank[p] < rank[list[p].next]
    BY <1>1 DEF Ordered
  <2>2. CASE p = item.prev
    <3>1. list[p].next = price
      BY <2>2 DEF Linked
    <3>2. rank[price] < rank[item.next]
      BY DEF Ordered
    <3>3. {p, price, item.next} \subseteq Keys
      BY <2>1 DEF Linked, Stored, Items
    <3> QED  BY <1>2, <2>1, <2>2, <3>1, <3>2, <3>3
  <2>3. CASE p # item.prev
    BY <1>2, <2>1, <2>3
  <2> QED  BY <2>2, <2>3
<1> QED  BY <1>3 DEF Ordered, left

-----------------------------------------------------------------------------
(* The loop of append ends at an item of the list, having written nothing. *)
StopsAt(list, price, otype, found) ==
  Walk(list, price, otype) = [list |-> list, item |-> list[found]]

(* append puts a new level between the item at which its loop stops and the*)
(* next one, and links it both ways, also next to sentinels; the list stays*)
(* in order where it belongs between the two.                              *)
THEOREM NewLevelKeepsLinks ==
  ASSUME NEW list, Linked(list), NEW price \in Keys \ DOMAIN list,
         NEW hash \in Nat, NEW sell \in Int, NEW buy \in Int, NEW otype,
         NEW found \in DOMAIN list,
         StopsAt(list, price, otype, found)
  PROVE  LET new == NewLevel(list, price, hash, sell, buy, otype) IN
         /\ Linked(new)
         /\ DOMAIN new = DOMAIN list \cup {price}
         /\ new[price].next = list[found].next /\ new[price].orders = <<hash>>
         /\ new[price].buyAmount = buy
         /\ \A p \in DOMAIN list :
              /\ new[p].next = IF p = found THEN price ELSE list[p].next
              /\ new[p].orders = list[p].orders
              /\ new[p].buyAmount = list[p].buyAmount
         /\ \A rank \in [Keys -> Int] :
              /\ Ordered(list, rank)
              /\ rank[found] < rank[price] /\ rank[price] < rank[list[found].next]
              => Ordered(new, rank)
<1> DEFINE behind == list[found].next
           before == [list[found] EXCEPT !.next = price]
           list1  == Put(list, found, before)
           after  == [list1[behind] EXCEPT !.prev = price]
           list2  == Put(list1, behind, after)
           level  == [prev |-> found, next |-> behind, price |-> price,
                      buyAmount |-> buy, sellAmount |-> sell, orders |-> <<hash>>]
           new    == NewLevel(list, price, hash, sell, buy, otype)
<1>1. /\ list[found] \in Items /\ list[found].price = found
      /\ behind \in DOMAIN list /\ list[behind] \in Items /\ list[behind].price = behind
      /\ found \in Keys /\ behind \in Keys
  BY DEF Linked, Stored, Items
<1>2. /\ before \in Items /\ before.price = found /\ before.next = price
      /\ before.prev = list[found].prev /\ before.orders = list[found].orders
      /\ before.buyAmount = list[found].buyAmount
  BY <1>1 DEF Items
<1> HIDE DEF before
<1>3. /\ DOMAIN list1 = DOMAIN list
      /\ \A p \in DOMAIN list : list1[p] = IF p = found THEN before ELSE list[p]
  BY DEF Put
<1>4. list1[behind] \in Items /\ list1[behind].price = behind
  BY <1>1, <1>2, <1>3
<1> HIDE DEF list1
<1>5. /\ after \in Items /\ after.price = behind /\ after.prev = price
      /\ after.next = list1[behind].next /\ after.orders = list1[behind].orders
      /\ after.buyAmount = list1[behind].buyAmount
  BY <1>4 DEF Items
<1> HIDE DEF after
<1>6. /\ DOMAIN list2 = DOMAIN list
      /\ \A p \in DOMAIN list : list2[p] = IF p = behind THEN after ELSE list1[p]
  BY <1>1, <1>3 DEF Put
<1>7. new = Put(list2, price, level)
  <2>1. /\ Walk(list, price, otype).list = list
        /\ Walk(list, price, otype).item = list[found]
    BY DEF StopsAt
  <2>2. list1 = Put(Walk(list, price, otype).list, before.price, before)
    BY <1>2, <2>1 DEF list1
  <2>3. ItemAt(list1, behind) = list1[behind] /\ Ensure(list1, behind) = list1
    BY <1>1, <1>3 DEF ItemAt, Ensure
  <2> QED
    BY <1>2, <1>4, <2>1, <2>2, <2>3 DEF NewLevel, before, after
<1> HIDE DEF list2, new
<1>8. /\ level \in Items /\ level.price = price /\ level.prev = found /\ level.next = behind
      /\ level.orders = <<hash>> /\ level.buyAmount = buy
  BY <1>1 DEF Items
<1> HIDE DEF level
<1>9. /\ DOMAIN new = DOMAIN list \cup {price}
      /\ new[price] = level
      /\ \A p \in DOMAIN list : new[p] = list2[p]
  BY <1>6, <1>7 DEF Put
<1>10. ASSUME NEW p \in DOMAIN list
       PROVE  /\ new[p] \in Items /\ new[p].price = p
              /\ new[p].next = IF p = found THEN price ELSE list[p].next
              /\ new[p].prev = IF p = behind THEN price ELSE list[p].prev
              /\ new[p].orders = list[p].orders
              /\ new[p].buyAmount = list[p].buyAmount
  <2>1. list[p] \in Items /\ list[p].price = p
    BY DEF Linked, Stored
  <2> QED  BY <1>1, <1>2, <1>3, <1>5, <1>6, <1>9, <2>1
<1>11. Stored(new)
  BY <1>8, <1>9, <1>10 DEF Stored
<1>12. ASSUME NEW p \in DOMAIN new
       PROVE  /\ new[p].next \in DOMAIN new /\ new[new[p].next].prev = p
              /\ new[p].prev \in DOMAIN new /\ new[new[p].prev].next = p
  <2>1. CASE p = price
    BY <1>1, <1>8, <1>9, <1>10, <2>1
  <2>2. CASE p \in DOMAIN list
    <3>1. /\ list[p].next \in DOMAIN list /\ list[list[p].next].prev = p
          /\ list[p].prev \in DOMAIN list /\ list[list[p].prev].next = p
          /\ list[behind].prev = found
      BY <2>2 DEF Linked
    <3> QED  BY <1>1, <1>8, <1>9, <1>10, <2>2, <3>1
  <2> QED  BY <1>9, <2>1, <2>2
<1>13. new[found].next = price /\ new[price].next = behind
  BY <1>8, <1>9, <1>10
<1>14. ASSUME NEW rank \in [Keys -> Int], Ordered(list, rank),
              rank[found] < rank[price], rank[price] < rank[behind]
       PROVE  Ordered(new, rank)
  <2>1. ASSUME NEW p \in DOMAIN new \ {Top} PROVE rank[p] < rank[new[p].next]
    <3>1. CASE p \in {found, price}
      BY <1>13, <1>14, <3>1
    <3>2. CASE p \notin {found, price}
      BY <1>9, <1>10, <1>14, <3>2 DEF Ordered
    <3> QED  BY <3>1, <3>2
  <2> QED  BY <2>1 DEF Ordered
<1>15. Linked(new)
  BY <1>11, <1>12 DEF Linked
<1> QED  BY <1>8, <1>9, <1>10, <1>13, <1>14, <1>15 DEF new

-----------------------------------------------------------------------------
(* An order that joins a level, and a trade at the price of a level, leave *)
(* the links alone.                                                        *)
THEOREM TotalsKeepLinks ==
  ASSUME NEW list, Linked(list), NEW price \in DOMAIN list, MaxAmount \in Nat,
         NEW hash \in Nat, NEW sell \in Int, NEW buy \in Int
  PROVE  /\ Linked(JoinLevel(list, price, hash, sell, buy))
         /\ Linked(ReduceAmount(list, price, sell, buy))
<1> DEFINE item == list[price]
           joined  == JoinLevel(list, price, hash, sell, buy)
           reduced == ReduceAmount(list, price, sell, buy)
<1>1. item \in Items
  BY DEF Linked, Stored
<1>2. ASSUME NEW new, DOMAIN new = DOMAIN list, new[price] \in Items,
             new[price].price = item.price, new[price].next = item.next,
             new[price].prev = item.prev,
             \A p \in DOMAIN list \ {price} : new[p] = list[p]
      PROVE  Linked(new)
  <2>1. ASSUME NEW p \in DOMAIN list
        PROVE  /\ new[p] \in Items /\ new[p].price = p
               /\ new[p].next = list[p].next /\ new[p].prev = list[p].prev
    BY <1>2 DEF Linked, Stored
  <2> QED  BY <1>2, <2>1, SameLinks
<1>3. \A x \in Int, y \in Int : AddWrap(x, y) \in Int /\ SubWrap(x, y) \in Int
  BY DEF AddWrap, SubWrap
<1>4. Linked(joined)
  <2>1. /\ DOMAIN joined = DOMAIN list
        /\ joined[price] = [item EXCEPT !.orders = Append(@, hash),
                                        !.buyAmount = AddWrap(@, buy),
                                        !.sellAmount = AddWrap(@, sell)]
        /\ \A p \in DOMAIN list \ {price} : joined[p] = list[p]
    BY DEF JoinLevel
  <2>2. joined[price] \in Items /\ joined[price].price = item.price
        /\ joined[price].next = item.next /\ joined[price].prev = item.prev
    <3>1. /\ item.orders \in Seq(Nat)
          /\ item.buyAmount \in Int /\ item.sellAmount \in Int
      BY <1>1 DEF Items
    <3>2. Append(item.orders, hash) \in Seq(Nat)
      BY <3>1
    <3>3. AddWrap(item.buyAmount, buy) \in Int /\ AddWrap(item.sellAmount, sell) \in Int
      BY <1>3, <3>1
    <3> HIDE DEF item, joined
    <3> QED  BY <1>1, <2>1, <3>2, <3>3 DEF Items
  <2> HIDE DEF joined
  <2> QED  BY <1>2, <2>1, <2>2
<1>5. Linked(reduced)
  <2>1. /\ DOMAIN reduced = DOMAIN list
        /\ reduced[price] = [item EXCEPT !.buyAmount = SubWrap(@, buy),
                                         !.sellAmount = SubWrap(@, sell)]
        /\ \A p \in DOMAIN list \ {price} : reduced[p] = list[p]
    BY DEF ReduceAmount, Ensure, ItemAt, Put
  <2>2. reduced[price] \in Items /\ reduced[price].price = item.price
        /\ reduced[price].next = item.next /\ reduced[price].prev = item.prev
    <3>1. SubWrap(item.buyAmount, buy) \in Int /\ SubWrap(item.sellAmount, sell) \in Int
      BY <1>1, <1>3 DEF Items
    <3> HIDE DEF item, reduced
    <3> QED  BY <1>1, <2>1, <3>1 DEF Items
  <2> HIDE DEF reduced
  <2> QED  BY <1>2, <2>1, <2>2
<1> QED  BY <1>4, <1>5
-----------------------------------------------------------------------------
(* A list with the levels it should have: it has them in order, below the  *)
(* head those of the buy orders and above it those of the sell orders.     *)
Shape(list, buys, sells) ==
  /\ Linked(list)
  /\ Bottom < Top
  /\ buys \cup sells \subseteq (Bottom + 1) .. (Top - 1)
  /\ \A b \in buys, s \in sells : b < s
  /\ Sorted(list, buys, sells)

(* No level is empty, the sentinels are, and orders queue as they came. *)
Queues(list, buys, sells) ==
  /\ \A p \in buys \cup sells : list[p].orders # <<>>
  /\ \A p \in {Bottom, NoPrice, Top} : list[p].orders = <<>>
  /\ \A p \in DOMAIN list : \A i, j \in DOMAIN list[p].orders :
       i < j => list[p].orders[i] < list[p].orders[j]

Tidy(list, buys, sells) == Shape(list, buys, sells) /\ Queues(list, buys, sells)

Queued(list, p, h) ==
  p \in DOMAIN list /\ \E i \in DOMAIN list[p].orders : list[p].orders[i] = h

(* The keys are those of the levels and the sentinels, all different. *)
Keyed(list, buys, sells) ==
  /\ Bottom \in Int /\ Top \in Int /\ NoPrice \notin Int
  /\ DOMAIN list = buys \cup sells \cup {Bottom, NoPrice, Top}
  /\ \A p \in buys \cup sells : p \in Int /\ Bottom < p /\ p < Top
  /\ buys \cap sells = {} /\ Bottom < Top

LEMMA KeysDiffer ==
  ASSUME NEW list, NEW buys, NEW sells, Shape(list, buys, sells)
  PROVE  Keyed(list, buys, sells)
  BY NoPriceAssumption, MathAssumption DEF Keyed, Shape, Sorted, Bottom, Top

(* Of the end of a side one knows what was asked for. *)
LEMMA BestPrice ==
  ASSUME NEW list, NEW buys, NEW sells, Shape(list, buys, sells)
  PROVE  /\ Best(list, "Buy") \in buys \cup {Bottom}
         /\ \A p \in buys : Best(list, "Buy") \in buys /\ p <= Best(list, "Buy")
         /\ Best(list, "Sell") \in sells \cup {Top}
         /\ \A p \in sells : Best(list, "Sell") \in sells /\ Best(list, "Sell") <= p
<1>0. Keyed(list, buys, sells)
  BY KeysDiffer
<1>1. Best(list, "Buy") = list[NoPrice].prev /\ Best(list, "Sell") = list[NoPrice].next
  BY <1>0 DEF Keyed, Best, NextMatchPrice, HeadItem, ItemAt
<1>2. NextIn(sells, Bottom, list[NoPrice].next, Top)
  BY DEF Shape, Sorted
<1>3. PICK q \in DOMAIN list : q = list[NoPrice].prev /\ list[q].next = NoPrice
  BY <1>0 DEF Keyed, Shape, Sorted
<1>4. q \in buys \cup {Bottom}
  <2>1. q \notin sells /\ q # Top /\ q # NoPrice
    BY <1>0, <1>3 DEF Keyed, Shape, Sorted, NextIn
  <2> QED BY <2>1, <1>0, <1>3 DEF Keyed
<1>5. NextIn(buys, q, NoPrice, NoPrice)
  BY <1>3, <1>4 DEF Shape, Sorted
<1>6. NoPrice \notin buys
  BY <1>0 DEF Keyed
<1>7. \A p \in buys : q \in buys /\ p <= q
  BY <1>0, <1>4, <1>5, <1>6 DEF NextIn, Keyed
<1>8. \A p \in sells : list[NoPrice].next \in sells /\ list[NoPrice].next <= p
  BY <1>0, <1>2 DEF NextIn, Keyed
<1> QED BY <1>1, <1>2, <1>3, <1>4, <1>7, <1>8 DEF NextIn

(* Only what is linked counts for the shape. *)
LEMMA SameShape ==
  ASSUME NEW list, NEW buys, NEW sells, Shape(list, buys, sells),
         NEW new, DOMAIN new = DOMAIN list,
         \A p \in DOMAIN list :
           /\ new[p] \in Items /\ new[p].price = p
           /\ new[p].next = list[p].next /\ new[p].prev = list[p].prev
  PROVE  Shape(new, buys, sells)
<1>1. Linked(new)
  BY SameLinks DEF Shape
<1>2. \A p \in DOMAIN list : new[p].next = list[p].next
  OBVIOUS
<1>3. DOMAIN list = buys \cup sells \cup {Bottom, NoPrice, Top}
  BY DEF Shape, Sorted
<1>4. Sorted(new, buys, sells)
  <2>1. \A p \in DOMAIN new :
          /\ new[p].price = p
          /\ new[p].next \in DOMAIN new /\ new[new[p].next].prev = p
          /\ new[p].prev \in DOMAIN new /\ new[new[p].prev].next = p
    BY <1>1 DEF Linked, Stored
  <2>2. /\ \A p \in buys \cup {Bottom} : NextIn(buys, p, new[p].next, NoPrice)
        /\ NextIn(sells, Bottom, new[NoPrice].next, Top)
        /\ \A p \in sells : NextIn(sells, p, new[p].next, Top)
        /\ new[Top].next = Bottom
    BY <1>2, <1>3 DEF Shape, Sorted
  <2> QED BY <1>3, <2>1, <2>2 DEF Sorted
<1> QED BY <1>1, <1>4 DEF Shape

(* A level of either side that is removed leaves the others in order. *)
LEMMA NextWithout ==
  ASSUME NEW levels, NEW x \in levels, levels \subseteq Int,
         NEW end, end \notin levels, NEW p \in Int, NEW q, NEW r,
         NextIn(levels, p, q, end), NextIn(levels, x, r, end)
  PROVE  NextIn(levels \ {x}, p, IF q = x THEN r ELSE q, end)
<1>1. CASE q = x
  <2>1. r # x /\ p < x
    BY <1>1 DEF NextIn
  <2>2. r \in (levels \ {x}) \cup {end} /\ (r \in levels \ {x} => p < r)
    BY <2>1 DEF NextIn
  <2>3. ASSUME NEW y \in levels \ {x}, p < y PROVE r \in levels \ {x} /\ r <= y
    BY <1>1, <2>1, <2>3 DEF NextIn
  <2> QED BY <1>1, <2>2, <2>3 DEF NextIn
<1>2. CASE q # x
  BY <1>2 DEF NextIn
<1> QED BY <1>1, <1>2

SameQueues(left, list) == \A p \in DOMAIN left : left[p].orders = list[p].orders

LEMMA LevelRemoved ==
  ASSUME NEW list, NEW buys, NEW sells, Tidy(list, buys, sells), NEW x \in buys \cup sells
  PROVE  LET left == RemoveItem(list, x) IN
         /\ Tidy(left, buys \ {x}, sells \ {x})
         /\ DOMAIN left = DOMAIN list \ {x}
         /\ SameQueues(left, list) /\ SameTotals(left, list)
<1> DEFINE left == RemoveItem(list, x)
           item == list[x]
<1>1. Keyed(list, buys, sells) /\ Shape(list, buys, sells) /\ Queues(list, buys, sells)
  BY KeysDiffer DEF Tidy
<1>2. x \in DOMAIN list /\ Linked(list)
  BY <1>1 DEF Keyed, Shape
<1>3. /\ Linked(left) /\ DOMAIN left = DOMAIN list \ {x}
      /\ \A p \in DOMAIN list \ {x} :
           /\ left[p].next = IF p = item.prev THEN item.next ELSE list[p].next
           /\ left[p].orders = list[p].orders
           /\ left[p].buyAmount = list[p].buyAmount
  BY <1>2, RemovalKeepsLinks
<1> HIDE DEF left
<1>4. ASSUME NEW p \in DOMAIN list \ {x}
      PROVE  left[p].next = IF list[p].next = x THEN item.next ELSE list[p].next
  <2>1. list[p].next = x <=> p = item.prev
    <3>1. list[list[p].next].prev = p /\ list[item.prev].next = x
      BY <1>2 DEF Linked
    <3> QED BY <3>1
  <2> QED BY <1>3, <2>1
<1>5. DOMAIN left = (buys \ {x}) \cup (sells \ {x}) \cup {Bottom, NoPrice, Top}
  BY <1>1, <1>3 DEF Keyed
<1>6. ASSUME NEW p \in (buys \ {x}) \cup {Bottom}
      PROVE  NextIn(buys \ {x}, p, left[p].next, NoPrice)
  <2>1. NextIn(buys, p, list[p].next, NoPrice) /\ p \in DOMAIN list \ {x} /\ p \in Int
    BY <1>1 DEF Shape, Sorted, Keyed
  <2>2. CASE x \in buys
    <3>1. NextIn(buys, x, item.next, NoPrice) /\ buys \subseteq Int /\ NoPrice \notin buys
      BY <1>1, <2>2 DEF Shape, Sorted, Keyed
    <3> HIDE DEF item
    <3> QED BY <1>4, <2>1, <2>2, <3>1, NextWithout
  <2>3. CASE x \in sells
    <3>1. buys \ {x} = buys /\ list[p].next # x
      BY <1>1, <2>1, <2>3 DEF Keyed, NextIn
    <3> QED BY <1>4, <2>1, <3>1
  <2> QED BY <2>2, <2>3
<1>7. ASSUME NEW p \in sells \cup {Bottom}, NEW k, p # x,
             p = Bottom => k = NoPrice, p # Bottom => k = p
      PROVE  NextIn(sells \ {x}, p, left[k].next, Top)
  <2>1. NextIn(sells, p, list[k].next, Top) /\ k \in DOMAIN list \ {x} /\ p \in Int
    BY <1>1, <1>7 DEF Shape, Sorted, Keyed
  <2>2. CASE x \in sells
    <3>1. NextIn(sells, x, item.next, Top) /\ sells \subseteq Int /\ Top \notin sells
      BY <1>1, <2>2 DEF Shape, Sorted, Keyed
    <3> HIDE DEF item
    <3> QED BY <1>4, <2>1, <2>2, <3>1, NextWithout
  <2>3. CASE x \in buys
    <3>1. sells \ {x} = sells /\ list[k].next # x
      BY <1>1, <2>1, <2>3 DEF Keyed, NextIn
    <3> QED BY <1>4, <2>1, <3>1
  <2> QED BY <2>2, <2>3
<1>8. left[Top].next = Bottom
  BY <1>1, <1>4 DEF Shape, Sorted, Keyed
<1>9. NextIn(sells \ {x}, Bottom, left[NoPrice].next, Top)
  <2>1. Bottom \in sells \cup {Bottom} /\ Bottom # x /\ (Bottom = Bottom => NoPrice = NoPrice)
    BY <1>1 DEF Keyed
  <2> HIDE DEF Bottom, Top
  <2> QED BY ONLY <1>7, <2>1
<1>10. \A p \in sells \ {x} : NextIn(sells \ {x}, p, left[p].next, Top)
  BY <1>1, <1>7 DEF Keyed
<1>11. Sorted(left, buys \ {x}, sells \ {x})
  BY <1>3, <1>5, <1>6, <1>8, <1>9, <1>10 DEF Sorted, Linked, Stored
<1>12. Shape(left, buys \ {x}, sells \ {x})
  BY <1>1, <1>3, <1>11 DEF Shape
<1>13. Queues(left, buys \ {x}, sells \ {x})
  BY <1>1, <1>3, <1>5 DEF Queues, Keyed
<1> QED BY <1>3, <1>12, <1>13 DEF Tidy, left, SameQueues, SameTotals

-----------------------------------------------------------------------------
(* Functions that change the queue or the totals of one level. *)
Requeued(list, new, x, queue) ==
  /\ DOMAIN new = DOMAIN list
  /\ new[x] \in Items /\ new[x].price = list[x].price
  /\ new[x].next = list[x].next /\ new[x].prev = list[x].prev
  /\ new[x].orders = queue
  /\ \A p \in DOMAIN list \ {x} : new[p] = list[p]

Ascending(queue) == \A i, j \in DOMAIN queue : i < j => queue[i] < queue[j]

LEMMA RequeuedTidy ==
  ASSUME NEW list, NEW buys, NEW sells, Tidy(list, buys, sells), NEW x \in buys \cup sells,
         NEW queue, queue # <<>>, Ascending(queue), NEW new, Requeued(list, new, x, queue)
  PROVE  Tidy(new, buys, sells)
<1>1. Keyed(list, buys, sells) /\ Shape(list, buys, sells) /\ Queues(list, buys, sells)
  BY KeysDiffer DEF Tidy
<1>2. x \in DOMAIN list
  BY <1>1 DEF Keyed
<1>3. Shape(new, buys, sells)
  <2>1. \A p \in DOMAIN list :
          /\ new[p] \in Items /\ new[p].price = p
          /\ new[p].next = list[p].next /\ new[p].prev = list[p].prev
    BY <1>1, <1>2 DEF Requeued, Shape, Linked, Stored
  <2>2. DOMAIN new = DOMAIN list
    BY DEF Requeued
  <2> QED BY <1>1, <2>1, <2>2, SameShape
<1>4. \A p \in DOMAIN list : new[p].orders = IF p = x THEN queue ELSE list[p].orders
  BY DEF Requeued
<1>5. DOMAIN new = DOMAIN list
  BY DEF Requeued
<1>6. x \notin {Bottom, NoPrice, Top}
  BY <1>1 DEF Keyed
<1>7. Queues(new, buys, sells)
  <2>1. ASSUME NEW p \in DOMAIN new PROVE Ascending(new[p].orders)
    BY <1>1, <1>4, <1>5 DEF Queues, Ascending
  <2> QED BY <1>1, <1>4, <1>5, <1>6, <2>1 DEF Queues, Keyed, Ascending
<1> QED BY <1>3, <1>7 DEF Tidy

(* What a level holds. *)
LEMMA ItemTypes ==
  ASSUME NEW list, NEW buys, NEW sells, Tidy(list, buys, sells), NEW x \in buys \cup sells
  PROVE  /\ x \in DOMAIN list /\ list[x] \in Items /\ list[x].price = x
         /\ list[x].orders \in Seq(Nat) /\ list[x].orders # <<>>
         /\ Ascending(list[x].orders)
         /\ list[x].buyAmount \in Int /\ list[x].sellAmount \in Int
<1>1. Keyed(list, buys, sells) /\ Shape(list, buys, sells) /\ Queues(list, buys, sells)
  BY KeysDiffer DEF Tidy
<1>2. x \in DOMAIN list
  BY <1>1 DEF Keyed
<1>3. list[x] \in Items /\ list[x].price = x
  BY <1>1, <1>2 DEF Shape, Linked, Stored
<1> QED BY <1>1, <1>2, <1>3 DEF Items, Queues, Ascending

LEMMA WrapsToInt ==
  ASSUME NEW x \in Int, NEW y \in Int
  PROVE  AddWrap(x, y) \in Int /\ SubWrap(x, y) \in Int
  BY MathAssumption DEF AddWrap, SubWrap

(* An item with other totals and another queue. *)
Counted(item, buy, sell, queue) ==
  [item EXCEPT !.buyAmount = buy, !.sellAmount = sell, !.orders = queue]

LEMMA CountedItem ==
  ASSUME NEW item \in Items, NEW buy \in Int, NEW sell \in Int, NEW queue \in Seq(Nat)
  PROVE  LET new == Counted(item, buy, sell, queue) IN
         /\ new \in Items /\ new.price = item.price
         /\ new.next = item.next /\ new.prev = item.prev /\ new.orders = queue
         /\ new.buyAmount = buy
  BY DEF Items, Counted

(* update_reduce_amount after a trade with a level. *)
LEMMA ReduceKeepsTidy ==
  ASSUME NEW list, NEW buys, NEW sells, Tidy(list, buys, sells), NEW x \in buys \cup sells,
         NEW sell \in Int, NEW buy \in Int
  PROVE  LET new == ReduceAmount(list, x, sell, buy) IN
         /\ Tidy(new, buys, sells) /\ DOMAIN new = DOMAIN list
         /\ SameQueues(new, list) /\ new[NoPrice] = list[NoPrice]
         /\ new[x].buyAmount = SubWrap(list[x].buyAmount, buy)
         /\ \A p \in DOMAIN list \ {x} : new[p] = list[p]
<1> DEFINE item == list[x]
           new == ReduceAmount(list, x, sell, buy)
<1>0. /\ x \in DOMAIN list /\ item \in Items /\ item.price = x
      /\ item.orders \in Seq(Nat) /\ item.orders # <<>> /\ Ascending(item.orders)
      /\ item.buyAmount \in Int /\ item.sellAmount \in Int
  BY ItemTypes
<1>1. /\ x \in DOMAIN list /\ item \in Items /\ item.price = x
      /\ item.orders \in Seq(Nat) /\ item.orders # <<>> /\ Ascending(item.orders)
      /\ SubWrap(item.buyAmount, buy) \in Int /\ SubWrap(item.sellAmount, sell) \in Int
  BY <1>0, WrapsToInt
<1>2. /\ DOMAIN new = DOMAIN list
      /\ new[x] = [item EXCEPT !.buyAmount = SubWrap(@, buy), !.sellAmount = SubWrap(@, sell)]
      /\ \A p \in DOMAIN list \ {x} : new[p] = list[p]
  BY <1>1 DEF ReduceAmount, Ensure, ItemAt, Put
<1> HIDE DEF new, item
<1>3. new[x] = Counted(item, SubWrap(item.buyAmount, buy), SubWrap(item.sellAmount, sell), item.orders)
  BY <1>1, <1>2 DEF Counted, Items
<1>4. Requeued(list, new, x, item.orders)
  <2>1. /\ new[x] \in Items /\ new[x].price = item.price
        /\ new[x].next = item.next /\ new[x].prev = item.prev /\ new[x].orders = item.orders
    BY <1>1, <1>3, CountedItem
  <2> QED BY <1>2, <2>1 DEF Requeued, item
<1>5. Tidy(new, buys, sells)
  BY <1>1, <1>4, RequeuedTidy
<1>6. NoPrice \in DOMAIN list \ {x}
  <2>1. Keyed(list, buys, sells)
    BY KeysDiffer DEF Tidy
  <2> QED BY <2>1 DEF Keyed
<1>7. new[x].buyAmount = SubWrap(list[x].buyAmount, buy)
  BY <1>1, <1>3, CountedItem DEF item
<1> QED BY <1>2, <1>4, <1>5, <1>6, <1>7 DEF Requeued, SameQueues, new, item

(* What append does to the totals: the order counts at its price. *)
TotalsWith(new, list, price, buy) ==
  /\ DOMAIN new = DOMAIN list \cup {price}
  /\ new[price].buyAmount
       = IF price \in DOMAIN list THEN AddWrap(list[price].buyAmount, buy) ELSE buy
  /\ \A p \in DOMAIN list \ {price} : new[p].buyAmount = list[p].buyAmount

(* append of an order to a level that there is. *)
LEMMA AppendedQueue ==
  ASSUME NEW old \in Seq(Nat), Ascending(old), NEW hash \in Nat,
         \A i \in DOMAIN old : old[i] < hash
  PROVE  LET queue == Append(old, hash) IN
         /\ queue \in Seq(Nat) /\ queue # <<>> /\ Ascending(queue)
         /\ \A h : (\E i \in DOMAIN queue : queue[i] = h)
                     <=> (\E i \in DOMAIN old : old[i] = h) \/ h = hash
<1> DEFINE queue == Append(old, hash)
<1>1. /\ queue \in Seq(Nat) /\ Len(old) \in Nat
      /\ DOMAIN old = 1 .. Len(old) /\ DOMAIN queue = 1 .. (Len(old) + 1)
      /\ queue[Len(old) + 1] = hash
      /\ \A i \in DOMAIN old : queue[i] = old[i] /\ old[i] \in Nat
  OBVIOUS
<1> HIDE DEF queue
<1>2. Ascending(queue)
  <2>1. ASSUME NEW i \in DOMAIN queue, NEW j \in DOMAIN queue, i < j
        PROVE  queue[i] < queue[j]
    <3>1. i \in DOMAIN old
      BY <1>1, <2>1
    <3>2. CASE j = Len(old) + 1
      BY <1>1, <3>1, <3>2
    <3>3. CASE j # Len(old) + 1
      <4>1. j \in DOMAIN old
        BY <1>1, <3>3
      <4>2. queue[i] = old[i] /\ queue[j] = old[j]
        BY <1>1, <3>1, <4>1
      <4> QED BY <2>1, <3>1, <4>1, <4>2 DEF Ascending
    <3> QED BY <3>2, <3>3
  <2> QED BY <2>1 DEF Ascending
<1>3. queue # <<>>
  BY <1>1
<1>4. ASSUME NEW h
      PROVE  (\E i \in DOMAIN queue : queue[i] = h)
               <=> (\E i \in DOMAIN old : old[i] = h) \/ h = hash
  BY <1>1, SMTT(20)
<1> QED BY <1>1, <1>2, <1>3, <1>4 DEF queue

LEMMA JoinKeepsTidy ==
  ASSUME NEW list, NEW buys, NEW sells, Tidy(list, buys, sells), NEW x \in buys \cup sells,
         NEW hash \in Nat, NEW sell \in Int, NEW buy \in Int,
         \A i \in DOMAIN list[x].orders : list[x].orders[i] < hash
  PROVE  LET new == JoinLevel(list, x, hash, sell, buy) IN
         /\ Tidy(new, buys, sells)
         /\ \A p, h : Queued(new, p, h) <=> Queued(list, p, h) \/ (p = x /\ h = hash)
         /\ TotalsWith(new, list, x, buy)
<1> DEFINE item == list[x]
           queue == Append(item.orders, hash)
           new == JoinLevel(list, x, hash, sell, buy)
<1>0. /\ x \in DOMAIN list /\ item \in Items /\ item.price = x
      /\ item.orders \in Seq(Nat) /\ item.orders # <<>> /\ Ascending(item.orders)
      /\ item.buyAmount \in Int /\ item.sellAmount \in Int
  BY ItemTypes
<1>1. /\ x \in DOMAIN list /\ item \in Items /\ item.price = x
      /\ item.orders \in Seq(Nat) /\ item.orders # <<>> /\ Ascending(item.orders)
      /\ AddWrap(item.buyAmount, buy) \in Int /\ AddWrap(item.sellAmount, sell) \in Int
  BY <1>0, WrapsToInt
<1>2. /\ DOMAIN new = DOMAIN list
      /\ new[x] = [item EXCEPT !.orders = queue, !.buyAmount = AddWrap(@, buy),
                               !.sellAmount = AddWrap(@, sell)]
      /\ \A p \in DOMAIN list \ {x} : new[p] = list[p]
  BY <1>1 DEF JoinLevel
<1>3. /\ queue \in Seq(Nat) /\ queue # <<>> /\ Ascending(queue)
      /\ \A h : (\E i \in DOMAIN queue : queue[i] = h)
                  <=> (\E i \in DOMAIN item.orders : item.orders[i] = h) \/ h = hash
  BY <1>1, AppendedQueue
<1> HIDE DEF new, item, queue
<1>4. new[x] = Counted(item, AddWrap(item.buyAmount, buy), AddWrap(item.sellAmount, sell), queue)
  BY <1>1, <1>2 DEF Counted, Items
<1>5. Requeued(list, new, x, queue)
  <2>1. /\ new[x] \in Items /\ new[x].price = item.price
        /\ new[x].next = item.next /\ new[x].prev = item.prev /\ new[x].orders = queue
    BY <1>1, <1>3, <1>4, CountedItem
  <2> QED BY <1>2, <2>1 DEF Requeued, item
<1>6. Tidy(new, buys, sells)
  BY <1>3, <1>5, RequeuedTidy
<1>7. ASSUME NEW p, NEW h
      PROVE  Queued(new, p, h) <=> Queued(list, p, h) \/ (p = x /\ h = hash)
  <2>1. CASE p = x
    <3>1. Queued(new, x, h) <=> \E i \in DOMAIN queue : queue[i] = h
      BY <1>1, <1>2, <1>5 DEF Requeued, Queued
    <3>2. Queued(list, x, h) <=> \E i \in DOMAIN item.orders : item.orders[i] = h
      BY <1>1 DEF Queued, item
    <3> QED BY ONLY <1>3, <2>1, <3>1, <3>2
  <2>2. CASE p # x
    BY <1>2, <2>2 DEF Queued
  <2> QED BY <2>1, <2>2
<1>8. TotalsWith(new, list, x, buy)
  <2>1. new[x].buyAmount = AddWrap(item.buyAmount, buy)
    BY <1>1, <1>3, <1>4, CountedItem
  <2> QED BY <1>1, <1>2, <2>1 DEF TotalsWith, item
<1> QED BY <1>6, <1>7, <1>8 DEF new

-----------------------------------------------------------------------------
(* A list that is read for the first time: the three sentinels. *)
LEMMA FreshIsTidy ==
  ASSUME Bottom < Top
  PROVE  LET new == Ensure(EmptyMap, NoPrice) IN
         /\ Tidy(new, {}, {}) /\ DOMAIN new = {Bottom, NoPrice, Top}
         /\ \A p, h : ~Queued(new, p, h)
<1> DEFINE new == Ensure(EmptyMap, NoPrice)
<1>1. /\ Bottom \in Int /\ Top \in Int /\ Bottom # NoPrice /\ Top # NoPrice /\ Bottom # Top
      /\ Bottom \in Keys /\ Top \in Keys /\ NoPrice \in Keys
  BY NoPriceAssumption, MathAssumption DEF Bottom, Top, Keys
<1>2. /\ DOMAIN new = {Bottom, NoPrice, Top}
      /\ new[Bottom] = Sentinel(Top, NoPrice, Bottom)
      /\ new[Top] = Sentinel(NoPrice, Bottom, Top)
      /\ new[NoPrice] = Sentinel(Bottom, Top, NoPrice)
  BY <1>1 DEF Ensure, EmptyMap, Fresh, Put, FreshHead
<1> HIDE DEF new
<1>3. \A prev, next, price \in Keys :
        /\ Sentinel(prev, next, price) \in Items
        /\ Sentinel(prev, next, price).prev = prev
        /\ Sentinel(prev, next, price).next = next
        /\ Sentinel(prev, next, price).price = price
        /\ Sentinel(prev, next, price).orders = <<>>
  BY DEF Sentinel, Items
<1>4. /\ new[Bottom] \in Items /\ new[Bottom].prev = Top /\ new[Bottom].next = NoPrice
      /\ new[Bottom].price = Bottom /\ new[Bottom].orders = <<>>
  BY <1>1, <1>2, <1>3
<1>5. /\ new[Top] \in Items /\ new[Top].prev = NoPrice /\ new[Top].next = Bottom
      /\ new[Top].price = Top /\ new[Top].orders = <<>>
  BY <1>1, <1>2, <1>3
<1>6. /\ new[NoPrice] \in Items /\ new[NoPrice].prev = Bottom /\ new[NoPrice].next = Top
      /\ new[NoPrice].price = NoPrice /\ new[NoPrice].orders = <<>>
  BY <1>1, <1>2, <1>3
<1>7. Linked(new)
  BY <1>2, <1>4, <1>5, <1>6 DEF Linked, Stored
<1>8. Sorted(new, {}, {})
  BY <1>1, <1>2, <1>4, <1>5, <1>6 DEF Sorted, NextIn
<1>9. Shape(new, {}, {})
  BY <1>7, <1>8 DEF Shape
<1>10. \A p \in DOMAIN new : new[p].orders = <<>>
  BY <1>2, <1>4, <1>5, <1>6
<1>11. Queues(new, {}, {}) /\ \A p, h : ~Queued(new, p, h)
  BY <1>2, <1>10 DEF Queues, Queued
<1> QED BY <1>2, <1>9, <1>11 DEF Tidy, new

-----------------------------------------------------------------------------
(* The loop of append *)

StartOf(otype) == IF otype = "Buy" THEN Bottom ELSE NoPrice

Walks(walk, list, price, otype) ==
  walk = [n \in Nat |->
            IF n = 0
            THEN [list |-> Ensure(list, StartOf(otype)), item |-> ItemAt(list, StartOf(otype))]
            ELSE IF Behind(walk[n - 1].item, price, SideEnd(otype)) THEN walk[n - 1]
                 ELSE [list |-> Ensure(walk[n - 1].list, walk[n - 1].item.next),
                       item |-> ItemAt(walk[n - 1].list, walk[n - 1].item.next)]]
Walking(list, price, otype) == CHOOSE walk : Walks(walk, list, price, otype)

LEMMA WalkIsWalking ==
  ASSUME NEW list, NEW price, NEW otype
  PROVE  Walk(list, price, otype)
           = Walking(list, price, otype)[2 * (Cardinality(DOMAIN list) + 3)]
  BY DEF Walk, Walking, Walks, StartOf

(* The results of the rounds, when a set has the first one and, with one,  *)
(* the next one.                                                           *)
FirstOf(list, otype) ==
  [list |-> Ensure(list, StartOf(otype)), item |-> ItemAt(list, StartOf(otype))]
NextOf(at) ==
  [list |-> Ensure(at.list, at.item.next), item |-> ItemAt(at.list, at.item.next)]

LEMMA WalkRounds ==
  ASSUME NEW list, NEW price, NEW otype, NEW S, FirstOf(list, otype) \in S,
         \A at \in S : ~Behind(at.item, price, SideEnd(otype)) => NextOf(at) \in S
  PROVE  LET walk == Walking(list, price, otype) IN
         /\ walk[0] = FirstOf(list, otype)
         /\ \A n \in Nat :
              /\ walk[n] \in S
              /\ walk[n + 1] = IF Behind(walk[n].item, price, SideEnd(otype))
                               THEN walk[n] ELSE NextOf(walk[n])
<1> DEFINE first == FirstOf(list, otype)
           move == [at \in S |-> IF Behind(at.item, price, SideEnd(otype)) THEN at
                                 ELSE NextOf(at)]
           step == [n \in Nat |-> move]
           walk == Walking(list, price, otype)
<1>1. move \in [S -> S] /\ first \in S
  OBVIOUS
<1>2. step \in [Nat -> [S -> S]]
  <2> HIDE DEF move
  <2> QED BY <1>1
<1>3. PICK f \in [Nat -> S] : f[0] = first /\ \A n \in Nat : f[n + 1] = step[n][f[n]]
  <2>1. Moves(step, S)
    BY <1>2 DEF Moves
  <2> HIDE DEF step, first, move
  <2>2. PICK f : Iterates(f, S, first, step)
    BY <1>1, <2>1, RecursionExists
  <2> QED BY <2>2 DEF Iterates
<1>4. Walks(f, list, price, otype)
  <2>1. ASSUME NEW n \in Nat
        PROVE  f[n] = IF n = 0 THEN first
                      ELSE IF Behind(f[n - 1].item, price, SideEnd(otype)) THEN f[n - 1]
                           ELSE NextOf(f[n - 1])
    <3>1. CASE n = 0
      BY <1>3, <3>1
    <3>2. CASE n # 0
      <4>1. n - 1 \in Nat /\ n = (n - 1) + 1
        BY <3>2
      <4>2. f[n] = move[f[n - 1]] /\ f[n - 1] \in S
        BY <1>3, <4>1
      <4> QED BY <3>2, <4>2
    <3> QED BY <3>1, <3>2
  <2> QED BY <2>1 DEF Walks, FirstOf, NextOf
<1>5. Walks(walk, list, price, otype)
  BY <1>4 DEF Walking
<1> HIDE DEF walk
<1>6. walk[0] = first
  BY <1>5 DEF Walks, FirstOf
<1>7. ASSUME NEW n \in Nat
      PROVE  walk[n + 1] = IF Behind(walk[n].item, price, SideEnd(otype)) THEN walk[n]
                           ELSE NextOf(walk[n])
  <2>1. n + 1 \in Nat /\ n + 1 # 0 /\ (n + 1) - 1 = n
    OBVIOUS
  <2> QED BY <1>5, <2>1 DEF Walks, NextOf
<1> DEFINE Good == {n \in Nat : walk[n] \in S}
<1>8. 0 \in Good /\ \A n \in Nat : n \in Good => n + 1 \in Good
  <2>1. 0 \in Good
    BY <1>1, <1>6
  <2>2. ASSUME NEW n \in Nat, walk[n] \in S PROVE walk[n + 1] \in S
    BY <1>7, <2>2
  <2> QED BY <2>1, <2>2
<1>9. Nat \subseteq Good
  <2> HIDE DEF Good
  <2> QED BY <1>8, CountingUp
<1> QED BY <1>6, <1>7, <1>9 DEF walk

LEMMA ListIsFinite ==
  ASSUME NEW list, NEW buys, NEW sells, Shape(list, buys, sells)
  PROVE  IsFiniteSet(DOMAIN list)
<1>1. Keyed(list, buys, sells)
  BY KeysDiffer
<1>2. DOMAIN list \subseteq (Bottom .. Top) \cup {NoPrice}
  BY <1>1 DEF Keyed
<1>3. IsFiniteSet((Bottom .. Top) \cup {NoPrice})
  BY <1>1, FS_Interval, FS_AddElement DEF Keyed
<1> QED BY <1>2, <1>3, FS_Subset

(* Where the new level of a price belongs: behind an item below it, which  *)
(* is followed by one above it or by the end of the side.                  *)
Belongs(list, buys, sells, price, otype, found) ==
  /\ found \in DOMAIN list
  /\ IF otype = "Buy"
     THEN /\ found \in buys \cup {Bottom} /\ found < price
          /\ list[found].next \in buys => price < list[found].next
     ELSE /\ found \in sells \cup {NoPrice} /\ (found \in sells => found < price)
          /\ list[found].next \in sells => price < list[found].next

(* The places the loop of append comes to: the start, then levels below    *)
(* the price, each behind the one before.                                  *)
LevelsOf(buys, sells, otype) == IF otype = "Buy" THEN buys ELSE sells
KeysBelow(buys, sells, price, otype) ==
  {StartOf(otype)} \cup {q \in LevelsOf(buys, sells, otype) : q < price}
StandsAt(list, k) == [list |-> list, item |-> list[k]]
Places(list, buys, sells, price, otype) ==
  {StandsAt(list, k) : k \in KeysBelow(buys, sells, price, otype)}

LEMMA StepOfAppend ==
  ASSUME NEW list, NEW buys, NEW sells, Tidy(list, buys, sells), NEW otype \in OrderTypes,
         NEW price \in Int, price \notin DOMAIN list
  PROVE  LET keys == KeysBelow(buys, sells, price, otype)
             S == Places(list, buys, sells, price, otype)
             side == LevelsOf(buys, sells, otype)
         IN /\ keys \subseteq DOMAIN list /\ FirstOf(list, otype) \in S
            /\ \A k \in keys : ~Behind(list[k], price, SideEnd(otype)) =>
                 LET next == list[k].next IN
                 next \in keys /\ next \in side /\ (k \in side => k < next)
            /\ \A at \in S : ~Behind(at.item, price, SideEnd(otype)) => NextOf(at) \in S
<1> DEFINE side == LevelsOf(buys, sells, otype)
           keys == KeysBelow(buys, sells, price, otype)
           S == Places(list, buys, sells, price, otype)
<1>1. Keyed(list, buys, sells) /\ Shape(list, buys, sells)
  BY KeysDiffer DEF Tidy
<1>2. keys \subseteq DOMAIN list
  BY <1>1 DEF Keyed, StartOf, OrderTypes, KeysBelow, LevelsOf
<1>3. FirstOf(list, otype) \in S
  BY <1>2 DEF Ensure, ItemAt, FirstOf, Places, StandsAt, KeysBelow
<1>4. ASSUME NEW k \in keys
      PROVE  NextIn(side, IF k = NoPrice THEN Bottom ELSE k, list[k].next, SideEnd(otype))
  BY <1>1 DEF StartOf, OrderTypes, Shape, Sorted, Keyed, SideEnd, KeysBelow, LevelsOf
<1>5. ASSUME NEW k \in keys, ~Behind(list[k], price, SideEnd(otype))
      PROVE  list[k].next \in keys /\ list[k].next \in side /\ (k \in side => k < list[k].next)
  <2>1. list[k].next \in side
    BY <1>4, <1>5 DEF Behind, NextIn
  <2>2. /\ list[k].next \in Int /\ list[k].next # NoPrice /\ list[k].next \in DOMAIN list
    BY <1>1, <2>1 DEF Keyed, LevelsOf
  <2>3. list[k].next < price
    BY <1>5, <2>2 DEF Behind
  <2>4. k \in side => k < list[k].next
    BY <1>1, <1>4, <2>1 DEF NextIn, Keyed, LevelsOf
  <2> QED BY <2>1, <2>3, <2>4 DEF KeysBelow
<1>6. ASSUME NEW at \in S, ~Behind(at.item, price, SideEnd(otype))
      PROVE  NextOf(at) \in S
  <2>1. PICK k \in keys : at = StandsAt(list, k)
    BY DEF Places
  <2>2. at.list = list /\ at.item = list[k]
    BY <2>1 DEF StandsAt
  <2>3. list[k].next \in keys /\ list[k].next \in DOMAIN list
    BY <1>2, <1>5, <1>6, <2>2
  <2> QED BY <2>2, <2>3 DEF Ensure, ItemAt, NextOf, Places, StandsAt
<1> HIDE DEF side, keys, S
<1> QED BY <1>2, <1>3, <1>5, <1>6 DEF side, keys, S

(* The loop of append ends: each of its rounds passes one more level.      *)
Passed(side, k) == IF k \in side THEN {q \in side : q <= k} ELSE {}

LEMMA AppendHalts ==
  ASSUME NEW list, NEW buys, NEW sells, Tidy(list, buys, sells), NEW otype \in OrderTypes,
         NEW price \in Int, price \notin DOMAIN list
  PROVE  /\ Behind(Walk(list, price, otype).item, price, SideEnd(otype))
         /\ Walk(list, price, otype) \in Places(list, buys, sells, price, otype)
<1> DEFINE side == LevelsOf(buys, sells, otype)
           keys == KeysBelow(buys, sells, price, otype)
           S == Places(list, buys, sells, price, otype)
           walk == Walking(list, price, otype)
           Enough(n, k) == \/ Behind(list[k], price, SideEnd(otype))
                           \/ Cardinality(Passed(side, k)) >= n
           Good == {n \in Nat : \A k \in keys : walk[n] = StandsAt(list, k) => Enough(n, k)}
<1>1. /\ keys \subseteq DOMAIN list /\ FirstOf(list, otype) \in S
      /\ \A at \in S : ~Behind(at.item, price, SideEnd(otype)) => NextOf(at) \in S
      /\ \A k \in keys : ~Behind(list[k], price, SideEnd(otype)) =>
           /\ list[k].next \in keys /\ list[k].next \in side
           /\ k \in side => k < list[k].next
  BY StepOfAppend
<1>2. /\ walk[0] = FirstOf(list, otype)
      /\ \A n \in Nat :
           /\ walk[n] \in S
           /\ walk[n + 1] = IF Behind(walk[n].item, price, SideEnd(otype))
                            THEN walk[n] ELSE NextOf(walk[n])
  BY ONLY <1>1, WalkRounds
<1>3. /\ \A k \in DOMAIN list : list[k].price = k
      /\ IsFiniteSet(DOMAIN list) /\ side \subseteq DOMAIN list /\ side \subseteq Int
  <2>1. Keyed(list, buys, sells) /\ Shape(list, buys, sells)
    BY KeysDiffer DEF Tidy
  <2> QED BY <2>1, ListIsFinite DEF Shape, Sorted, Keyed, LevelsOf
<1>4. \A n \in Nat : \E k \in keys : walk[n] = StandsAt(list, k)
  BY <1>2 DEF Places
<1>5. \A k \in keys : Passed(side, k) \subseteq DOMAIN list
  BY <1>3 DEF Passed
<1>6. \A k \in keys :
        /\ IsFiniteSet(Passed(side, k)) /\ Cardinality(Passed(side, k)) \in Nat
        /\ Cardinality(Passed(side, k)) <= Cardinality(DOMAIN list)
  BY <1>3, <1>5, FS_Subset, FS_CardinalityType
<1> HIDE DEF side, keys, S, walk
<1>7. 0 \in Good
  BY <1>6
<1>8. ASSUME NEW n \in Nat, n \in Good, NEW m \in keys, walk[n + 1] = StandsAt(list, m)
      PROVE  Enough(n + 1, m)
  <2>1. PICK k \in keys : walk[n] = StandsAt(list, k)
    BY <1>4
  <2>2. walk[n].item = list[k] /\ walk[n].list = list /\ walk[n + 1].item = list[m]
    BY <1>8, <2>1 DEF StandsAt
  <2>3. CASE Behind(list[k], price, SideEnd(otype))
    BY <1>2, <2>2, <2>3
  <2>4. CASE ~Behind(list[k], price, SideEnd(otype))
    <3> DEFINE next == list[k].next
    <3>1. next \in keys /\ next \in side /\ (k \in side => k < next)
      BY <1>1, <2>4
    <3>2. next \in DOMAIN list /\ m \in DOMAIN list
      BY <1>1, <3>1
    <3>3. walk[n + 1].item = list[next]
      <4>1. walk[n + 1] = NextOf(walk[n])
        BY <1>2, <2>2, <2>4
      <4>2. walk[n].item.next = next /\ walk[n].list = list
        BY <2>2
      <4> HIDE DEF next
      <4>3. NextOf(walk[n]).item = list[next]
        BY <3>2, <4>2 DEF NextOf, ItemAt
      <4> QED BY ONLY <4>1, <4>3
    <3>4. m = next
      <4> HIDE DEF next
      <4>1. list[m] = list[next]
        BY ONLY <2>2, <3>3
      <4> QED BY ONLY <1>3, <3>2, <4>1
    <3>5. Cardinality(Passed(side, k)) >= n
      BY <1>8, <2>1, <2>4
    <3> HIDE DEF next
    <3>6. /\ next \notin Passed(side, k)
          /\ Passed(side, k) \cup {next} \subseteq Passed(side, next)
      BY <1>3, <3>1 DEF Passed
    <3>7. Cardinality(Passed(side, k) \cup {next}) = Cardinality(Passed(side, k)) + 1
      BY <1>6, <3>6, FS_AddElement
    <3>8. Cardinality(Passed(side, k) \cup {next}) <= Cardinality(Passed(side, next))
      BY <1>6, <3>1, <3>6, FS_Subset
    <3>9. Cardinality(Passed(side, next)) \in Nat /\ Cardinality(Passed(side, k)) \in Nat
      BY <1>6, <3>1
    <3> QED BY <3>4, <3>5, <3>7, <3>8, <3>9
  <2> QED BY <2>3, <2>4
<1>9. Nat \subseteq Good
  <2>1. \A n \in Nat : n \in Good => n + 1 \in Good
    BY <1>8
  <2> HIDE DEF Good
  <2> QED BY <1>7, <2>1, CountingUp
<1> DEFINE N == 2 * (Cardinality(DOMAIN list) + 3)
<1>10. N \in Nat /\ Cardinality(DOMAIN list) \in Nat /\ N > Cardinality(DOMAIN list)
  BY <1>3, FS_CardinalityType
<1>11. Walk(list, price, otype) = walk[N]
  BY WalkIsWalking DEF walk
<1> HIDE DEF N
<1>12. PICK k \in keys : walk[N] = StandsAt(list, k)
  BY <1>4, <1>10
<1>13. Enough(N, k)
  BY <1>9, <1>10, <1>12
<1>14. Behind(list[k], price, SideEnd(otype))
  BY <1>6, <1>10, <1>13
<1> QED BY <1>2, <1>10, <1>11, <1>12, <1>14 DEF StandsAt, S

(* The loop of append stops there. *)
LEMMA LoopOfAppend ==
  ASSUME NEW list, NEW buys, NEW sells, Tidy(list, buys, sells), NEW otype \in OrderTypes,
         NEW price \in Int, Bottom < price, price \notin DOMAIN list
  PROVE  \E found : /\ Belongs(list, buys, sells, price, otype, found)
                    /\ StopsAt(list, price, otype, found)
<1> DEFINE side == LevelsOf(buys, sells, otype)
           keys == KeysBelow(buys, sells, price, otype)
<1>1. Keyed(list, buys, sells) /\ Shape(list, buys, sells)
  BY KeysDiffer DEF Tidy
<1>2. keys \subseteq DOMAIN list
  BY StepOfAppend
<1>3. PICK found \in keys : Walk(list, price, otype) = StandsAt(list, found)
  BY AppendHalts DEF Places
<1>4. Behind(list[found], price, SideEnd(otype))
  <2>1. Walk(list, price, otype).item = list[found]
    BY <1>3 DEF StandsAt
  <2> QED BY <2>1, AppendHalts
<1>5. StopsAt(list, price, otype, found)
  BY <1>3 DEF StopsAt, StandsAt
<1>6. list[found].next \in side => price < list[found].next
  BY <1>1, <1>4 DEF Behind, SideEnd, Keyed, OrderTypes, LevelsOf
<1>7. Belongs(list, buys, sells, price, otype, found)
  BY <1>1, <1>2, <1>6 DEF Belongs, Keyed, StartOf, OrderTypes, KeysBelow, LevelsOf
<1> QED BY <1>5, <1>7

(* append ends in every list that is linked and sorted, for every price.   *)
THEOREM AppendAlwaysEnds ==
  ASSUME NEW list, NEW buys, NEW sells, Tidy(list, buys, sells), NEW otype \in OrderTypes,
         NEW price \in Int
  PROVE  AppendEnds(list, price, otype)
  BY AppendHalts DEF AppendEnds

(* A level that is put between p and q is the next one of p, and none of   *)
(* the other levels has another next one.                                  *)
LEMMA NextWith ==
  ASSUME NEW levels, levels \subseteq Int, NEW end, NEW p \in Int, NEW q,
         NEW price \in Int, price \notin levels, price # end, end \notin levels,
         NextIn(levels, p, q, end), p < price, q \in levels => price < q
  PROVE  /\ NextIn(levels \cup {price}, p, price, end)
         /\ NextIn(levels \cup {price}, price, q, end)
         /\ \A p2 \in Int : \A q2 :
              /\ NextIn(levels, p2, q2, end)
              /\ (p2 < p /\ p \in levels) \/ (p < p2 /\ p2 \in levels)
              => NextIn(levels \cup {price}, p2, q2, end)
<1>1. NextIn(levels \cup {price}, p, price, end)
  <2>1. \A x \in levels : p < x => price < x
    BY DEF NextIn
  <2> QED BY <2>1 DEF NextIn
<1>2. NextIn(levels \cup {price}, price, q, end)
  BY DEF NextIn
<1>3. ASSUME NEW p2 \in Int, NEW q2, NextIn(levels, p2, q2, end),
             (p2 < p /\ p \in levels) \/ (p < p2 /\ p2 \in levels)
      PROVE  NextIn(levels \cup {price}, p2, q2, end)
  <2>1. CASE p2 < p /\ p \in levels
    <3>1. q2 \in levels /\ q2 <= p
      BY <1>3, <2>1 DEF NextIn
    <3> QED BY <1>3, <2>1, <3>1 DEF NextIn
  <2>2. CASE p < p2 /\ p2 \in levels
    <3>1. q \in levels /\ q <= p2
      BY <2>2 DEF NextIn
    <3>2. price < p2
      BY <3>1
    <3> QED BY <1>3, <2>2, <3>2 DEF NextIn
  <2> QED BY <1>3, <2>1, <2>2
<1> QED BY <1>1, <1>2, <1>3

(* The levels once there is one more, and where it may be. *)
WithBuy(buys, otype, price)   == IF otype = "Buy" THEN buys \cup {price} ELSE buys
WithSell(sells, otype, price) == IF otype = "Buy" THEN sells ELSE sells \cup {price}
OnItsSide(buys, sells, otype, price) ==
  IF otype = "Buy" THEN \A s \in sells : price < s ELSE \A b \in buys : b < price

(* An order of a price at which there is no level gets a new level. *)
LEMMA NewLevelIsTidy ==
  ASSUME NEW list, NEW buys, NEW sells, Tidy(list, buys, sells), NEW otype \in OrderTypes,
         NEW price \in Int, Bottom < price, price < Top, price \notin DOMAIN list,
         NEW hash \in Nat, NEW sell \in Int, NEW buy \in Int,
         OnItsSide(buys, sells, otype, price)
  PROVE  LET new == NewLevel(list, price, hash, sell, buy, otype) IN
         /\ Tidy(new, WithBuy(buys, otype, price), WithSell(sells, otype, price))
         /\ \A p, h : Queued(new, p, h) <=> Queued(list, p, h) \/ (p = price /\ h = hash)
         /\ TotalsWith(new, list, price, buy)
<1> DEFINE new == NewLevel(list, price, hash, sell, buy, otype)
           buys1  == IF otype = "Buy" THEN buys \cup {price} ELSE buys
           sells1 == IF otype = "Buy" THEN sells ELSE sells \cup {price}
<1>1. Keyed(list, buys, sells) /\ Shape(list, buys, sells) /\ Queues(list, buys, sells)
  BY KeysDiffer DEF Tidy
<1>2. PICK found : /\ Belongs(list, buys, sells, price, otype, found)
                   /\ StopsAt(list, price, otype, found)
  BY LoopOfAppend
<1>3. found \in DOMAIN list /\ Linked(list) /\ price \in Keys \ DOMAIN list
  BY <1>1, <1>2 DEF Belongs, Shape, Keys
<1>4. /\ Linked(new)
      /\ DOMAIN new = DOMAIN list \cup {price}
      /\ new[price].next = list[found].next /\ new[price].orders = <<hash>>
      /\ new[price].buyAmount = buy
      /\ \A p \in DOMAIN list :
           /\ new[p].next = IF p = found THEN price ELSE list[p].next
           /\ new[p].orders = list[p].orders
           /\ new[p].buyAmount = list[p].buyAmount
  BY <1>2, <1>3, NewLevelKeepsLinks
<1> HIDE DEF new
<1>5. DOMAIN new = buys1 \cup sells1 \cup {Bottom, NoPrice, Top}
  BY <1>1, <1>4 DEF Keyed
<1>6. \A p \in buys1 \cup {Bottom} : NextIn(buys1, p, new[p].next, NoPrice)
  <2>1. CASE otype = "Buy"
    <3>1. /\ found \in buys \cup {Bottom} /\ found \in Int /\ found < price
          /\ NextIn(buys, found, list[found].next, NoPrice)
          /\ list[found].next \in buys => price < list[found].next
      BY <1>1, <1>2, <2>1 DEF Belongs, Shape, Sorted, Keyed
    <3>2. buys \subseteq Int /\ NoPrice \notin buys /\ price # NoPrice /\ price \notin buys
      BY <1>1 DEF Keyed
    <3>3. /\ NextIn(buys \cup {price}, found, price, NoPrice)
          /\ NextIn(buys \cup {price}, price, list[found].next, NoPrice)
          /\ \A p2 \in Int : \A q2 :
               /\ NextIn(buys, p2, q2, NoPrice)
               /\ (p2 < found /\ found \in buys) \/ (found < p2 /\ p2 \in buys)
               => NextIn(buys \cup {price}, p2, q2, NoPrice)
      BY <3>1, <3>2, NextWith
    <3>4. ASSUME NEW p \in buys \cup {Bottom}, p # found
          PROVE  NextIn(buys \cup {price}, p, new[p].next, NoPrice)
      <4>1. /\ p \in Int /\ NextIn(buys, p, list[p].next, NoPrice) /\ new[p].next = list[p].next
        BY <1>1, <1>4, <3>4 DEF Shape, Sorted, Keyed
      <4>2. (p < found /\ found \in buys) \/ (found < p /\ p \in buys)
        BY <1>1, <3>1, <3>4 DEF Keyed
      <4> QED BY <3>3, <4>1, <4>2
    <3>5. new[found].next = price
      BY <1>3, <1>4
    <3> QED BY <1>4, <2>1, <3>3, <3>4, <3>5
  <2>2. CASE otype # "Buy"
    <3>1. ASSUME NEW p \in buys \cup {Bottom}
          PROVE  NextIn(buys, p, list[p].next, NoPrice) /\ new[p].next = list[p].next
      <4>1. p # found /\ p \in DOMAIN list
        BY <1>1, <1>2, <2>2 DEF Belongs, Keyed
      <4> QED BY <1>1, <1>4, <4>1 DEF Shape, Sorted
    <3> QED BY <2>2, <3>1
  <2> QED BY <2>1, <2>2
<1>7. NextIn(sells1, Bottom, new[NoPrice].next, Top)
      /\ \A p \in sells1 : NextIn(sells1, p, new[p].next, Top)
  <2>1. CASE otype # "Buy"
    <3> DEFINE k == IF found = NoPrice THEN Bottom ELSE found
    <3>1. /\ found \in sells \cup {NoPrice} /\ k \in Int /\ k < price
          /\ NextIn(sells, k, list[found].next, Top)
          /\ list[found].next \in sells => price < list[found].next
          /\ k = Bottom <=> found = NoPrice
          /\ k # Bottom => k = found /\ k \in sells
      BY <1>1, <1>2, <2>1 DEF Belongs, Shape, Sorted, Keyed
    <3>2. sells \subseteq Int /\ Top \notin sells /\ price # Top /\ price \notin sells
      BY <1>1 DEF Keyed
    <3> HIDE DEF k
    <3>3. /\ NextIn(sells \cup {price}, k, price, Top)
          /\ NextIn(sells \cup {price}, price, list[found].next, Top)
          /\ \A p2 \in Int : \A q2 :
               /\ NextIn(sells, p2, q2, Top)
               /\ (p2 < k /\ k \in sells) \/ (k < p2 /\ p2 \in sells)
               => NextIn(sells \cup {price}, p2, q2, Top)
      BY <3>1, <3>2, NextWith
    <3>4. ASSUME NEW p \in sells \cup {Bottom}, p # k,
                 NEW at, at = IF p = Bottom THEN NoPrice ELSE p
          PROVE  NextIn(sells \cup {price}, p, new[at].next, Top)
      <4>1. at # found /\ at \in DOMAIN list /\ p \in Int
        BY <1>1, <3>1, <3>4 DEF Keyed
      <4>2. NextIn(sells, p, list[at].next, Top) /\ new[at].next = list[at].next
        BY <1>1, <1>4, <3>4, <4>1 DEF Shape, Sorted, Keyed
      <4>3. (p < k /\ k \in sells) \/ (k < p /\ p \in sells)
        BY <1>1, <3>1, <3>4 DEF Keyed
      <4> QED BY <3>3, <4>1, <4>2, <4>3
    <3>5. new[found].next = price
      BY <1>3, <1>4
    <3>6. NextIn(sells \cup {price}, Bottom, new[NoPrice].next, Top)
      BY <3>1, <3>3, <3>4, <3>5
    <3>7. ASSUME NEW p \in sells PROVE NextIn(sells \cup {price}, p, new[p].next, Top)
      <4>1. p # Bottom
        BY <1>1 DEF Keyed
      <4> QED BY <3>1, <3>3, <3>4, <3>5, <4>1
    <3> QED BY <1>4, <2>1, <3>3, <3>6, <3>7
  <2>2. CASE otype = "Buy"
    <3>1. ASSUME NEW p \in sells \cup {NoPrice}
          PROVE  new[p].next = list[p].next
      <4>1. p # found /\ p \in DOMAIN list
        BY <1>1, <1>2, <2>2 DEF Belongs, Keyed
      <4> QED BY <1>4, <4>1
    <3> QED BY <1>1, <2>2, <3>1 DEF Shape, Sorted
  <2> QED BY <2>1, <2>2
<1>8. new[Top].next = Bottom
  <2>1. found # Top /\ Top \in DOMAIN list
    BY <1>1, <1>2 DEF Belongs, Keyed
  <2> QED BY <1>1, <1>4, <2>1 DEF Shape, Sorted
<1>9. Sorted(new, buys1, sells1)
  BY <1>4, <1>5, <1>6, <1>7, <1>8 DEF Sorted, Linked, Stored
<1>10. /\ buys1 \cup sells1 \subseteq (Bottom + 1) .. (Top - 1)
       /\ \A b \in buys1, s \in sells1 : b < s
  <2>1. price \in (Bottom + 1) .. (Top - 1)
    BY <1>1 DEF Keyed
  <2> QED BY <1>1, <2>1 DEF Shape, OnItsSide
<1>11. Shape(new, buys1, sells1)
  BY <1>1, <1>4, <1>9, <1>10 DEF Shape
<1>12. Queues(new, buys1, sells1)
  <2>1. ASSUME NEW p \in DOMAIN list PROVE new[p].orders = list[p].orders
    BY <1>4
  <2>2. <<hash>> # <<>> /\ DOMAIN <<hash>> = {1}
    OBVIOUS
  <2>3. \A p \in buys1 \cup sells1 : new[p].orders # <<>>
    BY <1>1, <1>4, <2>1, <2>2 DEF Queues, Keyed
  <2>4. \A p \in {Bottom, NoPrice, Top} : new[p].orders = <<>>
    BY <1>1, <2>1 DEF Queues, Keyed
  <2>5. ASSUME NEW p \in DOMAIN new, NEW i \in DOMAIN new[p].orders,
               NEW j \in DOMAIN new[p].orders, i < j
        PROVE  new[p].orders[i] < new[p].orders[j]
    <3>1. CASE p = price
      BY <1>4, <2>2, <2>5, <3>1
    <3>2. CASE p # price
      BY <1>1, <1>4, <2>1, <2>5, <3>2 DEF Queues
    <3> QED BY <3>1, <3>2
  <2> QED BY <2>3, <2>4, <2>5 DEF Queues
<1>13. ASSUME NEW p, NEW h
       PROVE  Queued(new, p, h) <=> Queued(list, p, h) \/ (p = price /\ h = hash)
  <2>1. CASE p = price
    <3>1. \A i : i \in DOMAIN <<hash>> <=> i = 1
      OBVIOUS
    <3> QED BY <1>4, <2>1, <3>1 DEF Queued
  <2>2. CASE p # price
    BY <1>4, <2>2 DEF Queued
  <2> QED BY <2>1, <2>2
<1>14. TotalsWith(new, list, price, buy)
  BY <1>4 DEF TotalsWith
<1> QED BY <1>11, <1>12, <1>13, <1>14 DEF Tidy, new, WithBuy, WithSell

(* append of an order that belongs to its side of the book. *)
THEOREM AppendIsTidy ==
  ASSUME NEW list, NEW buys, NEW sells, Tidy(list, buys, sells), NEW otype \in OrderTypes,
         NEW price \in Int, Bottom < price, price < Top,
         NEW hash \in Nat, \A p, h : Queued(list, p, h) => h < hash,
         NEW sell \in Int, NEW buy \in Int,
         OnItsSide(buys, sells, otype, price)
  PROVE  LET new == AppendOrder(list, price, hash, sell, buy, otype) IN
         /\ Tidy(new, WithBuy(buys, otype, price), WithSell(sells, otype, price))
         /\ \A p, h : Queued(new, p, h) <=> Queued(list, p, h) \/ (p = price /\ h = hash)
         /\ TotalsWith(new, list, price, buy)
<1>1. Keyed(list, buys, sells)
  BY KeysDiffer DEF Tidy
<1>2. CASE price \in DOMAIN list
  <2>1. price \in IF otype = "Buy" THEN buys ELSE sells
    <3>1. price \in buys \cup sells /\ price \in Int
      BY <1>1, <1>2 DEF Keyed
    <3>2. ~ (price < price)
      OBVIOUS
    <3> QED BY <3>1, <3>2 DEF OnItsSide
  <2>2. AppendOrder(list, price, hash, sell, buy, otype) = JoinLevel(list, price, hash, sell, buy)
    BY <1>2 DEF AppendOrder
  <2>3. \A i \in DOMAIN list[price].orders : list[price].orders[i] < hash
    BY <1>2 DEF Queued
  <2>4. LET new == JoinLevel(list, price, hash, sell, buy) IN
        /\ Tidy(new, buys, sells)
        /\ \A p, h : Queued(new, p, h) <=> Queued(list, p, h) \/ (p = price /\ h = hash)
        /\ TotalsWith(new, list, price, buy)
    <3>1. price \in buys \cup sells
      BY <2>1
    <3> QED BY <2>3, <3>1, JoinKeepsTidy
  <2>5. /\ otype = "Buy" => buys \cup {price} = buys
        /\ otype # "Buy" => sells \cup {price} = sells
    BY <2>1
  <2> QED BY <2>2, <2>4, <2>5 DEF WithBuy, WithSell
<1>3. CASE price \notin DOMAIN list
  <2>1. AppendOrder(list, price, hash, sell, buy, otype)
          = NewLevel(list, price, hash, sell, buy, otype)
    BY <1>3 DEF AppendOrder
  <2>2. LET new == NewLevel(list, price, hash, sell, buy, otype) IN
        /\ Tidy(new, WithBuy(buys, otype, price), WithSell(sells, otype, price))
        /\ \A p, h : Queued(new, p, h) <=> Queued(list, p, h) \/ (p = price /\ h = hash)
        /\ TotalsWith(new, list, price, buy)
    BY <1>3, NewLevelIsTidy
  <2> QED BY <2>1, <2>2
<1> QED BY <1>2, <1>3

-----------------------------------------------------------------------------
(* Orders that leave a level: what the sweep after a trade does to the     *)
(* level the trade was with.                                               *)

LEMMA Shifted ==
  ASSUME NEW n \in Nat, NEW m \in Nat, NEW i \in 1 .. n, m = n - i + 1
  PROVE  /\ \A k \in 1 .. m : (i + k - 1) \in 1 .. n /\ i <= (i + k - 1)
         /\ \A k \in 1 .. n : i <= k => (k - i + 1) \in 1 .. m /\ i + (k - i + 1) - 1 = k
         /\ \A k, l \in 1 .. m : k < l => (i + k - 1) < (i + l - 1)
  OBVIOUS

LEMMA RestOfQueue ==
  ASSUME NEW queue \in Seq(Nat), Ascending(queue), NEW i \in 1 .. Len(queue)
  PROVE  LET rest == SubSeq(queue, i, Len(queue)) IN
         /\ rest \in Seq(Nat) /\ rest # <<>> /\ Ascending(rest)
         /\ Len(rest) = Len(queue) - i + 1
         /\ \A k \in DOMAIN rest : rest[k] = queue[i + k - 1]
         /\ \A h : (\E k \in DOMAIN rest : rest[k] = h)
                     <=> \E k \in DOMAIN queue : i <= k /\ queue[k] = h
<1> DEFINE rest == SubSeq(queue, i, Len(queue))
<1>1. /\ rest \in Seq(Nat) /\ Len(rest) = Len(queue) - i + 1
      /\ \A k \in 1 .. Len(rest) : rest[k] = queue[i + k - 1]
  <2>1. /\ i \in Int /\ Len(queue) \in Int /\ i <= Len(queue)
        /\ \A j \in i .. Len(queue) : queue[j] \in Nat
    OBVIOUS
  <2> QED BY ONLY <2>1, SubSeqProperties, SMTT(30)
<1>2. /\ Len(queue) \in Nat /\ i \in Nat /\ Len(rest) \in Nat /\ Len(rest) > 0
      /\ DOMAIN queue = 1 .. Len(queue)
      /\ DOMAIN rest = 1 .. Len(rest) /\ \A k \in DOMAIN queue : queue[k] \in Nat
  BY <1>1
<1> HIDE DEF rest
<1>6. /\ \A k \in DOMAIN rest : (i + k - 1) \in DOMAIN queue /\ i <= (i + k - 1)
      /\ \A k \in DOMAIN queue : i <= k => (k - i + 1) \in DOMAIN rest /\ i + (k - i + 1) - 1 = k
      /\ \A k, l \in DOMAIN rest : k < l => (i + k - 1) < (i + l - 1)
  <2>1. PICK n \in Nat, m \in Nat : n = Len(queue) /\ m = Len(rest)
    BY <1>2
  <2>2. m = n - i + 1 /\ i \in 1 .. n
    BY <1>1, <2>1
  <2>3. DOMAIN queue = 1 .. n /\ DOMAIN rest = 1 .. m
    BY <1>2, <2>1
  <2>4. /\ \A k \in 1 .. m : (i + k - 1) \in 1 .. n /\ i <= (i + k - 1)
        /\ \A k \in 1 .. n : i <= k => (k - i + 1) \in 1 .. m /\ i + (k - i + 1) - 1 = k
        /\ \A k, l \in 1 .. m : k < l => (i + k - 1) < (i + l - 1)
    BY ONLY <2>2, Shifted
  <2> QED BY ONLY <2>3, <2>4
<1>3. Ascending(rest)
  <2>1. ASSUME NEW k \in DOMAIN rest, NEW l \in DOMAIN rest, k < l PROVE rest[k] < rest[l]
    <3>1. /\ (i + k - 1) \in DOMAIN queue /\ (i + l - 1) \in DOMAIN queue
          /\ (i + k - 1) < (i + l - 1)
      BY <1>6, <2>1
    <3>2. queue[i + k - 1] < queue[i + l - 1]
      BY <3>1 DEF Ascending
    <3>3. rest[k] = queue[i + k - 1] /\ rest[l] = queue[i + l - 1]
      BY <1>1, <1>2
    <3> QED BY <3>2, <3>3
  <2> QED BY <2>1 DEF Ascending
<1>4. ASSUME NEW h
      PROVE  (\E k \in DOMAIN rest : rest[k] = h)
               <=> \E k \in DOMAIN queue : i <= k /\ queue[k] = h
  <2>1. ASSUME NEW k \in DOMAIN rest, rest[k] = h
        PROVE  \E l \in DOMAIN queue : i <= l /\ queue[l] = h
    <3>1. (i + k - 1) \in DOMAIN queue /\ i <= (i + k - 1)
      BY <1>6
    <3>2. queue[i + k - 1] = h
      BY <1>1, <1>2, <2>1
    <3> QED BY <3>1, <3>2
  <2>2. ASSUME NEW k \in DOMAIN queue, i <= k, queue[k] = h
        PROVE  \E l \in DOMAIN rest : rest[l] = h
    <3>1. (k - i + 1) \in DOMAIN rest /\ i + (k - i + 1) - 1 = k
      BY <1>6, <2>2
    <3>2. rest[k - i + 1] = queue[k]
      BY <1>1, <1>2, <3>1
    <3> QED BY <2>2, <3>1, <3>2
  <2> QED BY <2>1, <2>2
<1>5. rest # <<>>
  BY <1>2
<1> QED BY <1>1, <1>2, <1>3, <1>4, <1>5 DEF rest

(* The finished orders at the head of a level go: the first that is not    *)
(* finished is the i-th.                                                   *)
LEMMA DropKeepsTidy ==
  ASSUME NEW list, NEW buys, NEW sells, Tidy(list, buys, sells), NEW x \in buys \cup sells,
         NEW finished, NEW i \in 1 .. Len(list[x].orders), list[x].orders[i] \notin finished,
         \A j \in 1 .. (i - 1) : list[x].orders[j] \in finished
  PROVE  LET new == DropFinished(list, x, finished) IN
         /\ Tidy(new, buys, sells)
         /\ Requeued(list, new, x, SubSeq(list[x].orders, i, Len(list[x].orders)))
         /\ SameTotals(new, list)
<1> DEFINE queue == list[x].orders
           rest == SubSeq(queue, i, Len(queue))
           new == DropFinished(list, x, finished)
           IsFirst(k) == queue[k] \notin finished /\ \A j \in 1 .. (k - 1) : queue[j] \in finished
           first == CHOOSE k \in DOMAIN queue : IsFirst(k)
<1>1. /\ x \in DOMAIN list /\ list[x] \in Items /\ list[x].price = x
      /\ queue \in Seq(Nat) /\ queue # <<>> /\ Ascending(queue)
      /\ list[x].buyAmount \in Int /\ list[x].sellAmount \in Int
  BY ItemTypes
<1>2. /\ rest \in Seq(Nat) /\ rest # <<>> /\ Ascending(rest)
  BY <1>1, RestOfQueue
<1>3. first = i
  <2>1. i \in DOMAIN queue /\ IsFirst(i)
    BY <1>1
  <2>2. first \in DOMAIN queue /\ IsFirst(first)
    <3> HIDE DEF queue, IsFirst
    <3> QED BY <2>1
  <2>3. first \in Int /\ first >= 1 /\ i \in Int
    <3> HIDE DEF first
    <3> QED BY <1>1, <2>2
  <2> HIDE DEF first
  <2> QED BY <2>1, <2>2, <2>3
<1>4. /\ DOMAIN new = DOMAIN list
      /\ new[x] = [list[x] EXCEPT !.orders = rest]
      /\ \A p \in DOMAIN list \ {x} : new[p] = list[p]
  <2>1. new = [list EXCEPT ![x].orders = SubSeq(@, first, Len(queue))]
    BY DEF DropFinished
  <2> HIDE DEF new, first
  <2>2. new = [list EXCEPT ![x].orders = SubSeq(@, i, Len(queue))]
    BY <1>3, <2>1
  <2> QED BY <1>1, <2>2
<1> HIDE DEF new, rest, queue
<1>5. new[x] = Counted(list[x], list[x].buyAmount, list[x].sellAmount, rest)
  BY <1>1, <1>4 DEF Counted, Items
<1>6. Requeued(list, new, x, rest)
  <2>1. /\ new[x] \in Items /\ new[x].price = list[x].price
        /\ new[x].next = list[x].next /\ new[x].prev = list[x].prev /\ new[x].orders = rest
    BY <1>1, <1>2, <1>5, CountedItem
  <2> QED BY <1>4, <2>1 DEF Requeued
<1>7. Tidy(new, buys, sells)
  BY <1>2, <1>6, RequeuedTidy
<1>8. SameTotals(new, list)
  <2>1. new[x].buyAmount = list[x].buyAmount
    BY <1>1, <1>2, <1>5, CountedItem
  <2> QED BY <1>4, <2>1 DEF SameTotals
<1> QED BY <1>6, <1>7, <1>8 DEF new, rest, queue

(* The sweep: a round, and what is done once the rounds are over. *)
SweepRound(l, otype, finished) ==
  IF /\ Best(l, otype) \in DOMAIN l \ {NoPrice, MatchEnd(otype)}
     /\ AllFinished(l[Best(l, otype)], finished)
  THEN RemoveItem(l, Best(l, otype))
  ELSE l

SweepEnds(last, otype, finished) ==
  CASE Best(last, otype) = MatchEnd(otype) -> [list |-> last, result |-> "ok"]
    [] Best(last, otype) = NoPrice         -> [list |-> last, result |-> "panics"]
    [] OTHER ->
         IF Best(last, otype) \notin DOMAIN last THEN [list |-> last, result |-> "never ends"]
         ELSE [list |-> DropFinished(last, Best(last, otype), finished), result |-> "ok"]

Sweeps(sweep, list, otype, finished) ==
  sweep = [n \in Nat |-> IF n = 0 THEN Ensure(list, NoPrice)
                         ELSE SweepRound(sweep[n - 1], otype, finished)]
Sweeping(list, otype, finished) == CHOOSE sweep : Sweeps(sweep, list, otype, finished)

LEMMA SweepIsSweeping ==
  ASSUME NEW list, NEW otype, NEW finished
  PROVE  Sweep(list, otype, finished)
           = SweepEnds(Sweeping(list, otype, finished)[Cardinality(DOMAIN list)],
                       otype, finished)
  BY DEF Sweep, Sweeping, Sweeps, SweepRound, SweepEnds

(* One round does what the sweep does, when a second one does nothing. *)
LEMMA OneRound ==
  ASSUME NEW list, NEW otype, NEW finished, NEW r,
         IsFiniteSet(DOMAIN list), NoPrice \in DOMAIN list,
         SweepRound(list, otype, finished) = r, SweepRound(r, otype, finished) = r
  PROVE  Sweep(list, otype, finished) = SweepEnds(r, otype, finished)
<1> DEFINE f == [n \in Nat |-> IF n = 0 THEN list ELSE r]
           sweep == Sweeping(list, otype, finished)
<1>1. Ensure(list, NoPrice) = list
  BY DEF Ensure
<1>2. Sweeps(f, list, otype, finished)
  <2>1. ASSUME NEW n \in Nat
        PROVE  f[n] = IF n = 0 THEN Ensure(list, NoPrice)
                      ELSE SweepRound(f[n - 1], otype, finished)
    <3>1. CASE n = 0
      BY <1>1, <3>1
    <3>2. CASE n # 0
      <4>1. n - 1 \in Nat
        BY <3>2
      <4>2. f[n - 1] = IF n - 1 = 0 THEN list ELSE r
        BY <4>1
      <4> QED BY <3>2, <4>2
    <3> QED BY <3>1, <3>2
  <2> QED BY <2>1 DEF Sweeps
<1>3. Sweeps(sweep, list, otype, finished)
  <2> HIDE DEF f
  <2> QED BY <1>2 DEF Sweeping
<1> HIDE DEF sweep, f
<1>4. sweep[0] = list
  BY <1>1, <1>3 DEF Sweeps
<1>5. ASSUME NEW n \in Nat PROVE sweep[n + 1] = SweepRound(sweep[n], otype, finished)
  <2>1. n + 1 \in Nat /\ n + 1 # 0 /\ (n + 1) - 1 = n
    OBVIOUS
  <2> QED BY <1>3, <2>1 DEF Sweeps
<1> DEFINE Good == {n \in Nat : sweep[n + 1] = r}
<1>6. 0 \in Good
  <2>1. sweep[0 + 1] = r
    BY <1>4, <1>5
  <2> QED BY <2>1
<1>7. ASSUME NEW n \in Nat, n \in Good PROVE n + 1 \in Good
  <2>1. sweep[n + 1] = r /\ n + 1 \in Nat
    BY <1>7
  <2>2. sweep[(n + 1) + 1] = r
    BY <1>5, <2>1
  <2> QED BY <2>1, <2>2
<1>8. Nat \subseteq Good
  <2> HIDE DEF Good
  <2> QED BY <1>6, <1>7, CountingUp
<1>9. Cardinality(DOMAIN list) \in Nat /\ Cardinality(DOMAIN list) # 0
  <2>1. DOMAIN list # {}
    OBVIOUS
  <2> QED BY <2>1, FS_CardinalityType, FS_EmptySet
<1>10. PICK n \in Nat : Cardinality(DOMAIN list) = n + 1
  <2>1. Cardinality(DOMAIN list) - 1 \in Nat
    BY <1>9
  <2> QED BY <1>9, <2>1
<1>11. sweep[Cardinality(DOMAIN list)] = r
  BY <1>8, <1>10
<1> QED BY <1>11, SweepIsSweeping DEF sweep

SideOfBook(buys, sells, otype) == IF otype = "Buy" THEN buys ELSE sells

LEMMA BestOfSide ==
  ASSUME NEW list, NEW buys, NEW sells, Tidy(list, buys, sells), NEW otype \in OrderTypes
  PROVE  /\ Best(list, otype) \in SideOfBook(buys, sells, otype) \cup {MatchEnd(otype)}
         /\ Best(list, otype) # NoPrice /\ Best(list, otype) \in DOMAIN list
         /\ MatchEnd(otype) \notin buys \cup sells
         /\ NoPrice \in DOMAIN list /\ NoPrice \notin buys \cup sells
<1>1. Keyed(list, buys, sells) /\ Shape(list, buys, sells)
  BY KeysDiffer DEF Tidy
<1>2. /\ Best(list, "Buy") \in buys \cup {Bottom}
      /\ Best(list, "Sell") \in sells \cup {Top}
  BY <1>1, BestPrice
<1> QED BY <1>1, <1>2 DEF Keyed, OrderTypes, SideOfBook, MatchEnd

(* Orders that are queued are not finished: the sweep changes nothing. *)
LEMMA NothingToSweep ==
  ASSUME NEW list, NEW buys, NEW sells, Tidy(list, buys, sells), NEW otype \in OrderTypes,
         NEW finished, \A p, h : Queued(list, p, h) => h \notin finished
  PROVE  /\ SweepRound(list, otype, finished) = list
         /\ SweepEnds(list, otype, finished).result = "ok"
         /\ Tidy(SweepEnds(list, otype, finished).list, buys, sells)
         /\ \A p, h : Queued(SweepEnds(list, otype, finished).list, p, h) <=> Queued(list, p, h)
         /\ SameTotals(SweepEnds(list, otype, finished).list, list)
<1> DEFINE x == Best(list, otype)
           queue == list[x].orders
<1>1. /\ x \in SideOfBook(buys, sells, otype) \cup {MatchEnd(otype)}
      /\ x # NoPrice /\ x \in DOMAIN list /\ MatchEnd(otype) \notin buys \cup sells
  BY BestOfSide
<1>2. CASE x = MatchEnd(otype)
  <2>1. SweepRound(list, otype, finished) = list
    BY <1>2 DEF SweepRound
  <2>2. SweepEnds(list, otype, finished) = [list |-> list, result |-> "ok"]
    BY <1>1, <1>2 DEF SweepEnds
  <2> QED BY <2>1, <2>2 DEF SameTotals
<1>3. CASE x # MatchEnd(otype)
  <2>1. x \in buys \cup sells
    BY <1>1, <1>3 DEF SideOfBook
  <2>2. queue \in Seq(Nat) /\ queue # <<>>
    BY <2>1, ItemTypes
  <2>3. 1 \in 1 .. Len(queue) /\ 1 \in DOMAIN queue
    BY <2>2
  <2>4. queue[1] \notin finished
    BY <1>1, <2>3 DEF Queued
  <2>5. SweepRound(list, otype, finished) = list
    BY <2>3, <2>4 DEF SweepRound, AllFinished
  <2>6. SweepEnds(list, otype, finished)
          = [list |-> DropFinished(list, x, finished), result |-> "ok"]
    BY <1>1, <1>3 DEF SweepEnds
  <2> DEFINE new == DropFinished(list, x, finished)
  <2>7. /\ Tidy(new, buys, sells) /\ Requeued(list, new, x, SubSeq(queue, 1, Len(queue)))
        /\ SameTotals(new, list)
    <3>1. \A j \in 1 .. (1 - 1) : queue[j] \in finished
      OBVIOUS
    <3> HIDE DEF new
    <3> QED BY <2>1, <2>3, <2>4, <3>1, DropKeepsTidy DEF new
  <2>8. SubSeq(queue, 1, Len(queue)) = queue
    BY <2>2, SubSeqFull
  <2> HIDE DEF new
  <2>9. \A p, h : Queued(new, p, h) <=> Queued(list, p, h)
    <3>1. DOMAIN new = DOMAIN list /\ \A p \in DOMAIN list : new[p].orders = list[p].orders
      BY <2>7, <2>8 DEF Requeued
    <3> QED BY <3>1 DEF Queued
  <2>10. /\ SweepEnds(list, otype, finished).result = "ok"
         /\ SweepEnds(list, otype, finished).list = new
    BY <2>6 DEF new
  <2> QED BY <2>5, <2>7, <2>9, <2>10
<1> QED BY <1>2, <1>3

(* No order but one of those in the list is finished. *)
OnlyFinished(list, x, hash, finished) ==
  \A p, h : Queued(list, p, h) /\ h \in finished => p = x /\ h = hash

(* Of the list of a sweep, and the one it leaves. *)
SweptOf(swept, list, buys, sells, otype, finished) ==
  LET x == Best(list, otype)
      queue == list[x].orders
  IN /\ swept.result = "ok"
     /\ \E gone \in {{}, {x}} : Tidy(swept.list, buys \ gone, sells \ gone)
     /\ \A p, h : Queued(swept.list, p, h) <=> Queued(list, p, h) /\ h \notin finished
     /\ queue[1] \in finished /\ Len(queue) > 1 =>
          /\ Best(swept.list, otype) = x
          /\ swept.list[x].orders = Tail(queue)
     /\ SameTotals(swept.list, list)

(* After a trade with the oldest order of the best level, that order may be*)
(* the only one that is finished: it goes, and so does its level when it   *)
(* was the last one there; nothing else does.                              *)
THEOREM SweepAfterTrade ==
  ASSUME NEW list, NEW buys, NEW sells, Tidy(list, buys, sells), NEW otype \in OrderTypes,
         NEW x \in SideOfBook(buys, sells, otype), x = Best(list, otype), NEW finished, NEW hash,
         hash = list[x].orders[1], OnlyFinished(list, x, hash, finished)
  PROVE  SweptOf(Sweep(list, otype, finished), list, buys, sells, otype, finished)
<1>0. /\ \A p, h : Queued(list, p, h) /\ h \in finished => p = x /\ h = hash
      /\ SweptOf(Sweep(list, otype, finished), list, buys, sells, otype, finished)
           <=> LET swept == Sweep(list, otype, finished) IN
               /\ swept.result = "ok"
               /\ \E gone \in {{}, {x}} : Tidy(swept.list, buys \ gone, sells \ gone)
               /\ \A p, h : Queued(swept.list, p, h) <=> Queued(list, p, h) /\ h \notin finished
               /\ hash \in finished /\ Len(list[x].orders) > 1 =>
                    /\ Best(swept.list, otype) = x
                    /\ swept.list[x].orders = Tail(list[x].orders)
               /\ SameTotals(swept.list, list)
  BY DEF OnlyFinished, SweptOf
<1> SUFFICES
      ASSUME \A p, h : Queued(list, p, h) /\ h \in finished => p = x /\ h = hash
      PROVE  LET swept == Sweep(list, otype, finished) IN
             /\ swept.result = "ok"
             /\ \E gone \in {{}, {x}} : Tidy(swept.list, buys \ gone, sells \ gone)
             /\ \A p, h : Queued(swept.list, p, h) <=> Queued(list, p, h) /\ h \notin finished
             /\ hash \in finished /\ Len(list[x].orders) > 1 =>
                  /\ Best(swept.list, otype) = x
                  /\ swept.list[x].orders = Tail(list[x].orders)
             /\ SameTotals(swept.list, list)
  BY <1>0
<1> DEFINE queue == list[x].orders
           swept == Sweep(list, otype, finished)
<1>1. /\ x \in buys \cup sells /\ x # NoPrice /\ x # MatchEnd(otype) /\ NoPrice \in DOMAIN list
  BY BestOfSide DEF SideOfBook
<1>2. IsFiniteSet(DOMAIN list)
  BY ListIsFinite DEF Tidy
<1>3. x \in DOMAIN list /\ queue \in Seq(Nat) /\ queue # <<>> /\ Ascending(queue)
  BY <1>1, ItemTypes
<1>4. /\ Len(queue) \in Nat /\ Len(queue) # 0 /\ DOMAIN queue = 1 .. Len(queue)
      /\ 1 \in DOMAIN queue /\ Queued(list, x, hash)
  BY <1>3 DEF Queued
<1>5. \A i \in DOMAIN queue : i # 1 => queue[i] # hash
  <2> HIDE DEF queue
  <2>1. ASSUME NEW i \in DOMAIN queue, i # 1 PROVE queue[i] # hash
    <3>1. 1 < i /\ queue[1] \in Nat /\ queue[i] \in Nat
      BY <1>3, <1>4, <2>1
    <3>2. queue[1] < queue[i]
      BY <1>3, <1>4, <3>1 DEF Ascending
    <3> QED BY <3>1, <3>2 DEF queue
  <2> QED BY <2>1
<1>6. CASE hash \notin finished
  <2>1. \A p, h : Queued(list, p, h) => h \notin finished
    BY <1>6
  <2>2. /\ SweepRound(list, otype, finished) = list
        /\ SweepEnds(list, otype, finished).result = "ok"
        /\ Tidy(SweepEnds(list, otype, finished).list, buys, sells)
        /\ \A p, h : Queued(SweepEnds(list, otype, finished).list, p, h) <=> Queued(list, p, h)
        /\ SameTotals(SweepEnds(list, otype, finished).list, list)
    BY <2>1, NothingToSweep
  <2>3. swept = SweepEnds(list, otype, finished)
    BY <1>1, <1>2, <2>2, OneRound
  <2>4. buys \ {} = buys /\ sells \ {} = sells
    OBVIOUS
  <2> HIDE DEF swept
  <2> QED BY <1>6, <2>1, <2>2, <2>3, <2>4 DEF swept
<1>7. CASE hash \in finished /\ Len(queue) > 1
  <2>1. 2 \in 1 .. Len(queue) /\ queue[2] \notin finished
    <3>1. 2 \in DOMAIN queue
      BY <1>4, <1>7
    <3>2. Queued(list, x, queue[2]) /\ queue[2] # hash
      BY <1>3, <1>5, <3>1 DEF Queued
    <3> QED BY <1>4, <3>1, <3>2
  <2>2. SweepRound(list, otype, finished) = list
    <3>1. ~AllFinished(list[x], finished)
      BY <1>4, <2>1 DEF AllFinished
    <3> QED BY <3>1 DEF SweepRound
  <2>3. swept = SweepEnds(list, otype, finished)
    BY <1>1, <1>2, <2>2, OneRound
  <2> DEFINE new == DropFinished(list, x, finished)
  <2>4. swept = [list |-> new, result |-> "ok"]
    BY <1>1, <1>3, <2>3 DEF SweepEnds
  <2>5. /\ Tidy(new, buys, sells) /\ Requeued(list, new, x, SubSeq(queue, 2, Len(queue)))
        /\ SameTotals(new, list)
    <3>1. \A j \in 1 .. (2 - 1) : queue[j] \in finished
      BY <1>7
    <3> HIDE DEF new
    <3> QED BY <1>1, <2>1, <3>1, DropKeepsTidy DEF new
  <2>6. SubSeq(queue, 2, Len(queue)) = Tail(queue)
    BY <1>3, TailIsSubSeq
  <2> HIDE DEF new
  <2>7. Best(new, otype) = x /\ new[x].orders = Tail(queue)
    BY <1>1, <1>3, <2>5, <2>6 DEF Requeued, Best, HeadItem, ItemAt
  <2>8. ASSUME NEW p, NEW h PROVE Queued(new, p, h) <=> Queued(list, p, h) /\ h \notin finished
    <3>1. CASE p # x
      BY <2>5, <3>1 DEF Queued, Requeued
    <3>2. CASE p = x
      <4> DEFINE rest == SubSeq(queue, 2, Len(queue))
      <4>1. (\E k \in DOMAIN rest : rest[k] = h) <=> \E k \in DOMAIN queue : 2 <= k /\ queue[k] = h
        <5> HIDE DEF queue, rest
        <5>1. PICK i \in 1 .. Len(queue) : i = 2
          BY <2>1
        <5>2. \A e : (\E k \in DOMAIN SubSeq(queue, i, Len(queue)) :
                        SubSeq(queue, i, Len(queue))[k] = e)
                     <=> \E k \in DOMAIN queue : i <= k /\ queue[k] = e
          BY <1>3, RestOfQueue
        <5> QED BY <5>1, <5>2 DEF rest
      <4>2. Queued(new, x, h) <=> \E k \in DOMAIN rest : rest[k] = h
        BY <1>3, <2>5 DEF Requeued, Queued
      <4>3. (\E k \in DOMAIN queue : 2 <= k /\ queue[k] = h)
              <=> (\E k \in DOMAIN queue : queue[k] = h) /\ h # hash
        <5> HIDE DEF queue
        <5>1. \A k \in DOMAIN queue : k \in Int /\ (2 <= k <=> k # 1)
          BY <1>4
        <5>2. queue[1] = hash
          BY DEF queue
        <5> QED BY <1>5, <5>1, <5>2
      <4>4. Queued(list, x, h) <=> \E k \in DOMAIN queue : queue[k] = h
        BY <1>3 DEF Queued
      <4>5. Queued(list, x, h) => (h # hash <=> h \notin finished)
        BY <1>7
      <4> QED BY <3>2, <4>1, <4>2, <4>3, <4>4, <4>5
    <3> QED BY <3>1, <3>2
  <2>9. buys \ {} = buys /\ sells \ {} = sells /\ swept.list = new /\ swept.result = "ok"
    BY <2>4
  <2> HIDE DEF swept
  <2> QED BY <2>5, <2>7, <2>8, <2>9 DEF swept
<1>8. CASE hash \in finished /\ ~(Len(queue) > 1)
  <2>1. \A i \in DOMAIN queue : i = 1
    BY <1>4, <1>8
  <2> DEFINE left == RemoveItem(list, x)
  <2>2. SweepRound(list, otype, finished) = left
    <3>1. AllFinished(list[x], finished)
      BY <1>8, <2>1 DEF AllFinished
    <3> QED BY <1>1, <1>3, <3>1 DEF SweepRound
  <2>3. /\ Tidy(left, buys \ {x}, sells \ {x})
        /\ DOMAIN left = DOMAIN list \ {x}
        /\ SameQueues(left, list) /\ SameTotals(left, list)
    BY <1>1, LevelRemoved
  <2> HIDE DEF left
  <2>4. ASSUME NEW p, NEW h PROVE Queued(left, p, h) <=> Queued(list, p, h) /\ h \notin finished
    <3>1. CASE p = x
      <4>1. Queued(list, x, h) => h = hash
        BY <2>1 DEF Queued
      <4> QED BY <1>8, <2>3, <3>1, <4>1 DEF Queued
    <3>2. CASE p # x
      BY <2>3, <3>2 DEF Queued, SameQueues
    <3> QED BY <3>1, <3>2
  <2>5. \A p, h : Queued(left, p, h) => h \notin finished
    BY <2>4
  <2>6. /\ SweepRound(left, otype, finished) = left
        /\ SweepEnds(left, otype, finished).result = "ok"
        /\ Tidy(SweepEnds(left, otype, finished).list, buys \ {x}, sells \ {x})
        /\ \A p, h : Queued(SweepEnds(left, otype, finished).list, p, h) <=> Queued(left, p, h)
        /\ SameTotals(SweepEnds(left, otype, finished).list, left)
    BY <2>3, <2>5, NothingToSweep
  <2>7. swept = SweepEnds(left, otype, finished)
    BY <1>1, <1>2, <2>2, <2>6, OneRound
  <2> HIDE DEF swept
  <2>8. SameTotals(swept.list, list)
    BY <2>3, <2>6, <2>7 DEF SameTotals
  <2> QED BY <1>8, <2>4, <2>6, <2>7, <2>8 DEF swept
<1> QED BY <1>6, <1>7, <1>8

-----------------------------------------------------------------------------
(* Vec::retain of all orders but one: those are kept, in their order. *)

Keeps(kept, queue, e) ==
  kept = [n \in 0 .. Len(queue) |->
            IF n = 0 THEN <<>>
            ELSE IF queue[n] = e THEN kept[n - 1] ELSE Append(kept[n - 1], queue[n])]
Keeping(queue, e) == CHOOSE kept : Keeps(kept, queue, e)

LEMMA WithoutIsKeeping ==
  ASSUME NEW queue, NEW e
  PROVE  Without(queue, e) = Keeping(queue, e)[Len(queue)]
  BY DEF Without, Keeping, Keeps

LEMMA KeepingExists ==
  ASSUME NEW queue \in Seq(Nat), NEW e
  PROVE  Keeps(Keeping(queue, e), queue, e)
<1> DEFINE step == [n \in Nat |-> [s \in Seq(Nat) |->
                      IF n + 1 \in DOMAIN queue /\ queue[n + 1] # e
                      THEN Append(s, queue[n + 1]) ELSE s]]
<1>1. Moves(step, Seq(Nat))
  <2>1. ASSUME NEW n \in Nat, NEW s \in Seq(Nat)
        PROVE  (IF n + 1 \in DOMAIN queue /\ queue[n + 1] # e
                THEN Append(s, queue[n + 1]) ELSE s) \in Seq(Nat)
    OBVIOUS
  <2> QED BY <2>1 DEF Moves
<1>2. <<>> \in Seq(Nat)
  OBVIOUS
<1>3. PICK f : Iterates(f, Seq(Nat), <<>>, step)
  <2> HIDE DEF step
  <2> QED BY <1>1, <1>2, RecursionExists
<1> DEFINE kept == [n \in 0 .. Len(queue) |-> f[n]]
<1>4. Len(queue) \in Nat /\ DOMAIN queue = 1 .. Len(queue)
  OBVIOUS
<1>5. ASSUME NEW n \in 0 .. Len(queue)
      PROVE  kept[n] = IF n = 0 THEN <<>>
                       ELSE IF queue[n] = e THEN kept[n - 1] ELSE Append(kept[n - 1], queue[n])
  <2>1. CASE n = 0
    BY <1>3, <1>4, <2>1 DEF Iterates
  <2>2. CASE n # 0
    <3>1. /\ n - 1 \in Nat /\ n - 1 \in 0 .. Len(queue) /\ n = (n - 1) + 1 /\ n \in DOMAIN queue
      BY <1>4, <2>2
    <3>2. f[n - 1] \in Seq(Nat) /\ f[n] = step[n - 1][f[n - 1]]
      <4> HIDE DEF step
      <4>1. f \in [Nat -> Seq(Nat)] /\ \A m \in Nat : f[m + 1] = step[m][f[m]]
        BY <1>3 DEF Iterates
      <4> QED BY <3>1, <4>1
    <3>3. f[n] = IF queue[n] # e THEN Append(f[n - 1], queue[n]) ELSE f[n - 1]
      BY <3>1, <3>2
    <3> QED BY <2>2, <3>1, <3>3
  <2> QED BY <2>1, <2>2
<1>6. Keeps(kept, queue, e)
  BY <1>5 DEF Keeps
<1> QED
  <2> HIDE DEF kept
  <2> QED BY <1>6 DEF Keeping

(* Queues whose members are related as they come: oldest first, newest     *)
(* first, or each but once.                                                *)
Pairwise(queue, R) == \A i, j \in DOMAIN queue : i < j => <<queue[i], queue[j]>> \in R

LEMMA AppendedInOrder ==
  ASSUME NEW old \in Seq(Nat), NEW R, Pairwise(old, R), NEW e \in Nat,
         \A i \in DOMAIN old : <<old[i], e>> \in R
  PROVE  LET queue == Append(old, e) IN
         /\ queue \in Seq(Nat) /\ Pairwise(queue, R)
         /\ \A h : (\E i \in DOMAIN queue : queue[i] = h)
                     <=> (\E i \in DOMAIN old : old[i] = h) \/ h = e
<1> DEFINE queue == Append(old, e)
<1>1. /\ queue \in Seq(Nat) /\ Len(old) \in Nat
      /\ DOMAIN old = 1 .. Len(old) /\ DOMAIN queue = 1 .. (Len(old) + 1)
      /\ queue[Len(old) + 1] = e
      /\ \A i \in DOMAIN old : queue[i] = old[i]
  OBVIOUS
<1> HIDE DEF queue
<1>2. ASSUME NEW i \in DOMAIN queue, NEW j \in DOMAIN queue, i < j
      PROVE  <<queue[i], queue[j]>> \in R
  <2>1. i \in DOMAIN old /\ queue[i] = old[i]
    BY <1>1, <1>2
  <2>2. CASE j = Len(old) + 1
    BY <1>1, <2>1, <2>2
  <2>3. CASE j # Len(old) + 1
    <3>1. j \in DOMAIN old /\ queue[j] = old[j]
      BY <1>1, <2>3
    <3> QED BY <1>2, <2>1, <3>1 DEF Pairwise
  <2> QED BY <2>2, <2>3
<1>3. ASSUME NEW h
      PROVE  (\E i \in DOMAIN queue : queue[i] = h)
               <=> (\E i \in DOMAIN old : old[i] = h) \/ h = e
  BY <1>1, SMTT(20)
<1> QED BY <1>1, <1>2, <1>3 DEF queue, Pairwise

LEMMA WithoutKeepsOrder ==
  ASSUME NEW queue \in Seq(Nat), NEW R, Pairwise(queue, R), NEW e
  PROVE  LET left == Without(queue, e) IN
         /\ left \in Seq(Nat) /\ Pairwise(left, R)
         /\ \A h : (\E k \in DOMAIN left : left[k] = h)
                     <=> (\E k \in DOMAIN queue : queue[k] = h) /\ h # e
<1> DEFINE kept == Keeping(queue, e)
           Holds(s, n) ==
             /\ s \in Seq(Nat) /\ Pairwise(s, R)
             /\ \A h : (\E k \in DOMAIN s : s[k] = h)
                         <=> (\E k \in DOMAIN queue : k <= n /\ queue[k] = h) /\ h # e
           Good == {n \in Nat : n <= Len(queue) => Holds(kept[n], n)}
<1>1. Len(queue) \in Nat /\ DOMAIN queue = 1 .. Len(queue) /\ \A k \in DOMAIN queue : queue[k] \in Nat
  OBVIOUS
<1>2. /\ kept[0] = <<>>
      /\ \A n \in 1 .. Len(queue) :
           kept[n] = IF queue[n] = e THEN kept[n - 1] ELSE Append(kept[n - 1], queue[n])
  <2>1. Keeps(kept, queue, e)
    BY KeepingExists
  <2> HIDE DEF kept
  <2>2. PICK m \in Nat : m = Len(queue)
    BY <1>1
  <2>3. kept = [n \in 0 .. m |-> IF n = 0 THEN <<>>
                  ELSE IF queue[n] = e THEN kept[n - 1] ELSE Append(kept[n - 1], queue[n])]
    BY <2>1, <2>2 DEF Keeps
  <2>4. 0 \in 0 .. m /\ \A n \in 1 .. m : n \in 0 .. m /\ n # 0
    OBVIOUS
  <2>5. kept[0] = <<>>
    BY <2>3, <2>4
  <2>6. \A n \in 1 .. m :
          kept[n] = IF queue[n] = e THEN kept[n - 1] ELSE Append(kept[n - 1], queue[n])
    BY <2>3, <2>4
  <2> QED BY <2>2, <2>5, <2>6
<1> HIDE DEF kept
<1>3. 0 \in Good
  <2>1. <<>> \in Seq(Nat) /\ DOMAIN <<>> = {} /\ Pairwise(<<>>, R)
    BY DEF Pairwise
  <2>2. \A k \in DOMAIN queue : ~(k <= 0)
    BY <1>1
  <2>3. Holds(<<>>, 0)
    BY <2>1, <2>2
  <2> QED BY <1>2, <2>3
<1>4. ASSUME NEW n \in Nat, n \in Good PROVE n + 1 \in Good
  <2>1. SUFFICES ASSUME n + 1 <= Len(queue) PROVE Holds(kept[n + 1], n + 1)
    OBVIOUS
  <2>2. Holds(kept[n], n) /\ n + 1 \in DOMAIN queue /\ (n + 1) - 1 = n
    BY <1>1, <1>4, <2>1
  <2>3. kept[n + 1] = IF queue[n + 1] = e THEN kept[n] ELSE Append(kept[n], queue[n + 1])
    BY <1>1, <1>2, <2>2
  <2>4. \A k \in DOMAIN queue : k <= n + 1 <=> k <= n \/ k = n + 1
    BY <1>1
  <2>5. CASE queue[n + 1] = e
    BY <2>2, <2>3, <2>4, <2>5
  <2>6. CASE queue[n + 1] # e
    <3>1. /\ kept[n] \in Seq(Nat) /\ Pairwise(kept[n], R) /\ queue[n + 1] \in Nat
      BY <1>1, <2>2
    <3>2. \A i \in DOMAIN kept[n] : <<kept[n][i], queue[n + 1]>> \in R
      <4>1. ASSUME NEW i \in DOMAIN kept[n] PROVE <<kept[n][i], queue[n + 1]>> \in R
        <5>1. PICK k \in DOMAIN queue : k <= n /\ queue[k] = kept[n][i]
          BY <2>2
        <5>2. k < n + 1
          BY <1>1, <5>1
        <5> QED BY <2>2, <5>1, <5>2 DEF Pairwise
      <4> QED BY <4>1
    <3> DEFINE new == Append(kept[n], queue[n + 1])
    <3>3. /\ new \in Seq(Nat) /\ Pairwise(new, R)
          /\ \A h : (\E i \in DOMAIN new : new[i] = h)
                      <=> (\E i \in DOMAIN kept[n] : kept[n][i] = h) \/ h = queue[n + 1]
      BY <3>1, <3>2, AppendedInOrder
    <3>4. kept[n + 1] = new
      BY <2>3, <2>6
    <3> HIDE DEF new
    <3>5. ASSUME NEW h
          PROVE  (\E k \in DOMAIN new : new[k] = h)
                   <=> (\E k \in DOMAIN queue : k <= n + 1 /\ queue[k] = h) /\ h # e
      BY <2>2, <2>4, <2>6, <3>3
    <3> QED BY <3>3, <3>4, <3>5
  <2> QED BY <2>5, <2>6
<1>5. Nat \subseteq Good
  <2> HIDE DEF Good
  <2> QED BY <1>3, <1>4, CountingUp
<1>6. Holds(kept[Len(queue)], Len(queue))
  <2>1. PICK m \in Nat : m = Len(queue)
    BY <1>1
  <2>2. m \in Good
    <3> HIDE DEF Good
    <3> QED BY <1>5
  <2>3. m <= Len(queue) => Holds(kept[m], m)
    BY <2>2
  <2>4. m <= m
    OBVIOUS
  <2> HIDE DEF Holds, Good
  <2> QED BY <2>1, <2>3, <2>4
<1>7. Without(queue, e) = kept[Len(queue)]
  BY WithoutIsKeeping DEF kept
<1>8. \A k \in DOMAIN queue : k <= Len(queue)
  BY <1>1
<1> QED BY <1>6, <1>7, <1>8

LEMMA WithoutKeeps ==
  ASSUME NEW queue \in Seq(Nat), Ascending(queue), NEW e
  PROVE  LET left == Without(queue, e) IN
         /\ left \in Seq(Nat) /\ Ascending(left)
         /\ \A h : (\E k \in DOMAIN left : left[k] = h)
                     <=> (\E k \in DOMAIN queue : queue[k] = h) /\ h # e
<1> DEFINE R == {r \in Nat \X Nat : r[1] < r[2]}
           left == Without(queue, e)
<1>1. ASSUME NEW q \in Seq(Nat) PROVE Ascending(q) <=> Pairwise(q, R)
  <2>1. \A i \in DOMAIN q : q[i] \in Nat
    OBVIOUS
  <2> QED BY <2>1 DEF Ascending, Pairwise
<1>2. Pairwise(queue, R)
  BY <1>1
<1> HIDE DEF R
<1>3. /\ left \in Seq(Nat) /\ Pairwise(left, R)
      /\ \A h : (\E k \in DOMAIN left : left[k] = h)
                  <=> (\E k \in DOMAIN queue : queue[k] = h) /\ h # e
  BY <1>2, WithoutKeepsOrder
<1> HIDE DEF left
<1> QED BY <1>1, <1>3 DEF left

(* remove_order of an order that is not the only one of its level. *)
THEOREM RemoveOrderKeepsTidy ==
  ASSUME NEW list, NEW buys, NEW sells, Tidy(list, buys, sells), NEW x \in buys \cup sells,
         NEW hash, Len(list[x].orders) > 1, NEW sell \in Int, NEW buy \in Int,
         \A p : Queued(list, p, hash) => p = x
  PROVE  LET new == RemoveOrder(list, x, hash, sell, buy) IN
         /\ Tidy(new, buys, sells)
         /\ \A p, h : Queued(new, p, h) <=> Queued(list, p, h) /\ h # hash
         /\ DOMAIN new = DOMAIN list /\ \A p \in DOMAIN list \ {x} : new[p] = list[p]
<1> DEFINE item == list[x]
           queue == Without(item.orders, hash)
           new == RemoveOrder(list, x, hash, sell, buy)
           left == [item EXCEPT !.orders     = Without(@, hash),
                                !.buyAmount  = SubWrap(@, buy),
                                !.sellAmount = SubWrap(@, sell)]
<1>0. /\ x \in DOMAIN list /\ item \in Items /\ item.price = x
      /\ item.orders \in Seq(Nat) /\ item.orders # <<>> /\ Ascending(item.orders)
      /\ item.buyAmount \in Int /\ item.sellAmount \in Int
  BY ItemTypes
<1>1. SubWrap(item.buyAmount, buy) \in Int /\ SubWrap(item.sellAmount, sell) \in Int
  BY <1>0, WrapsToInt
<1>2. /\ queue \in Seq(Nat) /\ Ascending(queue)
      /\ \A h : (\E k \in DOMAIN queue : queue[k] = h)
                  <=> (\E k \in DOMAIN item.orders : item.orders[k] = h) /\ h # hash
  BY <1>0, WithoutKeeps
<1>3. queue # <<>>
  <2> DEFINE old == item.orders
  <2>1. 1 \in DOMAIN old /\ 2 \in DOMAIN old /\ old[1] \in Nat /\ old[2] \in Nat
    BY <1>0
  <2>2. old[1] # old[2]
    BY <1>0, <2>1 DEF Ascending
  <2>3. \E k \in DOMAIN old : old[k] # hash
    BY <2>1, <2>2
  <2>4. \E k \in DOMAIN queue : TRUE
    <3> HIDE DEF old, queue
    <3> QED BY <1>2, <2>3 DEF old
  <2>5. DOMAIN <<>> = {}
    OBVIOUS
  <2> HIDE DEF queue
  <2> QED BY <2>4, <2>5
<1>4. left = Counted(item, SubWrap(item.buyAmount, buy), SubWrap(item.sellAmount, sell), queue)
  <2> HIDE DEF item
  <2> QED BY <1>0 DEF Counted, Items
<1> HIDE DEF queue, left
<1>5. /\ left \in Items /\ left.price = item.price
      /\ left.next = item.next /\ left.prev = item.prev /\ left.orders = queue
  BY <1>0, <1>1, <1>2, <1>4, CountedItem
<1>6. new = Put(list, x, left)
  <2>1. new = Put(IF left.orders = <<>> THEN RemoveItem(list, x) ELSE list, x, left)
    BY <1>0 DEF RemoveOrder, left
  <2> QED BY <1>3, <1>5, <2>1
<1> HIDE DEF new, item
<1>7. Requeued(list, new, x, queue)
  BY <1>0, <1>5, <1>6 DEF Requeued, Put, item
<1>8. Tidy(new, buys, sells)
  BY <1>2, <1>3, <1>7, RequeuedTidy
<1>9. ASSUME NEW p, NEW h PROVE Queued(new, p, h) <=> Queued(list, p, h) /\ h # hash
  <2>1. CASE p = x
    BY <1>0, <1>2, <1>7, <2>1 DEF Requeued, Queued, item
  <2>2. CASE p # x
    <3>1. Queued(list, p, h) => h # hash
      BY <2>2
    <3> QED BY <1>7, <2>2, <3>1 DEF Requeued, Queued
  <2> QED BY <2>1, <2>2
<1> QED BY <1>7, <1>8, <1>9 DEF new, Requeued
==========================================================================
