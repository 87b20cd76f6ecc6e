------------------------- MODULE ExchangeProofs -------------------------
(***************************************************************************)
(* That calculate_ex_amount fills one of two orders, overdraws neither,    *)
(* stays within a unit of the maker's price, and leaves both orders able to*)
(* pay for what they still ask for: for every width, price factor, price   *)
(* and amount whose products do not wrap.                                  *)
(*                                                                         *)
(* The letters of the arithmetic lemmas: the buyer asks for x of the quote *)
(* token and offers y of the base token, the seller asks for u of the base *)
(* token and offers v of the quote token, p is the price of the maker and f*)
(* the price factor.  Both orders offer their price or a better one for the*)
(* other, so that x*p <= y*f and u*f <= v*p.                               *)
(***************************************************************************)
EXTENDS Exchange, TLAPS

-----------------------------------------------------------------------------
(* Arithmetic *)

LEMMA Cancel ==
  ASSUME NEW a \in Int, NEW b \in Int, NEW d \in Nat \ {0}
  PROVE  /\ a * d < b * d <=> a < b
         /\ a * d <= b * d <=> a <= b
OBVIOUS

LEMMA Monotone ==
  ASSUME NEW a \in Nat, NEW b \in Nat, NEW c \in Nat, a <= b
  PROVE  c * a <= c * b /\ a * c <= b * c
OBVIOUS

LEMMA Division ==
  ASSUME NEW a \in Nat, NEW d \in Nat \ {0}
  PROVE  /\ a \div d \in Nat
         /\ (a \div d) * d <= a
         /\ a < (a \div d) * d + d
OBVIOUS

LEMMA Product ==
  ASSUME NEW a \in Nat, NEW b \in Nat
  PROVE  a * b \in Nat
OBVIOUS

LEMMA DivisionBack ==
  ASSUME NEW a \in Nat, NEW d \in Nat \ {0}, NEW c \in Nat, NEW e \in Nat \ {0},
         a <= c * e
  PROVE  /\ a \div e <= c
         /\ a \div e # c => a < c * e
<1>1. a \div e \in Nat /\ (a \div e) * e <= a /\ a < (a \div e) * e + e
  BY Division
<1>2. (a \div e) * e <= c * e
  <2>1. (a \div e) * e \in Nat /\ c * e \in Nat  BY <1>1, Product
  <2> QED  BY <1>1, <2>1
<1>3. a \div e <= c
  BY <1>1, <1>2, Cancel
<1>4. ASSUME a \div e # c  PROVE a < c * e
  <2>1. a \div e + 1 <= c  BY <1>1, <1>3, <1>4
  <2>2. (a \div e + 1) * e <= c * e  BY <1>1, <2>1, Monotone
  <2>3. (a \div e + 1) * e = (a \div e) * e + e  BY <1>1
  <2>4. (a \div e) * e \in Nat /\ c * e \in Nat  BY <1>1, Product
  <2> QED  BY <1>1, <2>2, <2>3, <2>4
<1> QED  BY <1>3, <1>4

(* One side is given in full: g of its token, for as many whole units h of *)
(* the other token as g is worth, and one more when that is not exact.  The*)
(* lemma is used for both sides, with price and price factor exchanged.    *)
LEMMA Rounding ==
  ASSUME NEW g \in Nat, NEW up \in Nat \ {0}, NEW down \in Nat \ {0},
         NEW rest \in Nat, NEW funds \in Nat,
         g * up <= funds * down,
         (g * up) \div down <= rest
  PROVE  LET h == (g * up) \div down
             fraction == (h * down) \div up # g /\ rest > h
             given == IF fraction THEN h + 1 ELSE h
         IN /\ h \in Nat /\ given \in Nat
            /\ h * down <= g * up
            /\ h <= funds
            /\ given <= rest /\ given <= funds
            /\ rest > given => g * up <= given * down
            /\ given * down - g * up <= down
            /\ g * up - given * down <= down
            /\ g > 0 /\ rest > 0 => given > 0
<1> DEFINE h == (g * up) \div down
           fraction == (h * down) \div up # g /\ rest > h
           given == IF fraction THEN h + 1 ELSE h
<1>1. g * up \in Nat /\ funds * down \in Nat  BY Product
<1>2. h \in Nat /\ h * down <= g * up /\ g * up < h * down + down
  BY <1>1, Division
<1>3. h * down \in Nat  BY <1>2, Product
<1>4. h <= funds
  <2>1. h * down <= funds * down  BY <1>1, <1>2, <1>3
  <2> QED  BY <1>2, <2>1, Cancel
<1>5. (h * down) \div up # g => h * down < g * up
  BY <1>2, <1>3, DivisionBack
<1>6. (h + 1) * down = h * down + down  BY <1>2
<1>7. CASE fraction
  <2>1. given = h + 1  BY <1>7
  <2>2. h * down < g * up  BY <1>5, <1>7
  <2>3. h < funds
    <3>1. h * down < funds * down  BY <1>1, <1>3, <2>2
    <3> QED  BY <1>2, <3>1, Cancel
  <2>4. given * down = h * down + down  BY <1>6, <2>1
  <2> HIDE DEF h, given
  <2> QED  BY <1>1, <1>2, <1>3, <1>4, <1>7, <2>1, <2>2, <2>3, <2>4
<1>8. CASE ~fraction
  <2>1. given = h  BY <1>8
  <2>2. rest > h => g * up <= h * down
    <3>1. SUFFICES ASSUME rest > h  PROVE g * up <= h * down
      OBVIOUS
    <3>2. (h * down) \div up = g  BY <1>8, <3>1
    <3>3. g * up <= h * down  BY <1>3, <3>2, Division
    <3> QED  BY <3>3
  <2> HIDE DEF h, given
  <2> QED  BY <1>1, <1>2, <1>3, <1>4, <2>1, <2>2
<1>9. g > 0 /\ rest > 0 => given > 0
  <2>1. (0 * down) \div up = 0
    OBVIOUS
  <2>2. CASE h = 0 /\ g > 0 /\ rest > 0
    <3>1. fraction
      BY <2>1, <2>2
    <3> HIDE DEF fraction, h
    <3> QED  BY <2>2, <3>1
  <2>3. CASE h # 0
    <3> HIDE DEF fraction, h
    <3> QED  BY <1>2, <2>3
  <2> QED  BY <2>2, <2>3
<1> QED  BY <1>7, <1>8, <1>9

LEMMA NoWrap ==
  ASSUME NEW a \in Nat, NEW b \in Nat
  PROVE  /\ a * b <= MaxAmount => MulWrap(a, b) = a * b
         /\ a + b <= MaxAmount => AddWrap(a, b) = a + b
BY MathAssumption DEF MulWrap, AddWrap

-----------------------------------------------------------------------------
(* One exchange *)

OrderRecords ==
  [otype : OrderTypes, price : 1 .. MaxAmount,
   sellAmount : 0 .. MaxAmount, buyAmount : 0 .. MaxAmount,
   remainedSell : 0 .. MaxAmount, remainedBuy : 0 .. MaxAmount,
   status : {"Created", "PartialFilled", "Filled", "Canceled"}]

BaseAmount(o) == IF o.otype = "Buy" THEN o.sellAmount ELSE o.buyAmount

(* What is true of every order that is placed, and stays true when it      *)
(* trades.                                                                 *)
Sound(o) ==
  /\ o \in OrderRecords
  /\ o.remainedSell <= o.sellAmount
  /\ o.remainedBuy <= o.buyAmount
  /\ BaseAmount(o) * PriceFactor <= MaxAmount
  /\ OffersItsPrice(o)

(* A buyer and a seller that trade at a price both accept. *)
Trading(b, s, p) ==
  /\ Sound(b) /\ b.otype = "Buy"
  /\ Sound(s) /\ s.otype = "Sell"
  /\ p \in Nat \ {0} /\ s.price <= p /\ p <= b.price

(* The common ground of the lemmas below: at the price of the trade, too,  *)
(* both orders can pay for what they ask for, and no product wraps.        *)
LEMMA BothOffer ==
  ASSUME NEW b, NEW s, NEW p, Trading(b, s, p)
  PROVE  /\ {b.remainedBuy, b.remainedSell, s.remainedBuy, s.remainedSell} \subseteq Nat
         /\ b.remainedBuy * p <= b.remainedSell * PriceFactor
         /\ s.remainedBuy * PriceFactor <= s.remainedSell * p
         /\ b.remainedSell * PriceFactor <= MaxAmount
         /\ s.remainedBuy * PriceFactor <= MaxAmount
<1> USE MathAssumption DEF Trading, Sound
<1>1. /\ b.price \in Nat /\ s.price \in Nat /\ PriceFactor \in Nat
      /\ {b.remainedBuy, b.remainedSell, s.remainedBuy, s.remainedSell} \subseteq Nat
      /\ {b.sellAmount, s.buyAmount} \subseteq Nat
  BY DEF OrderRecords
<1>2. b.remainedBuy * p <= b.remainedSell * PriceFactor
  <2>1. b.remainedBuy * p <= b.remainedBuy * b.price  BY <1>1, Monotone
  <2>2. b.remainedBuy * b.price <= b.remainedSell * PriceFactor  BY DEF OffersItsPrice
  <2>3. {b.remainedBuy * p, b.remainedBuy * b.price, b.remainedSell * PriceFactor} \subseteq Nat
    BY <1>1, Product
  <2> QED  BY <2>1, <2>2, <2>3
<1>3. s.remainedBuy * PriceFactor <= s.remainedSell * p
  <2>1. s.remainedSell * s.price <= s.remainedSell * p  BY <1>1, Monotone
  <2>2. s.remainedBuy * PriceFactor <= s.remainedSell * s.price  BY DEF OffersItsPrice
  <2>3. {s.remainedSell * p, s.remainedSell * s.price, s.remainedBuy * PriceFactor} \subseteq Nat
    BY <1>1, Product
  <2> QED  BY <2>1, <2>2, <2>3
<1>4. /\ b.remainedSell * PriceFactor <= b.sellAmount * PriceFactor
      /\ s.remainedBuy * PriceFactor <= s.buyAmount * PriceFactor
  BY <1>1, Monotone
<1>5. {b.remainedSell * PriceFactor, b.sellAmount * PriceFactor,
       s.remainedBuy * PriceFactor, s.buyAmount * PriceFactor} \subseteq Nat
  BY <1>1, Product
<1>6. /\ b.sellAmount * PriceFactor <= MaxAmount
      /\ s.buyAmount * PriceFactor <= MaxAmount
  BY DEF BaseAmount
<1> QED  BY <1>1, <1>2, <1>3, <1>4, <1>5, <1>6

(* The amounts calculate_ex_amount starts from, computed in u128. *)
LEMMA Unwrapped ==
  ASSUME NEW b, NEW s, NEW p, Trading(b, s, p)
  PROVE  /\ ExQuote(s.remainedBuy, p) = (s.remainedBuy * PriceFactor) \div p
         /\ ExBase(b.remainedBuy, p) = (b.remainedBuy * p) \div PriceFactor
<1>1. s.remainedBuy * PriceFactor \in Nat /\ b.remainedBuy * p \in Nat
         /\ b.remainedSell * PriceFactor \in Nat
  BY BothOffer, Product, MathAssumption DEF Trading
<1>2. b.remainedBuy * p <= MaxAmount
  BY <1>1, BothOffer, MathAssumption
<1>3. /\ MulWrap(s.remainedBuy, PriceFactor) = s.remainedBuy * PriceFactor
      /\ MulWrap(b.remainedBuy, p) = b.remainedBuy * p
  BY <1>2, BothOffer, NoWrap, MathAssumption DEF Trading
<1> QED  BY <1>3 DEF ExQuote, ExBase

(* The two comparisons of calculate_ex_amount.  (The second one never holds*)
(* of a seller that asks for more than the buyer offers.)                  *)
LEMMA WhichIsFilled ==
  ASSUME NEW b, NEW s, NEW p, Trading(b, s, p)
  PROVE  /\ SellerFilled(b, s, p) =>
              /\ s.remainedBuy <= b.remainedSell
              /\ (s.remainedBuy * PriceFactor) \div p <= b.remainedBuy
         /\ ~SellerFilled(b, s, p) =>
              /\ (b.remainedBuy * p) \div PriceFactor <= s.remainedBuy
              /\ b.remainedBuy <= s.remainedSell
<1> DEFINE x == b.remainedBuy
           y == b.remainedSell
           u == s.remainedBuy
           v == s.remainedSell
           f == PriceFactor
<1>1. /\ x \in Nat /\ y \in Nat /\ u \in Nat /\ v \in Nat
      /\ p \in Nat \ {0} /\ f \in Nat \ {0}
      /\ x * p <= y * f /\ u * f <= v * p
  BY BothOffer, MathAssumption DEF Trading
<1>2. SellerFilled(b, s, p) <=> IF u <= y THEN x >= (u * f) \div p ELSE u < (x * p) \div f
  BY Unwrapped DEF SellerFilled
<1> HIDE DEF x, y, u, v, f
<1>3. x * p \in Nat /\ y * f \in Nat /\ u * f \in Nat /\ v * p \in Nat
  BY <1>1, Product
<1>4. (x * p) \div f <= y
  BY <1>1, <1>3, DivisionBack
<1>5. (x * p) \div f \in Nat /\ (u * f) \div p \in Nat
  BY <1>1, <1>3, Division
<1>6. ASSUME SellerFilled(b, s, p)
      PROVE  u <= y /\ (u * f) \div p <= x
  BY <1>1, <1>2, <1>4, <1>5, <1>6
<1>7. ASSUME x * p <= u * f
      PROVE  (x * p) \div f <= u /\ x <= v
  <2>1. (x * p) \div f <= u  BY <1>1, <1>3, <1>7, DivisionBack
  <2>2. x * p <= v * p  BY <1>1, <1>3, <1>7
  <2> QED  BY <1>1, <2>1, <2>2, Cancel
<1>8. ASSUME ~SellerFilled(b, s, p)
      PROVE  x * p <= u * f
  <2>1. CASE u <= y
    <3>1. x <= (u * f) \div p  BY <1>1, <1>2, <1>5, <1>8, <2>1
    <3>2. x * p <= ((u * f) \div p) * p  BY <1>1, <1>5, <3>1, Monotone
    <3>3. ((u * f) \div p) * p \in Nat  BY <1>1, <1>5, Product
    <3> QED  BY <1>1, <1>3, <3>2, <3>3, Division
  <2>2. CASE y < u
    <3>1. y * f <= u * f  BY <1>1, <2>2, Monotone
    <3> QED  BY <1>1, <1>3, <3>1
  <2> QED  BY <1>1, <2>1, <2>2
<1> QED  BY <1>6, <1>7, <1>8 DEF x, y, u, v, f

(* What an exchange of two orders must be. *)
Settles(b, s, p, ex) ==
  /\ ex.base \in Nat /\ ex.quote \in Nat
  /\ ex.base <= b.remainedSell /\ ex.quote <= b.remainedBuy
  /\ ex.quote <= s.remainedSell /\ ex.base <= s.remainedBuy
  /\ ex.base = s.remainedBuy \/ ex.quote = b.remainedBuy
  /\ b.remainedBuy > ex.quote => ex.base * PriceFactor <= ex.quote * p
  /\ s.remainedBuy > ex.base => ex.quote * p <= ex.base * PriceFactor
  /\ \E unit \in {p, PriceFactor} :
       /\ ex.quote * p - ex.base * PriceFactor <= unit
       /\ ex.base * PriceFactor - ex.quote * p <= unit
  /\ b.remainedBuy > 0 /\ s.remainedBuy > 0 => ex.base > 0 /\ ex.quote > 0

LEMMA SellerIsFilled ==
  ASSUME NEW b, NEW s, NEW p, Trading(b, s, p), SellerFilled(b, s, p)
  PROVE  Settles(b, s, p, FillSeller(b, s, p))
<1> DEFINE x == b.remainedBuy
           y == b.remainedSell
           u == s.remainedBuy
           v == s.remainedSell
           f == PriceFactor
           h == (u * f) \div p
           fraction == (h * p) \div f # u /\ x > h
           given == IF fraction THEN h + 1 ELSE h
<1>1. /\ x \in Nat /\ y \in Nat /\ u \in Nat /\ v \in Nat /\ v <= MaxAmount
      /\ p \in Nat \ {0} /\ f \in Nat \ {0} /\ MaxAmount \in Nat
      /\ u * f <= v * p /\ u * f <= MaxAmount
      /\ u <= y /\ h <= x
  BY BothOffer, WhichIsFilled, MathAssumption DEF Trading, Sound, OrderRecords
<1>2. /\ h \in Nat /\ given \in Nat
      /\ h * p <= u * f
      /\ given <= x /\ given <= v
      /\ x > given => u * f <= given * p
      /\ given * p - u * f <= p /\ u * f - given * p <= p
      /\ u > 0 /\ x > 0 => given > 0
  BY <1>1, Rounding
<1>3. FillSeller(b, s, p) = [base |-> u, quote |-> given]
  <2>1. h * p \in Nat /\ u * f \in Nat  BY <1>1, <1>2, Product
  <2>2. h * p <= MaxAmount  BY <1>1, <1>2, <2>1
  <2>3. ExQuote(u, p) = h  BY Unwrapped
  <2>4. ExBase(h, p) = (h * p) \div f
    BY <1>1, <1>2, <2>2, NoWrap DEF ExBase
  <2>5. fraction => AddWrap(h, 1) = h + 1
    BY <1>1, <1>2, NoWrap
  <2> QED  BY <2>3, <2>4, <2>5 DEF FillSeller
<1> HIDE DEF given
<1> QED  BY <1>1, <1>2, <1>3 DEF Settles

LEMMA BuyerIsFilled ==
  ASSUME NEW b, NEW s, NEW p, Trading(b, s, p), ~SellerFilled(b, s, p)
  PROVE  Settles(b, s, p, FillBuyer(b, s, p))
<1> DEFINE x == b.remainedBuy
           y == b.remainedSell
           u == s.remainedBuy
           v == s.remainedSell
           f == PriceFactor
           h == (x * p) \div f
           fraction == (h * f) \div p # x /\ u > h
           given == IF fraction THEN h + 1 ELSE h
<1>1. /\ x \in Nat /\ y \in Nat /\ u \in Nat /\ v \in Nat /\ y <= MaxAmount
      /\ p \in Nat \ {0} /\ f \in Nat \ {0} /\ MaxAmount \in Nat
      /\ x * p <= y * f /\ y * f <= MaxAmount
      /\ x <= v /\ h <= u
  BY BothOffer, WhichIsFilled, MathAssumption DEF Trading, Sound, OrderRecords
<1>2. /\ h \in Nat /\ given \in Nat
      /\ h * f <= x * p
      /\ given <= u /\ given <= y
      /\ u > given => x * p <= given * f
      /\ given * f - x * p <= f /\ x * p - given * f <= f
      /\ x > 0 /\ u > 0 => given > 0
  BY <1>1, Rounding
<1>3. FillBuyer(b, s, p) = [base |-> given, quote |-> x]
  <2>1. h * f \in Nat /\ x * p \in Nat /\ y * f \in Nat  BY <1>1, <1>2, Product
  <2>2. h * f <= MaxAmount  BY <1>1, <1>2, <2>1
  <2>3. ExBase(x, p) = h  BY Unwrapped
  <2>4. ExQuote(h, p) = (h * f) \div p
    BY <1>1, <1>2, <2>2, NoWrap DEF ExQuote
  <2>5. fraction => AddWrap(h, 1) = h + 1
    BY <1>1, <1>2, NoWrap
  <2> QED  BY <2>3, <2>4, <2>5 DEF FillBuyer
<1> HIDE DEF given
<1> QED  BY <1>1, <1>2, <1>3 DEF Settles

(* An order that gives and has amounts within its rest, at its own price   *)
(* or a better one unless it is filled.                                    *)
AtItsPrice(o, give, have) ==
  IF o.otype = "Buy" THEN give * PriceFactor <= have * o.price
                     ELSE give * o.price <= have * PriceFactor

Suits(o, give, have) ==
  /\ give \in Nat /\ have \in Nat
  /\ give <= o.remainedSell /\ have <= o.remainedBuy
  /\ o.remainedBuy > have => AtItsPrice(o, give, have)

LEMMA SoundAfterTrade ==
  ASSUME NEW o, Sound(o), NEW give, NEW have, Suits(o, give, have)
  PROVE  /\ Sound(AfterTrade(o, give, have))
         /\ AfterTrade(o, give, have).otype = o.otype
         /\ AfterTrade(o, give, have).price = o.price
         /\ o.remainedBuy = have => AfterTrade(o, give, have).status = "Filled"
<1> USE DEF Suits, AtItsPrice
<1> DEFINE n == AfterTrade(o, give, have)
<1>1. /\ o \in OrderRecords /\ MaxAmount \in Nat /\ PriceFactor \in Nat \ {0}
      /\ o.otype \in OrderTypes /\ o.price \in Nat
      /\ o.remainedSell \in Nat /\ o.remainedBuy \in Nat
  BY MathAssumption DEF Sound, OrderRecords
<1>2. n = [o EXCEPT !.remainedSell = n.remainedSell,
                    !.remainedBuy = n.remainedBuy, !.status = n.status]
  BY <1>1 DEF AfterTrade, OrderRecords
<1>3. /\ n.remainedBuy = o.remainedBuy - have
      /\ n.remainedSell = IF o.remainedBuy = have THEN 0 ELSE o.remainedSell - give
      /\ o.remainedBuy = have => n.status = "Filled"
      /\ n.status \in {"Created", "PartialFilled", "Filled", "Canceled"}
      /\ n.otype = o.otype /\ n.price = o.price
      /\ n.sellAmount = o.sellAmount /\ n.buyAmount = o.buyAmount
  BY <1>1 DEF AfterTrade, OrderRecords
<1> HIDE DEF n
<1>4. n \in OrderRecords
  <2>1. n.remainedBuy \in 0 .. MaxAmount
    BY <1>1, <1>3 DEF OrderRecords
  <2>2. n.remainedSell \in 0 .. MaxAmount
    BY <1>1, <1>3 DEF OrderRecords
  <2> QED  BY <1>1, <1>2, <1>3, <2>1, <2>2 DEF OrderRecords
<1>5. OffersItsPrice(n)
  <2>1. CASE o.remainedBuy = have
    BY <1>1, <1>3, <2>1 DEF OffersItsPrice
  <2>2. CASE o.remainedBuy > have /\ o.otype = "Buy"
    <3>1. (o.remainedBuy - have) * o.price = o.remainedBuy * o.price - have * o.price
      BY <1>1
    <3>2. (o.remainedSell - give) * PriceFactor = o.remainedSell * PriceFactor - give * PriceFactor
      BY <1>1
    <3>3. {o.remainedBuy * o.price, have * o.price, o.remainedSell * PriceFactor,
           give * PriceFactor} \subseteq Nat
      BY <1>1, Product
    <3> QED  BY <1>1, <1>3, <2>2, <3>1, <3>2, <3>3 DEF OffersItsPrice, Sound
  <2>3. CASE o.remainedBuy > have /\ o.otype = "Sell"
    <3>1. (o.remainedBuy - have) * PriceFactor = o.remainedBuy * PriceFactor - have * PriceFactor
      BY <1>1
    <3>2. (o.remainedSell - give) * o.price = o.remainedSell * o.price - give * o.price
      BY <1>1
    <3>3. {o.remainedBuy * PriceFactor, have * PriceFactor, o.remainedSell * o.price,
           give * o.price} \subseteq Nat
      BY <1>1, Product
    <3> QED  BY <1>1, <1>3, <2>3, <3>1, <3>2, <3>3 DEF OffersItsPrice, Sound
  <2> QED  BY <1>1, <2>1, <2>2, <2>3 DEF OrderTypes
<1>6. /\ n.remainedSell <= n.sellAmount /\ n.remainedBuy <= n.buyAmount
      /\ BaseAmount(n) * PriceFactor <= MaxAmount
  <2>1. o.sellAmount \in Nat /\ o.buyAmount \in Nat
    BY <1>1 DEF OrderRecords
  <2>2. /\ o.remainedSell <= o.sellAmount /\ o.remainedBuy <= o.buyAmount
        /\ BaseAmount(o) * PriceFactor <= MaxAmount
    BY DEF Sound
  <2>3. BaseAmount(n) = BaseAmount(o)
    BY <1>3 DEF BaseAmount
  <2>4. n.remainedSell <= n.sellAmount /\ n.remainedBuy <= n.buyAmount
    BY <1>1, <1>3, <2>1, <2>2
  <2> QED  BY <2>2, <2>3, <2>4
<1> QED  BY <1>3, <1>4, <1>5, <1>6 DEF Sound, n

-----------------------------------------------------------------------------
(* A taker and a maker *)

BothSound(t, m) ==
  /\ Sound(t) /\ Sound(m)
  /\ m.otype = Opposite(t.otype)
  /\ Matched(t, m)

OneAtMakersPrice(m, ex) ==
  LET priced == ex.quote * m.price
      paid   == ex.base * PriceFactor
      margin == IF m.price > PriceFactor THEN m.price ELSE PriceFactor
  IN priced - paid <= margin /\ paid - priced <= margin

(* What order_match takes from two orders suits both of them. *)
LEMMA TradeSuits ==
  ASSUME NEW t, NEW m, BothSound(t, m)
  PROVE  LET ex == CalculateExAmount(m, t)
         IN /\ Suits(t, Give(t, ex), Have(t, ex)) /\ Suits(m, Have(t, ex), Give(t, ex))
            /\ t.remainedBuy = Have(t, ex) \/ m.remainedBuy = Give(t, ex)
            /\ t.remainedBuy > 0 /\ m.remainedBuy > 0 => ex.base > 0 /\ ex.quote > 0
            /\ OneAtMakersPrice(m, ex)
<1> DEFINE ex == CalculateExAmount(m, t)
           b == IF t.otype = "Buy" THEN t ELSE m
           s == IF t.otype = "Buy" THEN m ELSE t
           p == m.price
<1>1. /\ PriceFactor \in Nat \ {0} /\ t.otype \in OrderTypes /\ m.otype \in OrderTypes
      /\ m.price \in Nat \ {0} /\ t.price \in Nat \ {0}
  BY MathAssumption DEF BothSound, Sound, OrderRecords
<1>2. Trading(b, s, p)
  BY <1>1 DEF BothSound, Trading, Matched, PriceMatched, Opposite, OrderTypes
<1>3. Settles(b, s, p, ex)
  <2>1. ex = IF SellerFilled(b, s, p) THEN FillSeller(b, s, p) ELSE FillBuyer(b, s, p)
    BY DEF CalculateExAmount
  <2> HIDE DEF ex, b, s, p
  <2> QED  BY <1>2, <2>1, SellerIsFilled, BuyerIsFilled
<1> HIDE DEF ex
<1>4. /\ b.remainedBuy \in Nat /\ s.remainedBuy \in Nat
      /\ b.price \in Nat /\ s.price \in Nat /\ s.price <= p /\ p <= b.price
      /\ ex.base \in Nat /\ ex.quote \in Nat
  BY <1>2, <1>3, BothOffer, MathAssumption DEF Trading, Sound, OrderRecords, Settles
<1>5. {ex.quote * b.price, ex.quote * s.price, ex.quote * p, ex.base * PriceFactor} \subseteq Nat
  BY <1>1, <1>4, Product
(* the buyer pays no more than its price, and the seller gets no less *)
<1>6. b.remainedBuy > ex.quote => ex.base * PriceFactor <= ex.quote * b.price
  <2>1. ex.quote * p <= ex.quote * b.price  BY <1>1, <1>4, Monotone
  <2> HIDE DEF b, s, p
  <2> QED  BY <1>3, <1>5, <2>1 DEF Settles
<1>7. s.remainedBuy > ex.base => ex.quote * s.price <= ex.base * PriceFactor
  <2>1. ex.quote * s.price <= ex.quote * p  BY <1>1, <1>4, Monotone
  <2> HIDE DEF b, s, p
  <2> QED  BY <1>3, <1>5, <2>1 DEF Settles
<1>8. /\ Suits(b, ex.base, ex.quote) /\ Suits(s, ex.quote, ex.base)
      /\ s.remainedBuy = ex.base \/ b.remainedBuy = ex.quote
      /\ b.remainedBuy > 0 /\ s.remainedBuy > 0 => ex.base > 0 /\ ex.quote > 0
  <2>1. b.otype = "Buy" /\ s.otype = "Sell"
    BY <1>2 DEF Trading
  <2> HIDE DEF b, s, p
  <2> QED  BY <1>3, <1>6, <1>7, <2>1 DEF Settles, Suits, AtItsPrice
<1>9. OneAtMakersPrice(m, ex)
  <2>1. PICK unit \in {p, PriceFactor} :
               /\ ex.quote * p - ex.base * PriceFactor <= unit
               /\ ex.base * PriceFactor - ex.quote * p <= unit
    BY <1>3 DEF Settles
  <2> QED  BY <1>1, <1>5, <2>1 DEF OneAtMakersPrice
<1>10. IF t.otype = "Buy" THEN Give(t, ex) = ex.base /\ Have(t, ex) = ex.quote /\ b = t /\ s = m
                          ELSE Give(t, ex) = ex.quote /\ Have(t, ex) = ex.base /\ b = m /\ s = t
  BY DEF Give, Have
<1> HIDE DEF b, s, p
<1> QED  BY <1>8, <1>9, <1>10 DEF ex

LEMMA TradeIsSound ==
  ASSUME NEW t, NEW m, BothSound(t, m)
  PROVE  LET ex == CalculateExAmount(m, t)
             t1 == AfterTrade(t, Give(t, ex), Have(t, ex))
             m1 == AfterTrade(m, Have(t, ex), Give(t, ex))
         IN /\ BothSound(t1, m1)
            /\ m1.otype = m.otype
            /\ "Filled" \in {t1.status, m1.status}
            /\ OneAtMakersPrice(m, ex)
<1> DEFINE ex == CalculateExAmount(m, t)
           give == Give(t, ex)
           have == Have(t, ex)
<1>1. /\ Suits(t, give, have) /\ Suits(m, have, give)
      /\ t.remainedBuy = have \/ m.remainedBuy = give
      /\ OneAtMakersPrice(m, ex)
  BY TradeSuits
<1> HIDE DEF ex, give, have
<1> DEFINE t1 == AfterTrade(t, give, have)
           m1 == AfterTrade(m, have, give)
<1>2. /\ Sound(t1) /\ t1.otype = t.otype /\ t1.price = t.price
      /\ t.remainedBuy = have => t1.status = "Filled"
  BY <1>1, SoundAfterTrade DEF BothSound
<1>3. /\ Sound(m1) /\ m1.otype = m.otype /\ m1.price = m.price
      /\ m.remainedBuy = give => m1.status = "Filled"
  BY <1>1, SoundAfterTrade DEF BothSound
<1> HIDE DEF t1, m1
<1>4. BothSound(t1, m1)
  BY <1>2, <1>3 DEF BothSound, Matched
<1>5. "Filled" \in {t1.status, m1.status}
  BY <1>1, <1>2, <1>3
<1> QED  BY <1>1, <1>3, <1>4, <1>5 DEF t1, m1, give, have, ex

-----------------------------------------------------------------------------
(* The orders that meet *)

(* What is asked for is worth exactly what is offered: the check that      *)
(* converting back gives the same amount leaves no fraction.               *)
ExactTerms(otype, price, sells, buys) ==
  IF otype = "Buy" THEN buys * price = sells * PriceFactor
                   ELSE sells * price = buys * PriceFactor

LEMMA AcceptedIsExact ==
  ASSUME NEW otype \in OrderTypes, NEW price \in Nat, NEW amount \in Nat,
         AcceptableTerms(otype, price, amount)
  PROVE  LET counter == Counterparty(otype, price, amount) IN
         /\ counter \in Nat \ {0} /\ counter <= MaxAmount /\ amount <= MaxAmount
         /\ price \in 1 .. MaxAmount
         /\ ExactTerms(otype, price, amount, counter)
<1> DEFINE counter == Counterparty(otype, price, amount)
<1>1. /\ price \in 1 .. MaxAmount /\ MaxAmount \in Nat /\ PriceFactor \in Nat \ {0}
      /\ counter # 0 /\ counter <= MaxAmount /\ amount <= MaxAmount
      /\ Counterparty(Opposite(otype), price, counter) = amount
  BY MathAssumption DEF AcceptableTerms
<1>2. amount * PriceFactor \in Nat /\ amount * price \in Nat
  BY <1>1, Product
<1>3. CASE otype = "Buy"
  <2>1. counter = (amount * PriceFactor) \div price
    BY <1>3 DEF Counterparty, ToQuote
  <2>2. counter \in Nat /\ counter * price <= amount * PriceFactor
    BY <1>1, <1>2, <2>1, Division
  <2>3. amount = (counter * price) \div PriceFactor
    BY <1>1, <1>3 DEF Counterparty, ToBase, Opposite
  <2> HIDE DEF counter
  <2>4. counter * price \in Nat
    BY <1>1, <2>2, Product
  <2>5. amount * PriceFactor <= counter * price
    BY <1>1, <2>3, <2>4, Division
  <2>6. counter * price = amount * PriceFactor
    BY <1>2, <2>2, <2>4, <2>5
  <2> QED  BY <1>1, <1>3, <2>2, <2>6 DEF ExactTerms, counter
<1>4. CASE otype = "Sell"
  <2>1. counter = (amount * price) \div PriceFactor
    BY <1>4 DEF Counterparty, ToBase
  <2>2. counter \in Nat /\ counter * PriceFactor <= amount * price
    BY <1>1, <1>2, <2>1, Division
  <2>3. amount = (counter * PriceFactor) \div price
    BY <1>1, <1>4 DEF Counterparty, ToQuote, Opposite
  <2> HIDE DEF counter
  <2>4. counter * PriceFactor \in Nat
    BY <1>1, <2>2, Product
  <2>5. amount * price <= counter * PriceFactor
    BY <1>1, <2>3, <2>4, Division
  <2>6. amount * price = counter * PriceFactor
    BY <1>2, <2>2, <2>4, <2>5
  <2> QED  BY <1>1, <1>4, <2>2, <2>6 DEF ExactTerms, counter
<1> QED  BY <1>3, <1>4 DEF OrderTypes

LEMMA PlacedIsSound ==
  ASSUME NEW otype \in OrderTypes, NEW price \in Nat, NEW amount \in Nat,
         AcceptableTerms(otype, price, amount),
         (IF otype = "Buy" THEN amount ELSE ToBase(amount, price)) * PriceFactor <= MaxAmount
  PROVE  Sound(PlacedOrder(otype, price, amount))
<1> DEFINE counter == Counterparty(otype, price, amount)
           o == PlacedOrder(otype, price, amount)
<1>1. /\ counter \in Nat /\ counter <= MaxAmount /\ amount <= MaxAmount
      /\ price \in 1 .. MaxAmount
      /\ ExactTerms(otype, price, amount, counter)
  BY AcceptedIsExact
<1>2. MaxAmount \in Nat /\ PriceFactor \in Nat \ {0}
  BY MathAssumption
<1>3. BaseAmount(o) = IF otype = "Buy" THEN amount ELSE ToBase(amount, price)
  BY DEF PlacedOrder, BaseAmount, Counterparty, OrderTypes
<1>4. o = [otype |-> otype, price |-> price, sellAmount |-> amount, buyAmount |-> counter,
           remainedSell |-> amount, remainedBuy |-> counter, status |-> "Created"]
  BY DEF PlacedOrder
<1> HIDE DEF o, counter
<1>5. o \in OrderRecords
  BY <1>1, <1>2, <1>4 DEF OrderRecords
<1>6. OffersItsPrice(o)
  <2>1. {counter * price, counter * PriceFactor, amount * price, amount * PriceFactor} \subseteq Nat
    BY <1>1, <1>2, Product
  <2> QED  BY <1>1, <1>4, <2>1 DEF OffersItsPrice, ExactTerms
<1>7. BaseAmount(o) * PriceFactor <= MaxAmount
  BY <1>3
<1>8. o.remainedSell <= o.sellAmount /\ o.remainedBuy <= o.buyAmount
  BY <1>1, <1>4
<1> QED  BY <1>5, <1>6, <1>7, <1>8 DEF Sound, o

LEMMA NewIsSound ==
  ASSUME NEW otype \in OrderTypes, NEW o \in NewOrders(otype)
  PROVE  Sound(o) /\ o.otype = otype
<1>1. PICK price \in OrderPrices, amount \in OrderAmounts :
        /\ AcceptableTerms(otype, price, amount)
        /\ o = PlacedOrder(otype, price, amount)
  BY DEF NewOrders
<1>2. price \in Nat /\ amount \in Nat
  BY ExchangeAssumption, MathAssumption
<1>3. /\ amount * PriceFactor <= MaxAmount
      /\ ToBase(amount, price) * PriceFactor <= MaxAmount
  BY WidthAssumption
<1>4. Sound(o)
  BY <1>1, <1>2, <1>3, PlacedIsSound
<1> QED  BY <1>1, <1>4 DEF PlacedOrder

LEMMA RestingIsSound ==
  ASSUME NEW otype \in OrderTypes, NEW o \in RestingOrders(otype)
  PROVE  Sound(o) /\ o.otype = otype
<1>1. CASE o \in NewOrders(otype)
  BY <1>1, NewIsSound
<1>2. CASE o \notin NewOrders(otype)
  <2>1. PICK m \in NewOrders(otype), t \in NewOrders(Opposite(otype)) :
          /\ Matched(t, m)
          /\ o = LET ex == CalculateExAmount(m, t)
                 IN AfterTrade(m, Have(t, ex), Give(t, ex))
    BY <1>2 DEF RestingOrders
  <2>2. Opposite(otype) \in OrderTypes /\ Opposite(Opposite(otype)) = otype
    BY DEF Opposite, OrderTypes
  <2>3. Sound(m) /\ m.otype = otype /\ Sound(t) /\ t.otype = Opposite(otype)
    BY <2>2, NewIsSound
  <2>4. BothSound(t, m)
    BY <2>1, <2>2, <2>3 DEF BothSound
  <2>5. Sound(o) /\ o.otype = m.otype
    BY <2>1, <2>4, TradeIsSound DEF BothSound
  <2> QED  BY <2>3, <2>5
<1> QED  BY <1>1, <1>2

-----------------------------------------------------------------------------
(* The specification *)

IInv == BothSound(taker, maker) /\ OneIsFilled /\ NearTheMakersPrice

LEMMA NoTradeIsNear ==
  ASSUME NEW m, Sound(m)
  PROVE  OneAtMakersPrice(m, NoTrade)
<1>1. m.price \in Nat /\ PriceFactor \in Nat
  BY MathAssumption DEF Sound, OrderRecords
<1> QED  BY <1>1 DEF OneAtMakersPrice, NoTrade

LEMMA Initially == Init => IInv
<1> SUFFICES ASSUME Init  PROVE IInv
  OBVIOUS
<1>1. PICK otype \in OrderTypes :
        taker \in NewOrders(otype) /\ maker \in NewOrders(Opposite(otype))
  BY DEF Init
<1>2. BothSound(taker, maker)
  BY <1>1, NewIsSound DEF Init, BothSound, Opposite, OrderTypes
<1>3. NearTheMakersPrice
  BY <1>2, NoTradeIsNear DEF Init, BothSound, NearTheMakersPrice, OneAtMakersPrice
<1> QED  BY <1>2, <1>3 DEF IInv, Init, OneIsFilled

LEMMA Inductive == IInv /\ [Next]_exchangeVars => IInv'
<1> SUFFICES ASSUME IInv, [Next]_exchangeVars  PROVE IInv'
  OBVIOUS
<1>1. BothSound(taker, maker) /\ taker.otype \in OrderTypes /\ maker.otype \in OrderTypes
  BY DEF IInv, BothSound, Sound, OrderRecords
<1>2. CASE Exchanged
  <2> DEFINE ex == CalculateExAmount(maker, taker)
  <2>1. /\ taker' = AfterTrade(taker, Give(taker, ex), Have(taker, ex))
        /\ maker' = AfterTrade(maker, Have(taker, ex), Give(taker, ex))
        /\ last' = [ex |-> ex, taker |-> taker, maker |-> maker]
    BY <1>2 DEF Exchanged
  <2>2. /\ BothSound(taker', maker')
        /\ "Filled" \in {taker'.status, maker'.status}
        /\ OneAtMakersPrice(maker, ex)
    BY <1>1, <2>1, TradeIsSound
  <2> HIDE DEF ex
  <2> QED  BY <2>1, <2>2 DEF IInv, OneIsFilled, NearTheMakersPrice, OneAtMakersPrice
<1>3. CASE NextMaker
  <2>1. Sound(maker') /\ maker'.otype = maker.otype
    BY <1>1, <1>3, RestingIsSound DEF NextMaker
  <2>2. BothSound(taker, maker')
    BY <1>1, <1>3, <2>1 DEF NextMaker, BothSound
  <2>3. OneAtMakersPrice(maker', NoTrade)
    BY <2>1, NoTradeIsNear
  <2> QED
    BY <1>3, <2>2, <2>3
    DEF NextMaker, IInv, OneIsFilled, NearTheMakersPrice, OneAtMakersPrice
<1>4. CASE NextTaker
  <2>1. Sound(taker') /\ taker'.otype = taker.otype
    BY <1>1, <1>4, NewIsSound DEF NextTaker
  <2>2. BothSound(taker', maker)
    BY <1>1, <1>4, <2>1 DEF NextTaker, BothSound
  <2>3. OneAtMakersPrice(maker, NoTrade)
    BY <1>1, NoTradeIsNear DEF BothSound
  <2> QED
    BY <1>4, <2>2, <2>3
    DEF NextTaker, IInv, OneIsFilled, NearTheMakersPrice, OneAtMakersPrice
<1>5. CASE UNCHANGED exchangeVars
  BY <1>5 DEF exchangeVars, IInv, OneIsFilled, NearTheMakersPrice
<1> QED  BY <1>2, <1>3, <1>4, <1>5 DEF Next

LEMMA Always == Spec => []IInv
BY Initially, Inductive, PTL DEF Spec

(* The checked_sub of order_match never fail: neither order of a trade     *)
(* gives or takes more than its rest, for all prices, amounts and widths.  *)
THEOREM NeverOverdrawn == Spec => []NeitherExceedsItsRest
<1>1. IInv => NeitherExceedsItsRest
  <2> SUFFICES ASSUME NEW o \in {taker, maker}, Sound(o)
               PROVE  /\ o.remainedSell >= 0 /\ o.remainedSell <= o.sellAmount
                      /\ o.remainedBuy >= 0 /\ o.remainedBuy <= o.buyAmount
    BY DEF IInv, BothSound, NeitherExceedsItsRest
  <2> QED  BY MathAssumption DEF Sound, OrderRecords
<1> QED  BY <1>1, Always, PTL

(* Every trade fills the taker or the maker: the loops of order_match get  *)
(* ahead with each.                                                        *)
THEOREM EachTradeFillsOne == Spec => []OneIsFilled
<1>1. IInv => OneIsFilled  BY DEF IInv
<1> QED  BY <1>1, Always, PTL

(* The roundings of calculate_ex_amount add or take at most one unit of one*)
(* of the two tokens.                                                      *)
THEOREM AtTheMakersPrice == Spec => []NearTheMakersPrice
<1>1. IInv => NearTheMakersPrice  BY DEF IInv
<1> QED  BY <1>1, Always, PTL

(* However often an order is rounded against, it offers at its own price   *)
(* what it still asks for.                                                 *)
THEOREM RestIsOffered == Spec => []RestAtItsPrice
<1>1. IInv => RestAtItsPrice  BY DEF IInv, BothSound, Sound, RestAtItsPrice
<1> QED  BY <1>1, Always, PTL
===========================================================================
