------------------------ MODULE MarketDataProofs ------------------------
(***************************************************************************)
(* Proofs about MarketData, for every number of blocks a day and of blocks *)
(* altogether, set of pairs, prices and amounts, and width.                *)
(*                                                                         *)
(* The vectors of prices hold no block numbers; what is invariant is that  *)
(* they line up with the buckets of the last closed blocks, that they grow *)
(* by one block as they shrink by one, and so never reach back beyond a    *)
(* day, whenever the pair was created.                                     *)
(***************************************************************************)
EXTENDS MarketData, SumProofs, TLAPS

Prices == TradePrices \cup {NoPrice}

Shaped(s) ==
  s \in [latest : {s.latest}, volume : {s.volume}, high : {s.high}, low : {s.low},
         buckets : {s.buckets}, highs : {s.highs}, lows : {s.lows}]

Typed(s, now) ==
  /\ Shaped(s)
  /\ s.volume \in 0 .. MaxAmount
  /\ s.highs \in Seq(Prices) /\ s.lows \in Seq(Prices)
  /\ \A b \in DOMAIN s.buckets : b \in 1 .. now /\ s.buckets[b] \in Bucket

(* The vectors are those of as many blocks, the last of which is last. *)
InLine(s, last) ==
  /\ Len(s.lows) = Len(s.highs)
  /\ Len(s.highs) <= last
  /\ \A i \in 1 .. Len(s.highs) :
       /\ s.highs[i] = BucketOf(s, last - Len(s.highs) + i).high
       /\ s.lows[i] = BucketOf(s, last - Len(s.highs) + i).low

LastClosed == IF inBlock THEN block - 1 ELSE block
DayLength == IF inBlock THEN BlocksPerDay - 1 ELSE BlocksPerDay

Reported(s) ==
  s.highs # <<>> => s.high = HighestOf(s.highs) /\ s.low = LowestOf(s.lows)

IInv ==
  /\ block \in 0 .. MaxBlocks
  /\ inBlock \in BOOLEAN
  /\ inBlock => block > 0
  /\ DOMAIN stats \subseteq Pairs
  /\ \A p \in DOMAIN stats :
       /\ Typed(stats[p], block) /\ InLine(stats[p], LastClosed)
       /\ Len(stats[p].highs) <= DayLength
       /\ ~inBlock => Reported(stats[p])

-----------------------------------------------------------------------------
LEMMA PlusInRange ==
  ASSUME NEW x \in Int, NEW y \in Int
  PROVE  Plus(x, y) \in 0 .. MaxAmount /\ Minus(x, y) \in 0 .. MaxAmount
BY DayAssumption DEF Plus, Minus

LEMMA BucketIsTyped ==
  ASSUME NEW s, NEW now, Typed(s, now), NEW b
  PROVE  BucketOf(s, b) \in Bucket
BY DayAssumption DEF Typed, BucketOf, GetOr, EmptyBucket, Bucket

LEMMA ExtremesOfTwo ==
  ASSUME NEW x \in Int, NEW y \in Int
  PROVE  /\ Max({x, y}) \in {x, y} /\ x <= Max({x, y}) /\ y <= Max({x, y})
         /\ Min({x, y}) \in {x, y} /\ Min({x, y}) <= x /\ Min({x, y}) <= y
<1>1. \E m \in {x, y} : \A z \in {x, y} : m >= z
  OBVIOUS
<1>2. \E m \in {x, y} : \A z \in {x, y} : m <= z
  OBVIOUS
<1> QED  BY <1>1, <1>2 DEF Max, Min

LEMMA Initially == Init => IInv
<1> SUFFICES ASSUME Init PROVE IInv
  OBVIOUS
<1>1. DOMAIN stats = {}
  BY DEF Init, EmptyMap
<1>2. block = 0 /\ ~inBlock /\ inBlock \in BOOLEAN
  BY DEF Init
<1> QED  BY <1>1, <1>2, DayAssumption DEF IInv

-----------------------------------------------------------------------------
(* The vectors that lose their first price line up with the same blocks.   *)
LEMMA AgedStaysInLine ==
  ASSUME NEW s, NEW now \in Nat, NEW last \in Nat, NEW b \in Nat,
         Typed(s, now), InLine(s, last)
  PROVE  LET a == Aged(s, b) IN
         /\ Typed(a, now) /\ InLine(a, last)
         /\ Len(a.highs) = IF Len(s.highs) = 0 THEN 0 ELSE Len(s.highs) - 1
<1> DEFINE a == Aged(s, b)
<1>1. /\ Shaped(a) /\ a.buckets = s.buckets
      /\ a.volume = Minus(s.volume, BucketOf(s, b - BlocksPerDay).volume)
      /\ a.highs = DropFirst(s.highs) /\ a.lows = DropFirst(s.lows)
  BY DEF Aged, Shaped, Typed
<1>2. a.volume \in 0 .. MaxAmount
  <2>1. BucketOf(s, b - BlocksPerDay).volume \in Int
    BY BucketIsTyped DEF Bucket
  <2>2. s.volume \in Int
    BY DEF Typed
  <2> QED  BY <1>1, <2>1, <2>2, PlusInRange
<1>3. \A c : BucketOf(a, c) = BucketOf(s, c)
  BY <1>1 DEF BucketOf
<1> HIDE DEF a
<1>4. CASE s.highs = <<>>
  <2>1. s.lows = <<>>
    BY <1>4 DEF InLine, Typed
  <2>2. a.highs = s.highs /\ a.lows = s.lows
    BY <1>1, <1>4, <2>1 DEF DropFirst
  <2> QED  BY <1>1, <1>2, <1>3, <1>4, <2>2 DEF Typed, InLine, a
<1>5. CASE s.highs # <<>>
  <2>1. /\ s.highs \in Seq(Prices) /\ s.lows \in Seq(Prices)
        /\ s.lows # <<>> /\ Len(s.highs) > 0 /\ Len(s.lows) = Len(s.highs)
    BY <1>5 DEF InLine, Typed
  <2>2. a.highs = Tail(s.highs) /\ a.lows = Tail(s.lows)
    BY <1>1, <1>5, <2>1 DEF DropFirst
  <2>3. /\ a.highs \in Seq(Prices) /\ a.lows \in Seq(Prices)
        /\ Len(a.highs) = Len(s.highs) - 1 /\ Len(a.lows) = Len(s.highs) - 1
        /\ \A i \in 1 .. Len(a.highs) :
             a.highs[i] = s.highs[i + 1] /\ a.lows[i] = s.lows[i + 1]
    BY <2>1, <2>2
  <2>4. ASSUME NEW i \in 1 .. Len(a.highs)
        PROVE  /\ a.highs[i] = BucketOf(a, last - Len(a.highs) + i).high
               /\ a.lows[i] = BucketOf(a, last - Len(a.highs) + i).low
    <3>1. i + 1 \in 1 .. Len(s.highs)
      BY <2>1, <2>3
    <3>2. last - Len(s.highs) + (i + 1) = last - Len(a.highs) + i
      BY <2>1, <2>3
    <3>3. /\ s.highs[i + 1] = BucketOf(s, last - Len(s.highs) + (i + 1)).high
          /\ s.lows[i + 1] = BucketOf(s, last - Len(s.highs) + (i + 1)).low
      BY <3>1 DEF InLine
    <3> QED  BY <1>3, <2>3, <3>2, <3>3
  <2>5. Len(a.lows) = Len(a.highs) /\ Len(a.highs) <= last
    BY <2>1, <2>3 DEF InLine
  <2>6. InLine(a, last)
    BY <2>4, <2>5 DEF InLine
  <2>7. Typed(a, now)
    BY <1>1, <1>2, <2>3 DEF Typed
  <2> QED  BY <2>1, <2>3, <2>6, <2>7 DEF a
<1> QED  BY <1>4, <1>5

(* on_finalize adds the prices of the block it closes. *)
LEMMA ClosedIsInLine ==
  ASSUME NEW s, NEW now \in Nat \ {0}, Typed(s, now), InLine(s, now - 1)
  PROVE  LET c == Closed(s, now) IN
         /\ Typed(c, now) /\ InLine(c, now) /\ Reported(c)
         /\ Len(c.highs) = Len(s.highs) + 1
<1> DEFINE c == Closed(s, now)
           bucket == BucketOf(s, now)
<1>1. /\ Shaped(c) /\ c.buckets = s.buckets
      /\ c.volume = Plus(s.volume, bucket.volume)
      /\ c.highs = Append(s.highs, bucket.high) /\ c.lows = Append(s.lows, bucket.low)
      /\ c.high = HighestOf(c.highs) /\ c.low = LowestOf(c.lows)
  BY DEF Closed, Shaped, Typed
<1>2. bucket \in Bucket
  BY BucketIsTyped
<1>3. c.volume \in 0 .. MaxAmount
  <2>1. bucket.volume \in Int /\ s.volume \in Int
    BY <1>2 DEF Bucket, Typed
  <2> QED  BY <1>1, <2>1, PlusInRange
<1>4. \A b : BucketOf(c, b) = BucketOf(s, b)
  BY <1>1 DEF BucketOf
<1>5. bucket.high \in Prices /\ bucket.low \in Prices
  BY <1>2 DEF Bucket, Prices
<1> HIDE DEF c
<1>6. /\ s.highs \in Seq(Prices) /\ s.lows \in Seq(Prices) /\ Len(s.lows) = Len(s.highs)
      /\ Len(s.highs) <= now - 1
  BY DEF Typed, InLine
<1>7. /\ c.highs \in Seq(Prices) /\ c.lows \in Seq(Prices)
      /\ Len(c.highs) = Len(s.highs) + 1 /\ Len(c.lows) = Len(s.highs) + 1
      /\ \A i \in 1 .. Len(s.highs) : c.highs[i] = s.highs[i] /\ c.lows[i] = s.lows[i]
      /\ c.highs[Len(c.highs)] = bucket.high /\ c.lows[Len(c.highs)] = bucket.low
  BY <1>1, <1>5, <1>6
<1>8. InLine(c, now)
  <2>1. ASSUME NEW i \in 1 .. Len(c.highs)
        PROVE  /\ c.highs[i] = BucketOf(c, now - Len(c.highs) + i).high
               /\ c.lows[i] = BucketOf(c, now - Len(c.highs) + i).low
    <3>1. CASE i = Len(c.highs)
      <4>1. now - Len(c.highs) + i = now
        BY <1>7, <1>6, <3>1
      <4> QED  BY <1>4, <1>7, <3>1, <4>1
    <3>2. CASE i # Len(c.highs)
      <4>1. i \in 1 .. Len(s.highs)
        BY <1>6, <1>7, <3>2
      <4>2. now - Len(c.highs) + i = (now - 1) - Len(s.highs) + i
        BY <1>6, <1>7
      <4> QED  BY <1>4, <1>7, <4>1, <4>2 DEF InLine
    <3> QED  BY <3>1, <3>2
  <2>2. Len(c.highs) <= now /\ Len(c.lows) = Len(c.highs)
    BY <1>6, <1>7
  <2> QED  BY <2>1, <2>2 DEF InLine
<1>9. Typed(c, now) /\ Reported(c)
  BY <1>1, <1>3, <1>7 DEF Typed, Reported
<1> QED  BY <1>7, <1>8, <1>9 DEF c

(* A trade changes the bucket of the block that is being built, and of the *)
(* vectors only the later ones will hold it.                               *)
LEMMA TradedStaysInLine ==
  ASSUME NEW s, NEW now \in Nat \ {0}, Typed(s, now), InLine(s, now - 1),
         NEW price \in TradePrices, NEW n \in TradeAmounts
  PROVE  LET t == Traded(s, now, price, n) IN
         /\ Typed(t, now) /\ InLine(t, now - 1) /\ t.highs = s.highs
<1> DEFINE t == Traded(s, now, price, n)
           bucket == BucketOf(s, now)
           new == [volume |-> Plus(bucket.volume, n),
                   high |-> IF bucket.high = NoPrice THEN price ELSE Max({bucket.high, price}),
                   low  |-> IF bucket.low = NoPrice THEN price ELSE Min({bucket.low, price})]
<1>1. /\ Shaped(t) /\ t.buckets = Put(s.buckets, now, new)
      /\ t.volume = s.volume /\ t.highs = s.highs /\ t.lows = s.lows
  BY DEF Traded, Shaped, Typed
<1>2. bucket \in Bucket
  BY BucketIsTyped
<1>3. new \in Bucket
  <2>1. Plus(bucket.volume, n) \in 0 .. MaxAmount
    BY <1>2, DayAssumption, PlusInRange DEF Bucket
  <2>2. price \in Int /\ TradePrices \subseteq Int
    BY DayAssumption
  <2>3. bucket.high # NoPrice => Max({bucket.high, price}) \in TradePrices
    BY <1>2, <2>2, ExtremesOfTwo DEF Bucket
  <2>4. bucket.low # NoPrice => Min({bucket.low, price}) \in TradePrices
    BY <1>2, <2>2, ExtremesOfTwo DEF Bucket
  <2> QED  BY <2>1, <2>3, <2>4 DEF Bucket
<1> HIDE DEF t, new
<1>4. DOMAIN t.buckets = DOMAIN s.buckets \cup {now}
  BY <1>1 DEF Put
<1>5. t.buckets[now] = new /\ \A b \in DOMAIN s.buckets \ {now} : t.buckets[b] = s.buckets[b]
  BY <1>1 DEF Put
<1>6. Typed(t, now)
  BY <1>1, <1>3, <1>4, <1>5 DEF Typed
<1>7. \A b : b # now => BucketOf(t, b) = BucketOf(s, b)
  BY <1>4, <1>5 DEF BucketOf, GetOr
<1>8. InLine(t, now - 1)
  <2>1. Len(s.highs) \in Nat
    BY DEF Typed
  <2>2. \A i \in 1 .. Len(s.highs) : (now - 1) - Len(s.highs) + i # now
    BY <2>1
  <2> QED  BY <1>1, <1>7, <2>1, <2>2 DEF InLine
<1> QED  BY <1>1, <1>6, <1>8 DEF t

-----------------------------------------------------------------------------
LEMMA TypedLater ==
  ASSUME NEW s, NEW now \in Nat, Typed(s, now)
  PROVE  Typed(s, now + 1)
BY DEF Typed

LEMMA OnInitializeStep == ASSUME IInv, OnInitialize PROVE IInv'
<1>1. /\ block \in Nat /\ block' = block + 1 /\ block' \in 0 .. MaxBlocks
      /\ ~inBlock /\ inBlock' = TRUE /\ LastClosed' = LastClosed /\ LastClosed = block
      /\ DayLength = BlocksPerDay /\ DayLength' = BlocksPerDay - 1
  BY DayAssumption DEF IInv, OnInitialize, LastClosed, DayLength
<1>2. \A p \in DOMAIN stats :
        /\ Typed(stats[p], block + 1) /\ InLine(stats[p], block)
        /\ Len(stats[p].highs) \in Nat
        /\ Len(stats[p].highs) <= BlocksPerDay /\ Len(stats[p].highs) <= block
  <2> SUFFICES ASSUME NEW p \in DOMAIN stats
               PROVE  /\ Typed(stats[p], block + 1) /\ InLine(stats[p], block)
                      /\ Len(stats[p].highs) \in Nat
                      /\ Len(stats[p].highs) <= BlocksPerDay
                      /\ Len(stats[p].highs) <= block
    OBVIOUS
  <2>1. /\ Typed(stats[p], block) /\ InLine(stats[p], block)
        /\ Len(stats[p].highs) <= BlocksPerDay
    BY <1>1 DEF IInv
  <2>2. Len(stats[p].highs) \in Nat
    BY <2>1 DEF Typed
  <2>3. Len(stats[p].highs) <= block
    BY <2>1 DEF InLine
  <2> QED  BY <1>1, <2>1, <2>2, <2>3, TypedLater
<1>3. CASE block' <= BlocksPerDay
  <2>1. stats' = stats
    BY <1>3 DEF OnInitialize
  <2>2. \A p \in DOMAIN stats : Len(stats[p].highs) <= BlocksPerDay - 1
    BY <1>1, <1>2, <1>3, DayAssumption
  <2> QED  BY <1>1, <1>2, <2>1, <2>2 DEF IInv
<1>4. CASE ~(block' <= BlocksPerDay)
  <2>1. stats' = [p \in DOMAIN stats |-> Aged(stats[p], block')]
    BY <1>4 DEF OnInitialize
  <2>2. ASSUME NEW p \in DOMAIN stats
        PROVE  /\ Typed(stats'[p], block') /\ InLine(stats'[p], block)
               /\ Len(stats'[p].highs) <= BlocksPerDay - 1
    <3>1. stats'[p] = Aged(stats[p], block')
      BY <2>1
    <3>2. /\ Typed(Aged(stats[p], block'), block + 1) /\ InLine(Aged(stats[p], block'), block)
          /\ Len(Aged(stats[p], block').highs) =
               IF Len(stats[p].highs) = 0 THEN 0 ELSE Len(stats[p].highs) - 1
      BY <1>1, <1>2, AgedStaysInLine
    <3> QED  BY <1>1, <1>2, <3>1, <3>2, DayAssumption
  <2> QED  BY <1>1, <2>1, <2>2 DEF IInv
<1> QED  BY <1>3, <1>4

LEMMA OnFinalizeStep == ASSUME IInv, OnFinalize PROVE IInv'
<1>1. /\ block \in Nat \ {0} /\ block' = block
      /\ inBlock /\ inBlock' = FALSE /\ LastClosed = block - 1 /\ LastClosed' = block
      /\ DayLength = BlocksPerDay - 1 /\ DayLength' = BlocksPerDay
  BY DayAssumption DEF IInv, OnFinalize, LastClosed, DayLength
<1>2. stats' = [p \in DOMAIN stats |-> Closed(stats[p], block)]
  BY DEF OnFinalize
<1>3. ASSUME NEW p \in DOMAIN stats
      PROVE  /\ Typed(stats'[p], block') /\ InLine(stats'[p], block)
             /\ Len(stats'[p].highs) <= BlocksPerDay /\ Reported(stats'[p])
  <2>1. /\ Typed(stats[p], block) /\ InLine(stats[p], block - 1)
        /\ Len(stats[p].highs) \in Nat /\ Len(stats[p].highs) <= BlocksPerDay - 1
    BY <1>1 DEF IInv, Typed
  <2>2. stats'[p] = Closed(stats[p], block)
    BY <1>2
  <2> QED  BY <1>1, <2>1, <2>2, ClosedIsInLine, DayAssumption
<1> QED  BY <1>1, <1>2, <1>3 DEF IInv, OnFinalize

LEMMA NewPairStep ==
  ASSUME IInv, NEW p \in Pairs, inBlock, NewPair(p) PROVE IInv'
<1>1. /\ Typed(EmptyStats, block) /\ InLine(EmptyStats, block - 1)
      /\ Len(EmptyStats.highs) = 0
  BY DayAssumption DEF IInv, EmptyStats, EmptyMap, Typed, Shaped, InLine
<1>2. DayLength \in Nat /\ LastClosed = block - 1
  BY DayAssumption DEF DayLength, LastClosed
<1>3. /\ DOMAIN stats' = DOMAIN stats \cup {p}
      /\ \A q \in DOMAIN stats' : stats'[q] = IF q = p THEN EmptyStats ELSE stats[q]
  BY DEF NewPair, Put
<1> QED  BY <1>1, <1>2, <1>3 DEF IInv, NewPair, LastClosed, DayLength

LEMMA TradeStep ==
  ASSUME IInv, inBlock, NEW p \in DOMAIN stats, NEW price \in TradePrices,
         NEW n \in TradeAmounts, SetMarketData(p, price, n)
  PROVE  IInv'
<1>1. block \in Nat \ {0} /\ LastClosed = block - 1
  BY DEF IInv, LastClosed
<1>2. /\ Typed(stats[p], block) /\ InLine(stats[p], block - 1)
  BY <1>1 DEF IInv
<1>3. LET t == Traded(stats[p], block, price, n) IN
      Typed(t, block) /\ InLine(t, block - 1) /\ t.highs = stats[p].highs
  BY <1>1, <1>2, TradedStaysInLine
<1>4. /\ DOMAIN stats' = DOMAIN stats
      /\ \A q \in DOMAIN stats :
           stats'[q] = IF q = p THEN Traded(stats[p], block, price, n) ELSE stats[q]
  BY DEF SetMarketData
<1>5. \A q \in DOMAIN stats' :
        /\ Typed(stats'[q], block) /\ InLine(stats'[q], block - 1)
        /\ Len(stats'[q].highs) <= DayLength
  BY <1>1, <1>3, <1>4 DEF IInv
<1> QED  BY <1>1, <1>4, <1>5 DEF IInv, SetMarketData, LastClosed, DayLength

LEMMA Inductive == IInv /\ [Next]_marketVars => IInv'
<1> SUFFICES ASSUME IInv, [Next]_marketVars PROVE IInv'
  OBVIOUS
<1>1. CASE OnInitialize
  BY <1>1, OnInitializeStep
<1>2. CASE OnFinalize
  BY <1>2, OnFinalizeStep
<1>3. CASE \E p \in Pairs \ DOMAIN stats : inBlock /\ NewPair(p)
  BY <1>3, NewPairStep
<1>4. CASE \E p \in DOMAIN stats, price \in TradePrices, n \in TradeAmounts :
             inBlock /\ SetMarketData(p, price, n)
  BY <1>4, TradeStep
<1>5. CASE UNCHANGED marketVars
  BY <1>5 DEF marketVars, IInv, LastClosed, DayLength
<1> QED  BY <1>1, <1>2, <1>3, <1>4, <1>5 DEF Next

-----------------------------------------------------------------------------
THEOREM InvariantHolds == Spec => []IInv
BY Initially, Inductive, PTL DEF Spec

(* The hooks and set_tp_market_data keep the types of the storage: volumes *)
(* stay in their width, buckets belong to blocks there have been, and the  *)
(* two vectors of prices are equally long.                                 *)
THEOREM TypesHold == Spec => []TypeOK
<1>1. IInv => TypeOK
  BY DEF IInv, TypeOK, Typed, InLine
<1> QED  BY <1>1, InvariantHolds, PTL

(* The vectors the reported prices come from, as sets. *)
LEMMA VectorsOfBlocks ==
  ASSUME NEW s, NEW last \in Nat, NEW now, Typed(s, now), InLine(s, last)
  PROVE  LET days == (last - Len(s.highs) + 1) .. last IN
         /\ Range(s.highs) = Range([b \in days |-> BucketOf(s, b).high])
         /\ Range(s.lows) = Range([b \in days |-> BucketOf(s, b).low])
<1> DEFINE n == Len(s.highs)
           days == (last - n + 1) .. last
<1>1. /\ n \in Nat /\ n <= last
      /\ DOMAIN s.highs = 1 .. n /\ DOMAIN s.lows = 1 .. n
      /\ \A i \in 1 .. n : /\ s.highs[i] = BucketOf(s, last - n + i).high
                           /\ s.lows[i] = BucketOf(s, last - n + i).low
  BY DEF Typed, InLine
<1> HIDE DEF n
<1>2. \A i \in 1 .. n : last - n + i \in days
  BY <1>1
<1>3. \A b \in days : b - last + n \in 1 .. n /\ last - n + (b - last + n) = b
  BY <1>1
<1>4. Range(s.highs) = {s.highs[i] : i \in 1 .. n} /\ Range(s.lows) = {s.lows[i] : i \in 1 .. n}
  BY <1>1 DEF Range
<1>5. {s.highs[i] : i \in 1 .. n} = {BucketOf(s, b).high : b \in days}
  <2>1. \A i \in 1 .. n : \E b \in days : s.highs[i] = BucketOf(s, b).high
    BY <1>1, <1>2
  <2>2. ASSUME NEW b \in days PROVE \E i \in 1 .. n : s.highs[i] = BucketOf(s, b).high
    <3>1. b - last + n \in 1 .. n /\ last - n + (b - last + n) = b
      BY <1>3
    <3>2. s.highs[b - last + n] = BucketOf(s, last - n + (b - last + n)).high
      BY <1>1, <3>1
    <3> QED  BY <3>1, <3>2
  <2> HIDE DEF days
  <2> QED  BY <2>1, <2>2
<1>6. {s.lows[i] : i \in 1 .. n} = {BucketOf(s, b).low : b \in days}
  <2>1. \A i \in 1 .. n : \E b \in days : s.lows[i] = BucketOf(s, b).low
    BY <1>1, <1>2
  <2>2. ASSUME NEW b \in days PROVE \E i \in 1 .. n : s.lows[i] = BucketOf(s, b).low
    <3>1. b - last + n \in 1 .. n /\ last - n + (b - last + n) = b
      BY <1>3
    <3>2. s.lows[b - last + n] = BucketOf(s, last - n + (b - last + n)).low
      BY <1>1, <3>1
    <3> QED  BY <3>1, <3>2
  <2> HIDE DEF days
  <2> QED  BY <2>1, <2>2
<1>7. /\ Range([b \in days |-> BucketOf(s, b).high]) = {BucketOf(s, b).high : b \in days}
      /\ Range([b \in days |-> BucketOf(s, b).low]) = {BucketOf(s, b).low : b \in days}
  BY DEF Range
<1> QED  BY <1>4, <1>5, <1>6, <1>7 DEF n

(* The highest and the lowest price of the day are those of the last       *)
(* blocks, at most a day of them: what on_initialize drops from the vectors*)
(* keeps up with what on_finalize adds, also for a pair created later.     *)
THEOREM PricesAreRecent == Spec => []PricesOfRecentBlocks
<1>1. ASSUME IInv, NEW p \in DOMAIN stats, ~inBlock, stats[p].highs # <<>>
      PROVE  \E n \in 1 .. BlocksPerDay :
               /\ stats[p].high = HighestOf([b \in Closeds(n) |-> BucketOf(stats[p], b).high])
               /\ stats[p].low = LowestOf([b \in Closeds(n) |-> BucketOf(stats[p], b).low])
  <2> DEFINE s == stats[p]
             n == Len(s.highs)
  <2>1. /\ Typed(s, block) /\ InLine(s, block) /\ Reported(s) /\ block \in Nat
        /\ n <= BlocksPerDay
    BY <1>1 DEF IInv, LastClosed, DayLength
  <2>2. n \in 1 .. BlocksPerDay
    BY <1>1, <2>1, DayAssumption DEF Typed
  <2>3. Closeds(n) = (block - n + 1) .. block
    BY <1>1 DEF Closeds
  <2>4. /\ Range(s.highs) = Range([b \in Closeds(n) |-> BucketOf(s, b).high])
        /\ Range(s.lows) = Range([b \in Closeds(n) |-> BucketOf(s, b).low])
    BY <2>1, <2>3, VectorsOfBlocks
  <2>5. s.high = HighestOf(s.highs) /\ s.low = LowestOf(s.lows)
    BY <1>1, <2>1 DEF Reported
  <2>6. /\ s.high = HighestOf([b \in Closeds(n) |-> BucketOf(s, b).high])
        /\ s.low = LowestOf([b \in Closeds(n) |-> BucketOf(s, b).low])
    BY <2>4, <2>5 DEF HighestOf, LowestOf
  <2> QED  BY <2>2, <2>6
<1>2. IInv => PricesOfRecentBlocks
  BY <1>1 DEF PricesOfRecentBlocks
<1> QED  BY <1>2, InvariantHolds, PTL
-----------------------------------------------------------------------------
(* The volume of the day.  It is kept by adding the bucket of a block that *)
(* closes and subtracting that of the block a day before, in an arithmetic *)
(* that wraps; both are right together, whatever wrapped in between.       *)

(* What the volume of a pair is computed from. *)
Counted(s, now) ==
  /\ Shaped(s)
  /\ s.volume \in 0 .. MaxAmount
  /\ \A b \in DOMAIN s.buckets : b \in 1 .. now /\ s.buckets[b].volume \in 0 .. MaxAmount

(* What was traded from one block to another. *)
VolumeOf(s, days) == SumFunctionOnSet([b \in days |-> BucketOf(s, b).volume], days)

SumsUp(s, first, last) == s.volume = VolumeOf(s, first .. last) % (MaxAmount + 1)

(* The block a day before the one that is being built. *)
FirstOfDay == LastClosed - DayLength + 1

LEMMA Residue ==
  ASSUME NEW w \in Nat \ {0}, NEW a \in Int, NEW q \in Int, NEW r \in 0 .. (w - 1), a = w * q + r
  PROVE  a % w = r
<1> DEFINE d == a \div w
           m == a % w
<1>1. d \in Int /\ m \in 0 .. (w - 1) /\ a = w * d + m
  OBVIOUS
<1> HIDE DEF d, m
<1>2. q = d
  <2>1. w * (q - d) = m - r
    BY <1>1
  <2>2. CASE q - d >= 1
    <3>1. w * (q - d) >= w
      BY <1>1, <2>2
    <3> QED  BY <1>1, <2>1, <3>1
  <2>3. CASE q - d <= -1
    <3>1. w * (q - d) <= -w
      BY <1>1, <2>3
    <3> QED  BY <1>1, <2>1, <3>1
  <2> QED  BY <1>1, <2>2, <2>3
<1> QED  BY <1>1, <1>2 DEF m

LEMMA SumOfResidue ==
  ASSUME NEW w \in Nat \ {0}, NEW x \in Int, NEW y \in Int
  PROVE  ((x % w) + y) % w = (x + y) % w
<1> DEFINE d == x \div w
           m == x % w
           e == (m + y) \div w
           r == (m + y) % w
<1>1. d \in Int /\ m \in Int /\ x = w * d + m
  OBVIOUS
<1>2. e \in Int /\ r \in 0 .. (w - 1) /\ m + y = w * e + r
  BY <1>1
<1> HIDE DEF d, m, e, r
<1>3. x + y = w * (d + e) + r
  <2>1. w * (d + e) = w * d + w * e
    BY <1>1, <1>2
  <2> QED  BY <1>1, <1>2, <2>1
<1>4. d + e \in Int /\ x + y \in Int
  BY <1>1, <1>2
<1>5. (x + y) % w = r
  BY <1>2, <1>3, <1>4, Residue
<1> QED  BY <1>5 DEF r, m

LEMMA VolumesAreNumbers ==
  ASSUME NEW s, NEW now, Counted(s, now), NEW b
  PROVE  BucketOf(s, b).volume \in Nat /\ BucketOf(s, b).volume <= MaxAmount
BY DayAssumption DEF Counted, BucketOf, GetOr, EmptyBucket

LEMMA NothingBefore ==
  ASSUME NEW s, NEW now, Counted(s, now), NEW b \in Int, b <= 0 \/ b > now, now \in Nat
  PROVE  BucketOf(s, b).volume = 0
BY DEF Counted, BucketOf, GetOr, EmptyBucket

LEMMA VolumeIsANumber ==
  ASSUME NEW s, NEW now, Counted(s, now), NEW first \in Int, NEW last \in Int
  PROVE  VolumeOf(s, first .. last) \in Nat
<1>1. IsFiniteSet(first .. last)
  BY FS_Interval
<1>2. \A b \in first .. last : [c \in first .. last |-> BucketOf(s, c).volume][b] \in Nat
  BY VolumesAreNumbers
<1> QED  BY <1>1, <1>2, SumType DEF VolumeOf

(* A sum looks only at the buckets of its blocks. *)
LEMMA VolumeSame ==
  ASSUME NEW s, NEW t, NEW first \in Int, NEW last \in Int,
         \A b \in first .. last : BucketOf(s, b).volume = BucketOf(t, b).volume
  PROVE  VolumeOf(s, first .. last) = VolumeOf(t, first .. last)
<1>1. [b \in first .. last |-> BucketOf(s, b).volume] = [b \in first .. last |-> BucketOf(t, b).volume]
  OBVIOUS
<1> QED  BY <1>1 DEF VolumeOf

(* The sum over blocks, of which one is taken out. *)
LEMMA VolumeWithout ==
  ASSUME NEW s, NEW now, Counted(s, now), NEW days, IsFiniteSet(days), NEW d \in days
  PROVE  VolumeOf(s, days) = BucketOf(s, d).volume + VolumeOf(s, days \ {d})
<1> DEFINE f == [b \in days |-> BucketOf(s, b).volume]
           g == [b \in days \ {d} |-> BucketOf(s, b).volume]
<1>1. \A b \in days : f[b] \in Int
  BY VolumesAreNumbers
<1>2. f[d] = BucketOf(s, d).volume /\ \A b \in days \ {d} : f[b] = g[b]
  OBVIOUS
<1>3. IsFiniteSet(days \ {d})
  BY FS_Subset
<1> HIDE DEF f, g
<1>4. SumFunctionOnSet(f, days) = f[d] + SumFunctionOnSet(f, days \ {d})
  BY <1>1, SumRemove
<1>5. SumFunctionOnSet(f, days \ {d}) = SumFunctionOnSet(g, days \ {d})
  BY <1>2, <1>3, SumSame
<1>6. VolumeOf(s, days) = SumFunctionOnSet(f, days)
  BY DEF VolumeOf, f
<1>7. VolumeOf(s, days \ {d}) = SumFunctionOnSet(g, days \ {d})
  BY DEF VolumeOf, g
<1> QED  BY <1>2, <1>4, <1>5, <1>6, <1>7

LEMMA VolumeWithoutFirst ==
  ASSUME NEW s, NEW now, Counted(s, now), NEW first \in Int, NEW last \in Int, first <= last
  PROVE  VolumeOf(s, first .. last)
           = BucketOf(s, first).volume + VolumeOf(s, (first + 1) .. last)
<1> DEFINE days == first .. last
<1>1. IsFiniteSet(days) /\ first \in days
  BY FS_Interval
<1>2. days \ {first} = (first + 1) .. last
  OBVIOUS
<1> HIDE DEF days
<1>3. VolumeOf(s, days) = BucketOf(s, first).volume + VolumeOf(s, days \ {first})
  BY <1>1, VolumeWithout
<1> QED  BY <1>2, <1>3 DEF days

(* on_initialize: the day loses its first block. *)
LEMMA AgedVolume ==
  ASSUME NEW s, NEW now \in Nat, Counted(s, now), NEW first \in Int, NEW last \in Int,
         first <= last, SumsUp(s, first, last), NEW b \in Nat, b - BlocksPerDay = first
  PROVE  Counted(Aged(s, b), now) /\ SumsUp(Aged(s, b), first + 1, last)
<1> DEFINE a == Aged(s, b)
           sum == VolumeOf(s, first .. last)
           rest == VolumeOf(s, (first + 1) .. last)
           v == BucketOf(s, first).volume
<1>1. /\ Shaped(a) /\ a.buckets = s.buckets
      /\ a.volume = Minus(s.volume, BucketOf(s, b - BlocksPerDay).volume)
  BY DEF Aged, Shaped, Counted
<1>2. a.volume = (s.volume - v) % (MaxAmount + 1)
  BY <1>1 DEF Minus
<1>3. v \in Nat /\ sum \in Nat /\ rest \in Nat
  <2>1. v \in Nat
    BY VolumesAreNumbers
  <2>2. sum \in Nat
    BY VolumeIsANumber
  <2>3. first + 1 \in Int
    OBVIOUS
  <2>4. rest \in Nat
    BY <2>3, VolumeIsANumber
  <2> QED  BY <2>1, <2>2, <2>4
<1>4. sum = v + rest
  BY VolumeWithoutFirst
<1>5. a.volume = rest % (MaxAmount + 1)
  <2>1. s.volume = sum % (MaxAmount + 1)
    BY DEF SumsUp
  <2>2. MaxAmount + 1 \in Nat \ {0}
    BY DayAssumption
  <2> HIDE DEF sum, rest, v, a
  <2>3. ((sum % (MaxAmount + 1)) + (-v)) % (MaxAmount + 1) = (sum + (-v)) % (MaxAmount + 1)
    BY <1>3, <2>2, SumOfResidue
  <2>4. sum + (-v) = rest
    BY <1>3, <1>4
  <2>5. s.volume - v = (sum % (MaxAmount + 1)) + (-v)
    BY <1>3, <2>1, <2>2
  <2> QED  BY <1>2, <2>3, <2>4, <2>5
<1>6. \A c : BucketOf(a, c) = BucketOf(s, c)
  BY <1>1 DEF BucketOf
<1>7. VolumeOf(a, (first + 1) .. last) = rest
  <2>1. first + 1 \in Int
    OBVIOUS
  <2> QED  BY <1>6, <2>1, VolumeSame
<1>8. Counted(a, now)
  <2>1. a.volume \in 0 .. MaxAmount
    BY <1>3, <1>5, DayAssumption
  <2> QED  BY <1>1, <2>1 DEF Counted
<1> QED  BY <1>5, <1>7, <1>8 DEF SumsUp

(* on_finalize: the day gains a block at its end. *)
LEMMA ClosedVolume ==
  ASSUME NEW s, NEW now \in Nat, Counted(s, now), NEW first \in Int, first <= now,
         SumsUp(s, first, now - 1)
  PROVE  Counted(Closed(s, now), now) /\ SumsUp(Closed(s, now), first, now)
<1> DEFINE c == Closed(s, now)
           sum == VolumeOf(s, first .. (now - 1))
           all == VolumeOf(s, first .. now)
           v == BucketOf(s, now).volume
<1>1. Shaped(c) /\ c.buckets = s.buckets /\ c.volume = Plus(s.volume, v)
  BY DEF Closed, Shaped, Counted
<1>2. v \in Nat /\ sum \in Nat /\ all \in Nat
  <2>1. v \in Nat
    BY VolumesAreNumbers
  <2>2. now \in Int /\ now - 1 \in Int
    OBVIOUS
  <2>3. sum \in Nat
    BY <2>2, VolumeIsANumber
  <2>4. all \in Nat
    BY <2>2, VolumeIsANumber
  <2> QED  BY <2>1, <2>3, <2>4
<1>3. all = v + sum
  <2> DEFINE days == first .. now
  <2>1. IsFiniteSet(days) /\ now \in days
    BY FS_Interval
  <2>2. days \ {now} = first .. (now - 1)
    OBVIOUS
  <2> HIDE DEF days
  <2>3. VolumeOf(s, days) = v + VolumeOf(s, days \ {now})
    BY <2>1, VolumeWithout
  <2> QED  BY <2>2, <2>3 DEF days
<1>4. c.volume = all % (MaxAmount + 1)
  <2>1. s.volume = sum % (MaxAmount + 1)
    BY DEF SumsUp
  <2>2. MaxAmount + 1 \in Nat \ {0}
    BY DayAssumption
  <2>3. c.volume = (s.volume + v) % (MaxAmount + 1)
    BY <1>1 DEF Plus
  <2> HIDE DEF sum, all, v, c
  <2>4. ((sum % (MaxAmount + 1)) + v) % (MaxAmount + 1) = (sum + v) % (MaxAmount + 1)
    BY <1>2, <2>2, SumOfResidue
  <2>5. sum + v = all
    BY <1>2, <1>3
  <2> QED  BY <2>1, <2>3, <2>4, <2>5
<1>5. \A b : BucketOf(c, b) = BucketOf(s, b)
  BY <1>1 DEF BucketOf
<1>6. VolumeOf(c, first .. now) = all
  BY <1>5, VolumeSame
<1>7. Counted(c, now)
  <2>1. c.volume \in 0 .. MaxAmount
    BY <1>2, <1>4, DayAssumption
  <2> QED  BY <1>1, <2>1 DEF Counted
<1> QED  BY <1>4, <1>6, <1>7 DEF SumsUp

(* set_tp_market_data: the day does not yet count the block it changes. *)
LEMMA TradedVolume ==
  ASSUME NEW s, NEW now \in Nat \ {0}, Counted(s, now), NEW first \in Int,
         SumsUp(s, first, now - 1), NEW price, NEW n \in Nat
  PROVE  Counted(Traded(s, now, price, n), now) /\ SumsUp(Traded(s, now, price, n), first, now - 1)
<1> DEFINE t == Traded(s, now, price, n)
           bucket == BucketOf(s, now)
           new == [volume |-> Plus(bucket.volume, n),
                   high |-> IF bucket.high = NoPrice THEN price ELSE Max({bucket.high, price}),
                   low  |-> IF bucket.low = NoPrice THEN price ELSE Min({bucket.low, price})]
<1>1. Shaped(t) /\ t.volume = s.volume /\ t.buckets = Put(s.buckets, now, new)
  BY DEF Traded, Shaped, Counted
<1>2. new.volume \in 0 .. MaxAmount
  <2>1. bucket.volume \in Int
    BY VolumesAreNumbers
  <2>2. \A x, y \in Int : Plus(x, y) \in 0 .. MaxAmount
    BY PlusInRange
  <2>3. n \in Int
    OBVIOUS
  <2> HIDE DEF bucket
  <2>4. Plus(bucket.volume, n) \in 0 .. MaxAmount
    BY ONLY <2>1, <2>2, <2>3
  <2> QED  BY <2>4
<1> HIDE DEF t, new
<1>3. /\ DOMAIN t.buckets = DOMAIN s.buckets \cup {now} /\ t.buckets[now] = new
      /\ \A b \in DOMAIN s.buckets \ {now} : t.buckets[b] = s.buckets[b]
  BY <1>1 DEF Put
<1>4. Counted(t, now)
  BY <1>1, <1>2, <1>3 DEF Counted
<1>5. \A b : b # now => BucketOf(t, b) = BucketOf(s, b)
  BY <1>3 DEF BucketOf, GetOr
<1>6. VolumeOf(t, first .. (now - 1)) = VolumeOf(s, first .. (now - 1))
  <2>1. \A b \in first .. (now - 1) : BucketOf(t, b).volume = BucketOf(s, b).volume
    BY <1>5
  <2>2. now - 1 \in Int
    OBVIOUS
  <2> QED  BY <2>1, <2>2, VolumeSame
<1> QED  BY <1>1, <1>4, <1>6 DEF SumsUp, t

(* A pair that no trade has been made in. *)
LEMMA EmptyVolume ==
  ASSUME NEW now \in Nat, NEW first \in Int, NEW last \in Int
  PROVE  Counted(EmptyStats, now) /\ SumsUp(EmptyStats, first, last)
<1>1. Counted(EmptyStats, now) /\ EmptyStats.volume = 0
  BY DayAssumption DEF Counted, Shaped, EmptyStats, EmptyMap
<1>2. \A b : BucketOf(EmptyStats, b).volume = 0
  BY DEF BucketOf, GetOr, EmptyStats, EmptyMap, EmptyBucket
<1>3. VolumeOf(EmptyStats, first .. last) = 0
  <2>1. \A b \in first .. last : [c \in first .. last |-> BucketOf(EmptyStats, c).volume][b] = 0
    BY <1>2
  <2> QED  BY <2>1, FS_Interval, SumOfZeros DEF VolumeOf
<1>4. 0 % (MaxAmount + 1) = 0
  BY DayAssumption
<1> QED  BY <1>1, <1>3, <1>4 DEF SumsUp

(* A block that is a day old and that there never was. *)
LEMMA VolumeBeforeFirst ==
  ASSUME NEW s, NEW now \in Nat, Counted(s, now), NEW first \in Int, NEW last \in Int,
         first <= last, first <= 0, SumsUp(s, first, last)
  PROVE  SumsUp(s, first + 1, last)
<1>1. BucketOf(s, first).volume = 0
  BY NothingBefore
<1>2. VolumeOf(s, first .. last) = BucketOf(s, first).volume + VolumeOf(s, (first + 1) .. last)
  BY VolumeWithoutFirst
<1>3. first + 1 \in Int
  OBVIOUS
<1>4. VolumeOf(s, (first + 1) .. last) \in Nat
  BY <1>3, VolumeIsANumber
<1> QED  BY <1>1, <1>2, <1>4 DEF SumsUp
-----------------------------------------------------------------------------
(* The hooks and set_tp_market_data, for all pairs at once. *)

Clock == block \in Nat /\ inBlock \in BOOLEAN /\ (inBlock => block > 0)

VolumesKept(st) ==
  \A p \in DOMAIN st : Counted(st[p], block) /\ SumsUp(st[p], FirstOfDay, LastClosed)

LEMMA DayIsInLine ==
  ASSUME Clock
  PROVE  FirstOfDay \in Int /\ LastClosed \in Nat /\ FirstOfDay <= LastClosed + 1
BY DayAssumption DEF Clock, FirstOfDay, LastClosed, DayLength

LEMMA InitializeKeepsVolumes ==
  ASSUME Clock, VolumesKept(stats), OnInitialize
  PROVE  Clock' /\ VolumesKept(stats)'
<1>1. /\ block \in Nat /\ block' = block + 1 /\ ~inBlock /\ inBlock' = TRUE
      /\ LastClosed = block /\ LastClosed' = block
      /\ FirstOfDay = block - BlocksPerDay + 1 /\ FirstOfDay' = FirstOfDay + 1
      /\ FirstOfDay \in Int /\ FirstOfDay <= block
  BY DayAssumption DEF Clock, OnInitialize, LastClosed, FirstOfDay, DayLength
<1>2. Clock'
  BY <1>1 DEF Clock
<1> DEFINE first == FirstOfDay
<1>3. first \in Int /\ first <= block /\ first = block + 1 - BlocksPerDay /\ FirstOfDay' = first + 1
  BY <1>1, DayAssumption
<1>4. \A p \in DOMAIN stats : Counted(stats[p], block) /\ SumsUp(stats[p], first, block)
  BY <1>1 DEF VolumesKept
<1> HIDE DEF first
<1>5. ASSUME NEW s, Counted(s, block) PROVE Counted(s, block')
  BY <1>1, <1>5 DEF Counted
<1>6. CASE block' <= BlocksPerDay
  <2>1. stats' = stats /\ first <= 0
    BY <1>1, <1>3, <1>6, DayAssumption DEF OnInitialize
  <2>2. ASSUME NEW p \in DOMAIN stats
        PROVE  Counted(stats[p], block') /\ SumsUp(stats[p], first + 1, block)
    <3>1. Counted(stats[p], block) /\ SumsUp(stats[p], first, block)
      BY <1>4
    <3>2. SumsUp(stats[p], first + 1, block)
      BY <1>1, <1>3, <2>1, <3>1, VolumeBeforeFirst
    <3> QED  BY <1>5, <3>1, <3>2
  <2> QED  BY <1>1, <1>2, <1>3, <2>1, <2>2 DEF VolumesKept
<1>7. CASE ~(block' <= BlocksPerDay)
  <2>1. stats' = [p \in DOMAIN stats |-> Aged(stats[p], block')]
    BY <1>7 DEF OnInitialize
  <2>2. ASSUME NEW p \in DOMAIN stats
        PROVE  Counted(stats'[p], block') /\ SumsUp(stats'[p], first + 1, block)
    <3>1. Counted(stats[p], block) /\ SumsUp(stats[p], first, block)
      BY <1>4
    <3>2. block' \in Nat /\ block' - BlocksPerDay = first
      BY <1>1, <1>3, DayAssumption
    <3>3. Counted(Aged(stats[p], block'), block) /\ SumsUp(Aged(stats[p], block'), first + 1, block)
      BY <1>1, <1>3, <3>1, <3>2, AgedVolume
    <3> QED  BY <1>5, <2>1, <3>3
  <2> QED  BY <1>1, <1>2, <1>3, <2>1, <2>2 DEF VolumesKept
<1> QED  BY <1>6, <1>7

LEMMA FinalizeKeepsVolumes ==
  ASSUME Clock, VolumesKept(stats), OnFinalize
  PROVE  Clock' /\ VolumesKept(stats)'
<1> DEFINE first == FirstOfDay
<1>1. /\ block \in Nat /\ block' = block /\ inBlock /\ inBlock' = FALSE
      /\ LastClosed = block - 1 /\ LastClosed' = block
      /\ first \in Int /\ FirstOfDay' = first /\ first <= block
  BY DayAssumption DEF Clock, OnFinalize, LastClosed, FirstOfDay, DayLength
<1>2. Clock'
  BY <1>1 DEF Clock
<1>3. stats' = [p \in DOMAIN stats |-> Closed(stats[p], block)]
  BY DEF OnFinalize
<1>4. \A p \in DOMAIN stats : Counted(stats[p], block) /\ SumsUp(stats[p], first, block - 1)
  BY <1>1 DEF VolumesKept
<1> HIDE DEF first
<1>5. ASSUME NEW p \in DOMAIN stats
      PROVE  Counted(stats'[p], block) /\ SumsUp(stats'[p], first, block)
  <2>1. Counted(stats[p], block) /\ SumsUp(stats[p], first, block - 1)
    BY <1>4
  <2>2. Counted(Closed(stats[p], block), block) /\ SumsUp(Closed(stats[p], block), first, block)
    BY <1>1, <2>1, ClosedVolume
  <2> QED  BY <1>3, <2>2
<1> QED  BY <1>1, <1>2, <1>3, <1>5 DEF VolumesKept

LEMMA NewPairKeepsVolumes ==
  ASSUME Clock, VolumesKept(stats), NEW p, NewPair(p)
  PROVE  Clock' /\ VolumesKept(stats)'
<1>1. /\ Clock' /\ block' = block /\ FirstOfDay' = FirstOfDay /\ LastClosed' = LastClosed
      /\ block \in Nat /\ FirstOfDay \in Int /\ LastClosed \in Int
  BY DayAssumption DEF NewPair, Clock, FirstOfDay, LastClosed, DayLength
<1>2. /\ DOMAIN stats' = DOMAIN stats \cup {p}
      /\ \A q \in DOMAIN stats' : stats'[q] = IF q = p THEN EmptyStats ELSE stats[q]
  BY DEF NewPair, Put
<1>3. Counted(EmptyStats, block) /\ SumsUp(EmptyStats, FirstOfDay, LastClosed)
  BY <1>1, EmptyVolume
<1> QED  BY <1>1, <1>2, <1>3 DEF VolumesKept

LEMMA TradeKeepsVolumes ==
  ASSUME Clock, inBlock, VolumesKept(stats), NEW p, NEW price, NEW n \in Nat,
         SetMarketData(p, price, n)
  PROVE  Clock' /\ VolumesKept(stats)'
<1> DEFINE first == FirstOfDay
<1>1. /\ Clock' /\ block' = block /\ FirstOfDay' = first /\ LastClosed' = LastClosed
      /\ block \in Nat \ {0} /\ first \in Int /\ LastClosed = block - 1
  BY DayAssumption DEF SetMarketData, Clock, FirstOfDay, LastClosed, DayLength
<1>2. /\ p \in DOMAIN stats /\ DOMAIN stats' = DOMAIN stats
      /\ \A q \in DOMAIN stats :
           stats'[q] = IF q = p THEN Traded(stats[p], block, price, n) ELSE stats[q]
  BY DEF SetMarketData
<1>3. \A q \in DOMAIN stats : Counted(stats[q], block) /\ SumsUp(stats[q], first, block - 1)
  BY <1>1 DEF VolumesKept
<1> HIDE DEF first
<1>4. /\ Counted(Traded(stats[p], block, price, n), block)
      /\ SumsUp(Traded(stats[p], block, price, n), first, block - 1)
  BY <1>1, <1>2, <1>3, TradedVolume
<1> QED  BY <1>1, <1>2, <1>3, <1>4 DEF VolumesKept

LEMMA VolumesAtFirst ==
  ASSUME Init
  PROVE  Clock /\ VolumesKept(stats)
BY DEF Init, Clock, VolumesKept, EmptyMap

(* A step of the specification; it is a step of those four. *)
LEMMA VolumesStay ==
  ASSUME Clock, VolumesKept(stats), [Next]_marketVars
  PROVE  (Clock /\ VolumesKept(stats))'
<1>1. CASE OnInitialize
  BY <1>1, InitializeKeepsVolumes
<1>2. CASE OnFinalize
  BY <1>2, FinalizeKeepsVolumes
<1>3. CASE \E p \in Pairs \ DOMAIN stats : inBlock /\ NewPair(p)
  BY <1>3, NewPairKeepsVolumes
<1>4. CASE \E p \in DOMAIN stats, price \in TradePrices, n \in TradeAmounts :
             inBlock /\ SetMarketData(p, price, n)
  BY <1>4, TradeKeepsVolumes, DayAssumption
<1>5. CASE UNCHANGED marketVars
  BY <1>5 DEF marketVars, Clock, VolumesKept, FirstOfDay, LastClosed, DayLength
<1> QED  BY <1>1, <1>2, <1>3, <1>4, <1>5 DEF Next

(* The blocks of the day, as the property counts them. *)
LEMMA BlocksOfDay ==
  ASSUME Clock
  PROVE  Closeds(IF inBlock THEN BlocksPerDay - 1 ELSE BlocksPerDay) = FirstOfDay .. LastClosed
BY DayAssumption DEF Clock, Closeds, FirstOfDay, LastClosed, DayLength

(* The volume on_finalize and on_initialize keep is, in the arithmetic of  *)
(* its width, the sum of the last day's buckets, whatever wrapped before.  *)
VolumeInItsWidth ==
  \A p \in DOMAIN stats :
    LET day == Closeds(IF inBlock THEN BlocksPerDay - 1 ELSE BlocksPerDay) IN
    stats[p].volume = VolumeOf(stats[p], day) % (MaxAmount + 1)

LEMMA VolumesKeptMeans ==
  ASSUME Clock, VolumesKept(stats)
  PROVE  VolumeInItsWidth
BY BlocksOfDay DEF VolumesKept, SumsUp, VolumeInItsWidth

(* What is traded in a day fits the width of the volume. *)
DayFits ==
  \A p \in DOMAIN stats :
    VolumeOf(stats[p], Closeds(IF inBlock THEN BlocksPerDay - 1 ELSE BlocksPerDay)) <= MaxAmount

LEMMA VolumesThatFit ==
  ASSUME Clock, VolumesKept(stats), DayFits
  PROVE  VolumeIsOfLastDay
<1> DEFINE day == Closeds(IF inBlock THEN BlocksPerDay - 1 ELSE BlocksPerDay)
<1>1. SUFFICES ASSUME NEW p \in DOMAIN stats
               PROVE  stats[p].volume = VolumeOf(stats[p], day)
  BY DEF VolumeIsOfLastDay, VolumeOf
<1>2. Counted(stats[p], block) /\ stats[p].volume = VolumeOf(stats[p], day) % (MaxAmount + 1)
  BY VolumesKeptMeans DEF VolumesKept, VolumeInItsWidth
<1>3. VolumeOf(stats[p], day) \in Nat
  <2>1. FirstOfDay \in Int /\ LastClosed \in Int
    BY DayIsInLine
  <2>2. VolumeOf(stats[p], FirstOfDay .. LastClosed) \in Nat
    BY <1>2, <2>1, VolumeIsANumber
  <2> QED  BY <2>2, BlocksOfDay
<1>4. VolumeOf(stats[p], day) <= MaxAmount
  BY DEF DayFits
<1> HIDE DEF day
<1> QED  BY <1>2, <1>3, <1>4, DayAssumption
-----------------------------------------------------------------------------
(* How much is traded in a day, when no block trades more than its bound.  *)

LEMMA SumIsBounded ==
  ASSUME NEW S, IsFiniteSet(S), NEW k \in Nat, NEW f, \A x \in S : f[x] \in Nat /\ f[x] <= k
  PROVE  SumFunctionOnSet(f, S) <= Cardinality(S) * k
<1> DEFINE Good == {T \in SUBSET S : SumFunctionOnSet(f, T) <= Cardinality(T) * k}
<1>1. {} \in Good
  BY SumOfNone, FS_EmptySet
<1>2. ASSUME NEW T \in SUBSET S, T # {}, T \ {Chosen(T)} \in Good
      PROVE  T \in Good
  <2> DEFINE U == T \ {Chosen(T)}
             n == Cardinality(U)
             a == SumFunctionOnSet(f, U)
             b == SumFunctionOnSet(f, T)
  <2>1. IsFiniteSet(T) /\ IsFiniteSet(U) /\ Chosen(T) \in T
    BY <1>2, FS_Subset, ChosenIn
  <2>2. b = f[Chosen(T)] + a
    BY <1>2, <2>1, SumOfChosen
  <2>3. n \in Nat /\ Cardinality(T) = n + 1
    <3>1. Cardinality(T) \in Nat /\ n \in Nat /\ n = Cardinality(T) - 1
      BY <2>1, FS_CardinalityType, FS_RemoveElement
    <3> QED  BY <3>1
  <2>4. a \in Nat
    BY <2>1, SumType
  <2>5. a <= n * k /\ f[Chosen(T)] \in Nat /\ f[Chosen(T)] <= k
    BY <1>2, <2>1
  <2> HIDE DEF n, a, b
  <2>6. (n + 1) * k = n * k + k
    BY <2>3
  <2>7. n * k \in Nat
    BY <2>3
  <2>8. b <= (n + 1) * k
    BY <2>2, <2>4, <2>5, <2>6, <2>7
  <2> QED  BY <2>3, <2>8 DEF b
<1> HIDE DEF Good
<1>3. S \in Good
  BY <1>1, <1>2, ChosenInduction
<1> QED  BY <1>3 DEF Good

BlocksBounded ==
  \A p \in DOMAIN stats : \A b \in DOMAIN stats[p].buckets :
    stats[p].buckets[b].volume <= MaxBlockVolume

DayIsBounded == MaxBlockVolume \in Nat /\ BlocksPerDay * MaxBlockVolume <= MaxAmount

LEMMA BlockFits ==
  ASSUME DayIsBounded
  PROVE  MaxBlockVolume <= MaxAmount
<1>1. BlocksPerDay * MaxBlockVolume >= MaxBlockVolume
  BY DayAssumption DEF DayIsBounded
<1>2. BlocksPerDay * MaxBlockVolume \in Nat
  BY DayAssumption DEF DayIsBounded
<1> QED  BY <1>1, <1>2, DayAssumption DEF DayIsBounded

LEMMA BlocksStayBounded ==
  ASSUME DayIsBounded, Clock, VolumesKept(stats), BlocksBounded, [Next]_marketVars
  PROVE  BlocksBounded'
<1>1. \A p \in DOMAIN stats : Shaped(stats[p])
  BY DEF VolumesKept, Counted
<1>2. CASE OnInitialize
  <2>1. \A p \in DOMAIN stats : Aged(stats[p], block').buckets = stats[p].buckets
    BY <1>1 DEF Aged, Shaped
  <2> QED  BY <1>2, <2>1 DEF OnInitialize, BlocksBounded
<1>3. CASE OnFinalize
  <2>1. \A p \in DOMAIN stats : Closed(stats[p], block).buckets = stats[p].buckets
    BY <1>1 DEF Closed, Shaped
  <2> QED  BY <1>3, <2>1 DEF OnFinalize, BlocksBounded
<1>4. ASSUME NEW p \in Pairs, NewPair(p) PROVE BlocksBounded'
  BY <1>4 DEF NewPair, Put, EmptyStats, EmptyMap, BlocksBounded
<1>5. ASSUME NEW p \in DOMAIN stats, NEW price \in TradePrices, NEW n \in TradeAmounts,
             BucketOf(stats[p], block).volume + n <= MaxBlockVolume, SetMarketData(p, price, n)
      PROVE  BlocksBounded'
  <2> DEFINE bucket == BucketOf(stats[p], block)
             new == [volume |-> Plus(bucket.volume, n),
                     high |-> IF bucket.high = NoPrice THEN price ELSE Max({bucket.high, price}),
                     low  |-> IF bucket.low = NoPrice THEN price ELSE Min({bucket.low, price})]
             t == Traded(stats[p], block, price, n)
  <2>1. bucket.volume \in Nat /\ n \in Nat
    <3>1. Counted(stats[p], block)
      BY DEF VolumesKept
    <3> QED  BY <3>1, VolumesAreNumbers, DayAssumption
  <2>2. Plus(bucket.volume, n) <= MaxBlockVolume
    <3>1. bucket.volume + n \in 0 .. MaxAmount /\ bucket.volume + n <= MaxBlockVolume
      BY <1>5, <2>1, BlockFits, DayAssumption DEF DayIsBounded
    <3> HIDE DEF bucket
    <3>2. (bucket.volume + n) % (MaxAmount + 1) = bucket.volume + n
      BY <2>1, <3>1, DayAssumption
    <3> QED  BY <3>1, <3>2 DEF Plus
  <2>3. t.buckets = Put(stats[p].buckets, block, new)
    BY <1>1 DEF Traded, Shaped
  <2>4. new.volume <= MaxBlockVolume
    BY <2>2
  <2>5. stats' = [stats EXCEPT ![p] = t]
    BY <1>5 DEF SetMarketData
  <2> HIDE DEF new, t
  <2>6. \A b \in DOMAIN t.buckets : t.buckets[b].volume <= MaxBlockVolume
    BY <2>3, <2>4 DEF Put, BlocksBounded
  <2> QED  BY <2>5, <2>6 DEF BlocksBounded
<1>6. CASE UNCHANGED marketVars
  BY <1>6 DEF marketVars, BlocksBounded
<1> QED  BY <1>2, <1>3, <1>4, <1>5, <1>6 DEF Next

LEMMA BoundedDayFits ==
  ASSUME DayIsBounded, Clock, VolumesKept(stats), BlocksBounded
  PROVE  DayFits
<1> DEFINE day == Closeds(IF inBlock THEN BlocksPerDay - 1 ELSE BlocksPerDay)
<1>1. SUFFICES ASSUME NEW p \in DOMAIN stats PROVE VolumeOf(stats[p], day) <= MaxAmount
  BY DEF DayFits
<1> DEFINE f == [b \in day |-> BucketOf(stats[p], b).volume]
<1>2. IsFiniteSet(day) /\ Cardinality(day) \in Nat /\ Cardinality(day) <= BlocksPerDay
  <2>1. /\ day = FirstOfDay .. LastClosed /\ FirstOfDay \in Int /\ LastClosed \in Int
        /\ LastClosed - FirstOfDay + 1 <= BlocksPerDay
    BY BlocksOfDay, DayIsInLine, DayAssumption DEF FirstOfDay, DayLength
  <2>2. /\ IsFiniteSet(FirstOfDay .. LastClosed)
        /\ Cardinality(FirstOfDay .. LastClosed) =
             IF FirstOfDay > LastClosed THEN 0 ELSE LastClosed - FirstOfDay + 1
    BY ONLY <2>1, FS_Interval
  <2> HIDE DEF day
  <2> QED  BY <2>1, <2>2, DayAssumption
<1>3. Counted(stats[p], block)
  BY DEF VolumesKept
<1>4. \A b \in day : f[b] \in Nat /\ f[b] <= MaxBlockVolume
  <2>1. \A b : BucketOf(stats[p], b).volume \in Nat
    BY <1>3, VolumesAreNumbers
  <2>2. \A b : BucketOf(stats[p], b).volume <= MaxBlockVolume
    BY DEF BlocksBounded, BucketOf, GetOr, EmptyBucket, DayIsBounded
  <2> QED  BY <2>1, <2>2
<1>5. VolumeOf(stats[p], day) = SumFunctionOnSet(f, day)
  BY DEF VolumeOf
<1> HIDE DEF day, f
<1>6. SumFunctionOnSet(f, day) <= Cardinality(day) * MaxBlockVolume
  BY <1>2, <1>4, SumIsBounded DEF DayIsBounded
<1>7. Cardinality(day) * MaxBlockVolume <= BlocksPerDay * MaxBlockVolume
  BY <1>2, DayAssumption DEF DayIsBounded
<1>8. SumFunctionOnSet(f, day) \in Nat
  BY <1>2, <1>4, SumType
<1>9. Cardinality(day) * MaxBlockVolume \in Nat /\ BlocksPerDay * MaxBlockVolume \in Nat
  BY <1>2, DayAssumption DEF DayIsBounded
<1> QED  BY <1>5, <1>6, <1>7, <1>8, <1>9, DayAssumption DEF DayIsBounded

(* Whatever is traded, in however many blocks: the volume of a pair is that*)
(* of its last day, in the arithmetic of its width.  What was subtracted   *)
(* below zero or added above the width has been made good a day later.     *)
THEOREM VolumeFollowsTheDay == Spec => []VolumeInItsWidth
<1>1. Init => Clock /\ VolumesKept(stats)
  BY VolumesAtFirst
<1>2. Clock /\ VolumesKept(stats) /\ [Next]_marketVars => (Clock /\ VolumesKept(stats))'
  BY VolumesStay
<1>3. Clock /\ VolumesKept(stats) => VolumeInItsWidth
  BY VolumesKeptMeans
<1> QED  BY <1>1, <1>2, <1>3, PTL DEF Spec

(* Where a day of the busiest blocks fits the width, the volume is exactly *)
(* the sum of the buckets of the last day.                                 *)
THEOREM VolumeIsTheDays ==
  ASSUME DayIsBounded
  PROVE  Spec => []VolumeIsOfLastDay
<1> DEFINE Kept == Clock /\ VolumesKept(stats) /\ BlocksBounded
<1>1. Init => Kept
  BY VolumesAtFirst DEF Init, EmptyMap, BlocksBounded
<1>2. Kept /\ [Next]_marketVars => Kept'
  BY VolumesStay, BlocksStayBounded
<1>3. Kept => VolumeIsOfLastDay
  BY BoundedDayFits, VolumesThatFit
<1> HIDE DEF Kept
<1> QED  BY <1>1, <1>2, <1>3, PTL DEF Spec
-----------------------------------------------------------------------------
(* What the buckets of a pair make of its trades: of the set P of their    *)
(* prices, of the price of the last one and of the total of their amounts. *)
TotalOf(s) == SumFunctionOnSet([b \in DOMAIN s.buckets |-> s.buckets[b].volume], DOMAIN s.buckets)

PricesOf(s, P, last) ==
  /\ s.latest = last
  /\ \A x \in P : /\ \E b \in DOMAIN s.buckets : x <= s.buckets[b].high
                  /\ \E b \in DOMAIN s.buckets : s.buckets[b].low <= x
  /\ \A b \in DOMAIN s.buckets : {s.buckets[b].high, s.buckets[b].low} \subseteq P

(* The total of the buckets may wrap, once that of the trades does not fit.*)
Recorded(s, P, last, total) ==
  /\ Shaped(s) /\ IsFiniteSet(DOMAIN s.buckets)
  /\ \A b \in DOMAIN s.buckets : s.buckets[b].volume \in Nat
  /\ total <= MaxAmount => TotalOf(s) = total
  /\ PricesOf(s, P, last)

LEMMA NothingRecorded == Recorded(EmptyStats, {}, NoPrice, 0)
<1>1. Shaped(EmptyStats) /\ EmptyStats.latest = NoPrice /\ EmptyStats.buckets = EmptyMap
  BY DEF EmptyStats, Shaped
<1>2. DOMAIN EmptyStats.buckets = {}
  BY <1>1 DEF EmptyMap
<1>3. IsFiniteSet({})
  BY FS_EmptySet
<1>4. TotalOf(EmptyStats) = 0
  BY <1>2, SumOfNone DEF TotalOf
<1> QED  BY <1>1, <1>2, <1>3, <1>4 DEF Recorded, PricesOf

(* The hooks write neither the buckets nor the latest price. *)
LEMMA HooksKeepBuckets ==
  ASSUME OnInitialize \/ OnFinalize, NEW p \in DOMAIN stats, NEW P, NEW last, NEW total,
         Recorded(stats[p], P, last, total)
  PROVE  p \in DOMAIN stats' /\ Recorded(stats'[p], P, last, total)
<1>1. ASSUME NEW s, NEW now, Shaped(s)
      PROVE  /\ Shaped(Aged(s, now)) /\ Aged(s, now).latest = s.latest
             /\ Aged(s, now).buckets = s.buckets
             /\ Shaped(Closed(s, now)) /\ Closed(s, now).latest = s.latest
             /\ Closed(s, now).buckets = s.buckets
  BY <1>1 DEF Shaped, Aged, Closed
<1>2. Shaped(stats[p])
  BY DEF Recorded
<1>3. /\ p \in DOMAIN stats' /\ Shaped(stats'[p])
      /\ stats'[p].latest = stats[p].latest /\ stats'[p].buckets = stats[p].buckets
  BY <1>1, <1>2 DEF OnInitialize, OnFinalize
<1> DEFINE s == stats[p]
           t == stats'[p]
<1> HIDE DEF s, t
<1>4. Recorded(s, P, last, total) /\ Shaped(t) /\ t.latest = s.latest /\ t.buckets = s.buckets
  BY <1>3 DEF s, t
<1>5. Recorded(t, P, last, total)
  BY <1>4 DEF Recorded, PricesOf, TotalOf
<1> QED  BY <1>3, <1>5 DEF t

LEMMA TradedTotal ==
  ASSUME NEW s, NEW P, NEW last, NEW total \in Nat, Recorded(s, P, last, total),
         NEW t, NEW now, NEW n \in Nat, NEW volume, volume = Plus(BucketOf(s, now).volume, n),
         DOMAIN t.buckets = DOMAIN s.buckets \cup {now}, t.buckets[now].volume = volume,
         \A b \in DOMAIN s.buckets \ {now} : t.buckets[b] = s.buckets[b],
         total + n <= MaxAmount
  PROVE  TotalOf(t) = total + n
<1> DEFINE S == DOMAIN s.buckets
           f == [b \in S |-> s.buckets[b].volume]
           g == [b \in S \cup {now} |-> t.buckets[b].volume]
           old == BucketOf(s, now).volume
<1>0. total <= MaxAmount
  BY DayAssumption
<1>1. /\ IsFiniteSet(S) /\ \A b \in S : s.buckets[b].volume \in Nat
      /\ SumFunctionOnSet(f, S) = total
  BY <1>0 DEF Recorded, TotalOf
<1>2. TotalOf(t) = SumFunctionOnSet(g, S \cup {now})
  BY DEF TotalOf
<1>3. MaxAmount \in Nat
  BY DayAssumption
<1>4. old \in Nat /\ (now \notin S => old = 0) /\ (now \in S => old = f[now])
  BY <1>1 DEF BucketOf, GetOr, EmptyBucket
<1>5. old <= total
  <2>1. CASE now \in S
    <3>1. \A b \in S : f[b] \in Nat
      BY <1>1
    <3> HIDE DEF f, S, old
    <3>2. f[now] <= SumFunctionOnSet(f, S)
      BY <1>1, <2>1, <3>1, SumCovers
    <3> QED  BY <1>1, <1>4, <2>1, <3>2
  <2> QED  BY <1>4, <2>1
<1>6. volume = old + n
  <2> HIDE DEF old
  <2>1. old + n \in 0 .. MaxAmount
    BY <1>3, <1>4, <1>5
  <2>2. volume = (old + n) % (MaxAmount + 1)
    BY DEF Plus, old
  <2> QED  BY <1>3, <2>1, <2>2
<1>7. /\ \A b \in S : f[b] \in Nat /\ (b # now => g[b] = f[b])
      /\ g[now] = volume /\ volume \in Nat
  BY <1>1, <1>4, <1>6
<1>8. \A b \in S \cup {now} : g[b] \in Int
  <2> HIDE DEF f, g, S
  <2> SUFFICES ASSUME NEW b \in S \cup {now} PROVE g[b] \in Int
    OBVIOUS
  <2> QED  BY <1>7
<1>9. CASE now \in S
  <2>1. S \cup {now} = S
    BY <1>9
  <2> HIDE DEF f, g, S, old
  <2>2. SumFunctionOnSet(g, S) = SumFunctionOnSet(f, S) + (g[now] - f[now])
    BY <1>1, <1>7, <1>8, <1>9, <2>1, SumChangeOne
  <2>3. TotalOf(t) = total + (volume - old) /\ old \in Nat /\ volume = old + n
    BY ONLY <1>1, <1>2, <1>4, <1>6, <1>7, <1>9, <2>1, <2>2
  <2> QED  BY ONLY <2>3, total \in Nat, n \in Nat
<1>10. CASE now \notin S
  <2> HIDE DEF f, g, S, old
  <2>1. \A b \in S : f[b] = g[b]
    BY <1>7, <1>10
  <2>2. SumFunctionOnSet(g, S \cup {now}) = SumFunctionOnSet(f, S) + g[now]
    BY ONLY <1>1, <1>8, <1>10, <2>1, SumWithOne
  <2>3. TotalOf(t) = total + (0 + n)
    BY ONLY <1>1, <1>2, <1>4, <1>6, <1>7, <1>10, <2>2
  <2> QED  BY ONLY <2>3, n \in Nat
<1> QED  BY <1>9, <1>10

(* set_tp_market_data adds one trade. *)
LEMMA TradeIsRecorded ==
  ASSUME NEW s, NEW P \in SUBSET Int, NEW last, NEW total \in Nat, Recorded(s, P, last, total),
         NEW now, NEW price \in Int, NEW n \in Nat
  PROVE  Recorded(Traded(s, now, price, n), P \cup {price}, price, total + n)
<1> DEFINE t == Traded(s, now, price, n)
           bucket == BucketOf(s, now)
           volume == Plus(bucket.volume, n)
           high == IF bucket.high = NoPrice THEN price ELSE Max({bucket.high, price})
           low == IF bucket.low = NoPrice THEN price ELSE Min({bucket.low, price})
           new == [volume |-> volume, high |-> high, low |-> low]
<1>1. Shaped(t) /\ t.latest = price /\ t.buckets = Put(s.buckets, now, new)
  BY DEF Traded, Shaped, Recorded
<1>2. new.volume = volume /\ new.high = high /\ new.low = low
  OBVIOUS
<1> HIDE DEF t, new
<1>3. /\ DOMAIN t.buckets = DOMAIN s.buckets \cup {now} /\ t.buckets[now] = new
      /\ \A b \in DOMAIN s.buckets \ {now} : t.buckets[b] = s.buckets[b]
  BY <1>1 DEF Put
<1>4. IsFiniteSet(DOMAIN t.buckets)
  BY <1>3, FS_AddElement DEF Recorded
<1>5. \A b \in DOMAIN t.buckets : t.buckets[b].volume \in Nat
  <2>1. bucket.volume \in Int
    BY DEF Recorded, BucketOf, GetOr, EmptyBucket
  <2>2. \A x, y \in Int : Plus(x, y) \in Nat
    <3>1. \A x, y \in Int : Plus(x, y) \in 0 .. MaxAmount
      BY PlusInRange
    <3>2. 0 .. MaxAmount \subseteq Nat
      OBVIOUS
    <3> QED  BY ONLY <3>1, <3>2
  <2>3. volume \in Nat
    <3>1. n \in Int
      OBVIOUS
    <3> HIDE DEF bucket
    <3> QED  BY ONLY <2>1, <2>2, <3>1
  <2> HIDE DEF volume
  <2> QED  BY <1>2, <1>3, <2>3 DEF Recorded
<1>6. total + n <= MaxAmount => TotalOf(t) = total + n
  <2>1. volume = Plus(BucketOf(s, now).volume, n) /\ t.buckets[now].volume = volume
    BY <1>2, <1>3
  <2> HIDE DEF volume, bucket
  <2> QED  BY <1>3, <2>1, TradedTotal
<1>7. /\ high \in P \cup {price} /\ low \in P \cup {price} /\ price <= high /\ low <= price
      /\ now \in DOMAIN s.buckets => s.buckets[now].high <= high /\ low <= s.buckets[now].low
  <2>1. CASE now \notin DOMAIN s.buckets
    <3>1. bucket.high = NoPrice /\ bucket.low = NoPrice
      BY <2>1 DEF BucketOf, GetOr, EmptyBucket
    <3> QED  BY <2>1, <3>1
  <2>2. CASE now \in DOMAIN s.buckets
    <3>1. /\ bucket = s.buckets[now] /\ bucket.high \in P /\ bucket.low \in P
      BY <2>2 DEF BucketOf, GetOr, Recorded, PricesOf
    <3>2. bucket.high \in Int /\ bucket.low \in Int
      BY <3>1
    <3> DEFINE x == bucket.high
               y == bucket.low
    <3>3. /\ Max({x, price}) \in {x, price} /\ x <= Max({x, price}) /\ price <= Max({x, price})
      BY <3>2, ExtremesOfTwo
    <3>4. /\ Min({y, price}) \in {y, price} /\ Min({y, price}) <= y /\ Min({y, price}) <= price
      BY <3>2, ExtremesOfTwo
    <3>5. x # NoPrice /\ y # NoPrice
      BY <3>2, DayAssumption
    <3>6. high = Max({x, price}) /\ low = Min({y, price})
      BY <3>5
    <3> HIDE DEF bucket, high, low
    <3> QED  BY <3>1, <3>3, <3>4, <3>6
  <2> QED  BY <2>1, <2>2
<1> HIDE DEF high, low, bucket, volume
<1>8. PricesOf(t, P \cup {price}, price)
  <2>1. PricesOf(s, P, last)
    BY DEF Recorded
  <2>2. now \in DOMAIN t.buckets /\ t.buckets[now].high = high /\ t.buckets[now].low = low
    BY <1>2, <1>3
  <2>3. high \in Int /\ low \in Int
    BY <1>7
  <2>4. \A b \in DOMAIN s.buckets :
          /\ b \in DOMAIN t.buckets /\ s.buckets[b].high \in Int /\ s.buckets[b].low \in Int
          /\ t.buckets[b].high \in Int /\ t.buckets[b].low \in Int
          /\ s.buckets[b].high <= t.buckets[b].high /\ t.buckets[b].low <= s.buckets[b].low
    <3>1. \A b \in DOMAIN s.buckets : s.buckets[b].high \in Int /\ s.buckets[b].low \in Int
      BY <2>1 DEF PricesOf
    <3> QED  BY <1>3, <1>7, <2>2, <2>3, <3>1
  <2>5. ASSUME NEW x \in P \cup {price}
        PROVE  /\ \E b \in DOMAIN t.buckets : x <= t.buckets[b].high
               /\ \E b \in DOMAIN t.buckets : t.buckets[b].low <= x
    <3>1. CASE x = price
      BY <1>7, <2>2, <3>1
    <3>2. CASE x \in P
      <4>1. PICK b \in DOMAIN s.buckets : x <= s.buckets[b].high
        BY <2>1, <3>2 DEF PricesOf
      <4>2. PICK c \in DOMAIN s.buckets : s.buckets[c].low <= x
        BY <2>1, <3>2 DEF PricesOf
      <4>3. x \in Int
        BY <3>2
      <4>4. x <= t.buckets[b].high /\ b \in DOMAIN t.buckets
        BY <2>4, <4>1, <4>3
      <4>5. t.buckets[c].low <= x /\ c \in DOMAIN t.buckets
        BY <2>4, <4>2, <4>3
      <4> QED  BY <4>4, <4>5
    <3> QED  BY <3>1, <3>2
  <2>6. \A b \in DOMAIN t.buckets : {t.buckets[b].high, t.buckets[b].low} \subseteq P \cup {price}
    BY <1>3, <1>7, <2>1, <2>2 DEF PricesOf
  <2> QED  BY <1>1, <2>5, <2>6 DEF PricesOf
<1> QED  BY <1>1, <1>4, <1>5, <1>6, <1>8 DEF Recorded, t
=========================================================================
