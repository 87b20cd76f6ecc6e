--------------------------- MODULE MarketData ---------------------------
(***************************************************************************)
(* The market data of the trade pairs, and the hooks of pallet_trade that  *)
(* maintain them (pallets/trade/src/lib.rs): every trade enters the bucket *)
(* of its block; on_finalize adds the bucket to the volume and the prices  *)
(* of the day, and on_initialize takes out what is a day old.  The runtime *)
(* calls on_initialize, then the extrinsics, then on_finalize.             *)
(***************************************************************************)
EXTENDS StorageMaps, FiniteSetsExt, Functions

CONSTANTS
  MaxAmount,         \* the largest price and the largest balance (u128)
  NoPrice,           \* the None of Option<Price>
  BlocksPerDay,      \* T::BlocksPerDay
  MaxBlocks,         \* bound: the last block
  Pairs,             \* the trade pairs that callers may create
  TradePrices,       \* the prices and the amounts of the trades
  TradeAmounts,
  MaxBlockVolume     \* bound: the volume of a pair in one block

ASSUME DayAssumption ==
  /\ BlocksPerDay \in Nat \ {0}
  /\ MaxBlocks \in Nat
  /\ MaxAmount \in Nat
  /\ TradePrices \subseteq 1 .. (MaxAmount - 1)
  /\ TradeAmounts \subseteq Nat
  /\ NoPrice \notin Int

VARIABLES
  block,      \* frame_system's block number
  inBlock,    \* whether the block is between on_initialize and on_finalize
  stats       \* pair -> the data of TradePairs and of the two bucket maps

marketVars == <<block, inBlock, stats>>

(* (sum_of_trade_volume, highest_price, lowest_price) *)
EmptyBucket == [volume |-> 0, high |-> NoPrice, low |-> NoPrice]

EmptyStats ==
  [latest  |-> NoPrice,              \* latest_matched_price
   volume  |-> 0,                    \* one_day_trade_volume
   high    |-> NoPrice,              \* one_day_highest_price
   low     |-> NoPrice,              \* one_day_lowest_price
   buckets |-> EmptyMap,             \* TPTradeDataBucket
   highs   |-> <<>>,                 \* TPTradePriceBucket
   lows    |-> <<>>]

BucketOf(s, b) == GetOr(s.buckets, b, EmptyBucket)

Plus(x, y) == (x + y) % (MaxAmount + 1)
Minus(x, y) == (x - y) % (MaxAmount + 1)

(* The largest and the least of a vector of Option<Price>; a largest price *)
(* of 0 or a least price of max_value() count as none.                     *)
HighestOf(prices) ==
  LET some == Range(prices) \ {NoPrice, 0} IN IF some = {} THEN NoPrice ELSE Max(some)
LowestOf(prices) ==
  LET some == Range(prices) \ {NoPrice, MaxAmount} IN IF some = {} THEN NoPrice ELSE Min(some)

DropFirst(prices) == IF prices = <<>> THEN prices ELSE Tail(prices)

-----------------------------------------------------------------------------
Init ==
  /\ block = 0
  /\ inBlock = FALSE
  /\ stats = EmptyMap

(* Mutants: the lists of prices are not shortened; only one of them is; the*)
(* volume that leaves is that of the block after.                          *)
AgedHighsOnly(s, now) ==
  [s EXCEPT !.volume = Minus(@, BucketOf(s, now - BlocksPerDay).volume),
            !.highs  = DropFirst(@)]
AgedKeepingPrices(s, now) ==
  [s EXCEPT !.volume = Minus(@, BucketOf(s, now - BlocksPerDay).volume)]
AgedTooEarly(s, now) ==
  [s EXCEPT !.volume = Minus(@, BucketOf(s, now - BlocksPerDay + 1).volume),
            !.highs  = DropFirst(@),
            !.lows   = DropFirst(@)]

(* What on_initialize does to a pair once a day has passed: the vectors    *)
(* lose their first price, whenever the pair was created.                  *)
Aged(s, now) ==
  [s EXCEPT !.volume = Minus(@, BucketOf(s, now - BlocksPerDay).volume),
            !.highs  = DropFirst(@),
            !.lows   = DropFirst(@)]

OnInitialize ==
  /\ ~inBlock /\ block < MaxBlocks
  /\ block' = block + 1
  /\ inBlock' = TRUE
  /\ stats' = IF block' <= BlocksPerDay THEN stats
              ELSE [p \in DOMAIN stats |-> Aged(stats[p], block')]

(* What on_finalize does to a pair. *)
Closed(s, now) ==
  LET bucket == BucketOf(s, now)
      highs  == Append(s.highs, bucket.high)
      lows   == Append(s.lows, bucket.low)
  IN [s EXCEPT !.volume = Plus(@, bucket.volume),
               !.highs  = highs,
               !.lows   = lows,
               !.high   = HighestOf(highs),
               !.low    = LowestOf(lows)]

OnFinalize ==
  /\ inBlock
  /\ inBlock' = FALSE
  /\ stats' = [p \in DOMAIN stats |-> Closed(stats[p], block)]
  /\ UNCHANGED block

(* The pair do_create_trade_pair inserts. *)
NewPair(pair) ==
  /\ stats' = Put(stats, pair, EmptyStats)
  /\ UNCHANGED <<block, inBlock>>

(* Mutant: the volume of the last trade replaces that of the block. *)
TradedOverwrites(s, now, price, amount) ==
  LET bucket == BucketOf(s, now) IN
  [s EXCEPT
     !.latest  = price,
     !.buckets = Put(@, now,
       [volume |-> amount,
        high   |-> IF bucket.high = NoPrice THEN price ELSE Max({bucket.high, price}),
        low    |-> IF bucket.low = NoPrice THEN price ELSE Min({bucket.low, price})])]

(* set_tp_market_data, for a trade at a price of an amount of the quote    *)
(* token.                                                                  *)
Traded(s, now, price, amount) ==
  LET bucket == BucketOf(s, now) IN
  [s EXCEPT
     !.latest  = price,
     !.buckets = Put(@, now,
       [volume |-> Plus(bucket.volume, amount),
        high   |-> IF bucket.high = NoPrice THEN price ELSE Max({bucket.high, price}),
        low    |-> IF bucket.low = NoPrice THEN price ELSE Min({bucket.low, price})])]

SetMarketData(pair, price, amount) ==
  /\ pair \in DOMAIN stats
  /\ stats' = [stats EXCEPT ![pair] = Traded(@, block, price, amount)]
  /\ UNCHANGED <<block, inBlock>>

Next ==
  \/ OnInitialize
  \/ OnFinalize
  \/ \E p \in Pairs \ DOMAIN stats : inBlock /\ NewPair(p)
  \/ \E p \in DOMAIN stats, price \in TradePrices, n \in TradeAmounts :
       /\ inBlock /\ BucketOf(stats[p], block).volume + n <= MaxBlockVolume
       /\ SetMarketData(p, price, n)

Spec == Init /\ [][Next]_marketVars

-----------------------------------------------------------------------------
(* Properties *)

Bucket == [volume : 0 .. MaxAmount,
           high : TradePrices \cup {NoPrice}, low : TradePrices \cup {NoPrice}]

TypeOK ==
  /\ block \in 0 .. MaxBlocks
  /\ inBlock \in BOOLEAN
  /\ DOMAIN stats \subseteq Pairs
  /\ \A p \in DOMAIN stats :
       /\ stats[p].volume \in 0 .. MaxAmount
       /\ \A b \in DOMAIN stats[p].buckets :
            b \in 1 .. block /\ stats[p].buckets[b] \in Bucket
       /\ Len(stats[p].highs) = Len(stats[p].lows)

(* The last n blocks that on_finalize closed. *)
Closeds(n) == LET last == IF inBlock THEN block - 1 ELSE block IN (last - n + 1) .. last

(* on_finalize adds the bucket of a block to one_day_trade_volume and      *)
(* on_initialize subtracts it a day later, with arithmetic that wraps: the *)
(* volume is that of the last day, also while a block is being built, when *)
(* the day is one block shorter.                                           *)
VolumeIsOfLastDay ==
  \A p \in DOMAIN stats :
    LET day == Closeds(IF inBlock THEN BlocksPerDay - 1 ELSE BlocksPerDay) IN
    stats[p].volume = SumFunctionOnSet([b \in day |-> BucketOf(stats[p], b).volume], day)

(* The highest and the lowest price on_finalize reports are those of one   *)
(* run of blocks that ends with the current one and is at most a day long: *)
(* a price that is a day old is never reported.                            *)
PricesOfRecentBlocks ==
  \A p \in DOMAIN stats :
    ~inBlock /\ stats[p].highs # <<>> =>
      \E n \in 1 .. BlocksPerDay :
        /\ stats[p].high = HighestOf([b \in Closeds(n) |-> BucketOf(stats[p], b).high])
        /\ stats[p].low = LowestOf([b \in Closeds(n) |-> BucketOf(stats[p], b).low])

(* trade/lib.rs:62 says of one_day_highest_price: the highest price of the *)
(* last 24 hours.                                                          *)
HighIsOfLastDay ==
  \A p \in DOMAIN stats :
    ~inBlock /\ stats[p].highs # <<>> =>
      stats[p].high = HighestOf([b \in Closeds(BlocksPerDay) |-> BucketOf(stats[p], b).high])
==========================================================================
