----------------------------- MODULE MCTrade -----------------------------
(***************************************************************************)
(* Instances of Trade for TLC.  All but the run from genesis start in a    *)
(* state the program reaches with a few extrinsics: alice has issued the   *)
(* even tokens and bob the odd ones, each has given half of them to the    *)
(* other, and the pairs of PairTokens have been created.                   *)
(***************************************************************************)
EXTENDS TradeRefinement

CONSTANTS
  alice, bob,
  Supply,        \* the supply of each token
  PairTokens     \* the <<base, quote>> of each pair

MCAccounts == {alice, bob}
None == {}

(* A transfer of nothing is always possible: no quiet state is a deadlock. *)
Nothing == {0}

OnePair == <<<<0, 1>>>>
PairsThatShareAToken == <<<<0, 1>>, <<2, 1>>>>

Issued == 0 .. (MaxTokens - 1)
IssuerOf(t) == IF t % 2 = 0 THEN alice ELSE bob
PairHashes == 0 .. (Len(PairTokens) - 1)

MCInit ==
  /\ tokens = [t \in Issued |-> Supply]
  /\ owners = [t \in Issued |-> IssuerOf(t)]
  /\ ledger = [balance |-> [h \in T!Holdings |-> Supply \div 2],
               free    |-> [h \in T!Holdings |-> Supply \div 2],
               freezed |-> [h \in T!Holdings |-> 0],
               held    |-> T!Holdings]
  /\ ownedTokens = [a \in Accounts |->
                      SelectSeq([i \in 1 .. MaxTokens |-> i - 1], LAMBDA t : IssuerOf(t) = a)]
  /\ tokenNonce = MaxTokens
  /\ block = 1 /\ inBlock = TRUE
  /\ stats = [p \in PairHashes |-> M!EmptyStats]
  /\ pairs = [p \in PairHashes |->
                [base |-> PairTokens[p + 1][1], quote |-> PairTokens[p + 1][2]]]
  /\ pairAt = [bq \in ToSet(PairTokens) |->
                 (CHOOSE i \in DOMAIN PairTokens : PairTokens[i] = bq) - 1]
  /\ pairList = [i \in DOMAIN PairTokens |-> i - 1]
  /\ nonce = Len(PairTokens)
  /\ orders = EmptyMap
  /\ orderIndex = [owner |-> EmptyMap, pair |-> EmptyMap]
  /\ opened = EmptyMap /\ closed = EmptyMap
  /\ lists = EmptyMap
  /\ trades = EmptyMap
  /\ tradeIndex = [order |-> EmptyMap, owner |-> EmptyMap,
                   ownerPair |-> EmptyMap, pair |-> EmptyMap]
  /\ call = Idle /\ saved = NothingSaved

(* The fairness of Trade with the value of ENABLED <<CallStep>>_vars, which*)
(* is too costly to evaluate in each state: an extrinsic in progress always*)
(* has a step, and changes the state with it.  (A state in which it had    *)
(* none would be a deadlock, as nothing else can happen then.)             *)
Running == call.phase \notin {"idle", "looping"}
RunningIsFair == []<>(~Running) \/ []<><<CallStep>>_vars

MCSpec == MCInit /\ [][Next]_vars /\ RunningIsFair

(* alice buys and bob sells: no order meets one of its own account.  With  *)
(* PriceFactor = 2 a price of 1 is half a base unit for a quote unit, and a*)
(* price of 3 is 1.5: most exchanges leave a fraction.                     *)
ManyTerms == ({alice} \X {"Buy"} \X (1 .. 4) \X (1 .. 6))
               \cup ({bob} \X {"Sell"} \X (1 .. 4) \X (1 .. 6))

(* Market orders larger than the limit orders they meet at two prices. *)
FewLimits == {<<alice, "Buy", 2, 4>>, <<alice, "Buy", 4, 4>>,
              <<bob, "Sell", 2, 2>>, <<bob, "Sell", 4, 2>>}
MarketBothWays == {<<alice, "Buy", 1>>, <<alice, "Buy", 3>>, <<bob, "Sell", 3>>}

(* alice is on both sides, and meets her own orders. *)
BothSides == {<<alice, "Buy", 3, 3>>, <<alice, "Sell", 3, 2>>, <<bob, "Sell", 2, 3>>}
SelfTrade == {<<alice, "Buy", 2, 2>>, <<alice, "Sell", 2, 2>>}

(* With MaxAmount = 36 and PriceFactor = 6 the two orders of 8 base units  *)
(* have products that wrap (6 * 8 > 36), and alice can afford an order at  *)
(* the largest price.                                                      *)
AtTheWidth == {<<alice, "Buy", 8, 8>>, <<alice, "Buy", 4, 4>>, <<alice, "Buy", 36, 6>>,
               <<bob, "Sell", 8, 6>>, <<bob, "Sell", 4, 3>>}

FromGenesis == {<<alice, "Buy", 2, 2>>, <<bob, "Sell", 2, 1>>}
GenesisSupplies == {4}
GenesisTransfers == {0, 2}
==========================================================================
