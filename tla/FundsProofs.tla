---------------------------- MODULE FundsProofs ----------------------------
(***************************************************************************)
(* That pallet_trade keeps frozen what its orders sell, no more and no     *)
(* less, for every sequence of the extrinsics that TradeProofs allows and  *)
(* any number of accounts, tokens, pairs and orders; that the trades of an *)
(* order come to what it bought, at its price; that matching, once the     *)
(* funds are frozen, never fails; and that all of this together is what    *)
(* OrderBook promises.                                                     *)
(***************************************************************************)
EXTENDS TradeProofs, SumProofs, TradeRefinement

TP == INSTANCE TokensProofs WITH MaxBalance <- MaxAmount, Amounts <- Supplies \cup Transfers,
                                 SelfSettle <- TRUE

(* What Tokens assumes of its constants is assumed of those of Trade. *)
LEMMA AssumptionsOfTokens ==
  /\ MaxAmount \in Nat /\ MaxTokens \in Nat
  /\ Accounts # {} /\ TP!IsFiniteSet(Accounts)
  /\ Supplies \cup Transfers \subseteq 0 .. MaxAmount
  BY TradeAssumption, MathAssumption DEF TP!IsFiniteSet, IsFiniteSet

(* TokensProofs speaks of the same operators as Trade. *)
LEMMA SameTokens ==
  /\ T!Ledgers = TP!Ledgers /\ T!Holdings = TP!Holdings
  /\ \A x, y : T!WrapAdd(x, y) = TP!WrapAdd(x, y)
  /\ \A l, a, t, n : T!CanFreeze(l, a, t, n) <=> TP!CanFreeze(l, a, t, n)
  /\ \A l, a, t, n : T!CanUnfreeze(l, a, t, n) <=> TP!CanUnfreeze(l, a, t, n)
  /\ \A l, a, b, t, n : T!CanTransfer(l, a, b, t, n) <=> TP!CanTransfer(l, a, b, t, n)
  /\ \A l, a, t, n : T!DoFreeze(l, a, t, n) = TP!DoFreeze(l, a, t, n)
  /\ \A l, a, t, n : T!DoUnfreeze(l, a, t, n) = TP!DoUnfreeze(l, a, t, n)
  /\ \A l, a, b, t, n : T!DoTransfer(l, a, b, t, n) = TP!DoTransfer(l, a, b, t, n)
  BY DEF T!Ledgers, TP!Ledgers, T!Holdings, TP!Holdings, T!Balances, TP!Balances,
     T!TokenHashes, TP!TokenHashes, T!WrapAdd, TP!WrapAdd, T!Holds, TP!Holds,
     T!Enough, TP!Enough, T!NoOverflow, TP!NoOverflow, T!CanFreeze, TP!CanFreeze,
     T!CanUnfreeze, TP!CanUnfreeze, T!CanTransfer, TP!CanTransfer, T!DoFreeze, TP!DoFreeze,
     T!DoUnfreeze, TP!DoUnfreeze, T!DoTransfer, TP!DoTransfer, T!Moved, TP!Moved

TokensThereCanBe == 0 .. (MaxTokens - 1)

LEMMA SameSets ==
  /\ T!TokenHashes = TokensThereCanBe /\ TP!TokenHashes = TokensThereCanBe
  /\ T!Balances = Amount /\ TP!Balances = Amount
  /\ T!Holdings = Accounts \X TokensThereCanBe
  BY DEF T!TokenHashes, TP!TokenHashes, T!Balances, TP!Balances, T!Holdings, TokensThereCanBe,
     Amount

-----------------------------------------------------------------------------
(* What the calls of pallet_tokens do to the frozen parts of a ledger. *)

Drawn(k, key, n) == IF k = key THEN n ELSE 0

(* m has n less frozen than l, of one key, and is otherwise as good. *)
Releases(l, m, key, n) ==
  /\ TP!Sound(m)
  /\ l.held \subseteq m.held
  /\ \A k \in T!Holdings : m.freezed[k] = l.freezed[k] - Drawn(k, key, n)

(* The supply of a token fits a balance. *)
SuppliesFit == \A u \in DOMAIN tokens : tokens[u] \in Amount

LEMMA FreezeOnLedger ==
  ASSUME NEW l, TP!Sound(l), NEW a \in Accounts, NEW t \in TokensThereCanBe, NEW n \in Amount,
         T!CanFreeze(l, a, t, n)
  PROVE  LET m == T!DoFreeze(l, a, t, n) IN
         /\ TP!Sound(m) /\ m.held = l.held
         /\ t \in DOMAIN tokens /\ <<a, t>> \in l.held
         /\ \A k \in T!Holdings :
              m.freezed[k] = IF k = <<a, t>> THEN T!WrapAdd(l.freezed[k], n) ELSE l.freezed[k]
         /\ TP!Whole(l) => /\ TP!Whole(m)
                           /\ T!WrapAdd(l.freezed[<<a, t>>], n) = l.freezed[<<a, t>>] + n
<1> DEFINE m == T!DoFreeze(l, a, t, n)
<1>1. /\ t \in TP!TokenHashes /\ n \in TP!Balances /\ TP!CanFreeze(l, a, t, n)
      /\ m = TP!DoFreeze(l, a, t, n)
  BY SameTokens, SameSets
<1>2. TP!Sound(TP!DoFreeze(l, a, t, n))
  BY <1>1, AssumptionsOfTokens, TP!FreezeKeepsSound
<1>3. t \in DOMAIN tokens /\ <<a, t>> \in l.held
  BY DEF T!CanFreeze, T!Holds
<1>4. m.held = l.held /\ m.freezed = [l.freezed EXCEPT ![<<a, t>>] = T!WrapAdd(@, n)]
  BY DEF T!DoFreeze, TP!Sound, TP!Good, TP!Ledgers
<1>5. l.freezed \in [T!Holdings -> Amount]
  BY SameTokens, SameSets DEF TP!Sound, TP!Good, TP!Ledgers
<1>6. TP!Whole(l) => /\ TP!Whole(m)
                     /\ T!WrapAdd(l.freezed[<<a, t>>], n) = l.freezed[<<a, t>>] + n
  <2>1. TP!Whole(l) => /\ TP!Whole(TP!DoFreeze(l, a, t, n))
                       /\ TP!WrapAdd(l.freezed[<<a, t>>], n) = l.freezed[<<a, t>>] + n
    BY <1>1, AssumptionsOfTokens, TP!FreezeKeepsWhole
  <2> QED BY <1>1, <2>1, SameTokens
<1>7. ASSUME NEW k \in T!Holdings
      PROVE  m.freezed[k] = IF k = <<a, t>> THEN T!WrapAdd(l.freezed[k], n) ELSE l.freezed[k]
  <2> HIDE DEF m
  <2> QED BY <1>4, <1>5
<1> QED BY <1>1, <1>2, <1>3, <1>4, <1>6, <1>7

LEMMA UnfreezeOnLedger ==
  ASSUME NEW l, TP!Sound(l), NEW a \in Accounts, NEW t \in TokensThereCanBe, NEW n \in Amount,
         T!CanUnfreeze(l, a, t, n)
  PROVE  LET m == T!DoUnfreeze(l, a, t, n) IN
         /\ Releases(l, m, <<a, t>>, n)
         /\ TP!Whole(l) => TP!Whole(m)
<1> DEFINE m == T!DoUnfreeze(l, a, t, n)
<1>1. /\ t \in TP!TokenHashes /\ n \in TP!Balances /\ TP!CanUnfreeze(l, a, t, n)
      /\ m = TP!DoUnfreeze(l, a, t, n)
  BY SameTokens, SameSets
<1>2. TP!Sound(TP!DoUnfreeze(l, a, t, n))
  BY <1>1, AssumptionsOfTokens, TP!UnfreezeKeepsSound
<1>3. m.held = l.held /\ m.freezed = [l.freezed EXCEPT ![<<a, t>>] = @ - n]
  BY DEF T!DoUnfreeze, TP!Sound, TP!Good, TP!Ledgers
<1>4. l.freezed \in [T!Holdings -> Amount]
  BY SameTokens, SameSets DEF TP!Sound, TP!Good, TP!Ledgers
<1>5. TP!Whole(l) => TP!Whole(m)
  <2>1. TP!Whole(l) => TP!Whole(TP!DoUnfreeze(l, a, t, n))
    BY <1>1, AssumptionsOfTokens, TP!UnfreezeKeepsWhole
  <2> QED BY <1>1, <2>1
<1>6. ASSUME NEW k \in T!Holdings
      PROVE  m.freezed[k] = l.freezed[k] - Drawn(k, <<a, t>>, n)
  <2> HIDE DEF m
  <2>1. l.freezed[k] \in Int
    BY <1>4, AssumptionsOfTokens DEF Amount
  <2> QED BY <1>3, <1>4, <2>1 DEF Drawn
<1> QED BY <1>1, <1>2, <1>3, <1>5, <1>6 DEF Releases

LEMMA TransferOnLedger ==
  ASSUME NEW l, TP!Sound(l), NEW a \in Accounts, NEW b \in Accounts,
         NEW t \in TokensThereCanBe, NEW n \in Amount, T!CanTransfer(l, a, b, t, n)
  PROVE  LET m == T!DoTransfer(l, a, b, t, n) IN
         /\ TP!Sound(m) /\ l.held \subseteq m.held /\ m.freezed = l.freezed
         /\ TP!Whole(l) /\ a # b /\ SuppliesFit => TP!Whole(m)
<1> DEFINE m == T!DoTransfer(l, a, b, t, n)
<1>1. /\ t \in TP!TokenHashes /\ n \in TP!Balances /\ TP!CanTransfer(l, a, b, t, n)
      /\ m = TP!DoTransfer(l, a, b, t, n)
  BY SameTokens, SameSets
<1>2. TP!Sound(TP!DoTransfer(l, a, b, t, n))
  BY <1>1, AssumptionsOfTokens, TP!TransferKeepsSound
<1>3. l.held \subseteq m.held /\ m.freezed = l.freezed
  BY DEF T!DoTransfer, TP!Sound, TP!Good, TP!Ledgers
<1>4. TP!Whole(l) /\ a # b /\ SuppliesFit => TP!Whole(m)
  <2>1. SuppliesFit => \A u \in DOMAIN tokens : tokens[u] \in TP!Balances
    BY SameSets DEF SuppliesFit
  <2>2. ASSUME TP!Whole(l), a # b, SuppliesFit
        PROVE  TP!Whole(TP!DoTransfer(l, a, b, t, n))
    BY <1>1, <2>1, <2>2, AssumptionsOfTokens, TP!TransferKeepsWhole
  <2> QED BY <1>1, <2>2
<1> QED BY <1>1, <1>2, <1>3, <1>4

-----------------------------------------------------------------------------
(* The six calls of a settlement, each on what the one before returned. *)

LEMMA UnfreezingKeeps ==
  ASSUME NEW r, NEW a \in Accounts, NEW t \in TokensThereCanBe, NEW n \in Amount,
         Unfreezing(r, a, t, n).ok
  PROVE  LET m == Unfreezing(r, a, t, n).ledger IN
         /\ r.ok
         /\ TP!Sound(r.ledger) => Releases(r.ledger, m, <<a, t>>, n)
         /\ TP!Sound(r.ledger) /\ TP!Whole(r.ledger) => TP!Whole(m)
<1>1. r.ok /\ T!CanUnfreeze(r.ledger, a, t, n)
  BY DEF Unfreezing
<1>2. Unfreezing(r, a, t, n).ledger = T!DoUnfreeze(r.ledger, a, t, n)
  BY DEF Unfreezing
<1> QED BY <1>1, <1>2, UnfreezeOnLedger

LEMMA ReleasingKeeps ==
  ASSUME NEW r, NEW a \in Accounts, NEW t \in TokensThereCanBe, NEW n \in Amount,
         Releasing(r, a, t, n).ok
  PROVE  LET m == Releasing(r, a, t, n).ledger IN
         /\ r.ok
         /\ TP!Sound(r.ledger) => Releases(r.ledger, m, <<a, t>>, n)
         /\ TP!Sound(r.ledger) /\ TP!Whole(r.ledger) => TP!Whole(m)
<1>1. CASE n = 0
  <2>1. Releasing(r, a, t, n) = r
    BY <1>1 DEF Releasing
  <2>2. ASSUME TP!Sound(r.ledger) PROVE Releases(r.ledger, r.ledger, <<a, t>>, n)
    <3>1. \A k \in T!Holdings : r.ledger.freezed[k] \in Int
      BY <2>2, SameTokens, SameSets, AssumptionsOfTokens
         DEF TP!Sound, TP!Good, TP!Ledgers, Amount
    <3> QED BY <1>1, <2>2, <3>1 DEF Releases, Drawn
  <2> QED BY <2>1, <2>2
<1>2. CASE n # 0
  <2>1. Releasing(r, a, t, n) = Unfreezing(r, a, t, n)
    BY <1>2 DEF Releasing
  <2> QED BY <2>1, UnfreezingKeeps
<1> QED BY <1>1, <1>2

LEMMA TransferringKeeps ==
  ASSUME NEW r, NEW a \in Accounts, NEW b \in Accounts,
         NEW t \in TokensThereCanBe, NEW n \in Amount, Transferring(r, a, b, t, n).ok
  PROVE  LET m == Transferring(r, a, b, t, n).ledger IN
         /\ r.ok
         /\ TP!Sound(r.ledger) =>
              TP!Sound(m) /\ r.ledger.held \subseteq m.held /\ m.freezed = r.ledger.freezed
         /\ TP!Sound(r.ledger) /\ TP!Whole(r.ledger) /\ a # b /\ SuppliesFit => TP!Whole(m)
<1>1. r.ok /\ T!CanTransfer(r.ledger, a, b, t, n)
  BY DEF Transferring
<1>2. Transferring(r, a, b, t, n).ledger = T!DoTransfer(r.ledger, a, b, t, n)
  BY DEF Transferring
<1> QED BY <1>1, <1>2, TransferOnLedger

(* What of an order no longer waits to be sold. *)
SoldOff(o, give, have) == give + Leftover(o, give, have)

(* What is released to the two orders is what neither offers any more. *)
Settled(taker, maker, give, have, l, m) ==
  /\ TP!Sound(m) /\ l.held \subseteq m.held
  /\ \A k \in T!Holdings :
       m.freezed[k] = l.freezed[k]
         - Drawn(k, <<taker.owner, Sells(taker)>>, SoldOff(taker, give, have))
         - Drawn(k, <<maker.owner, Buys(taker)>>, SoldOff(maker, have, give))

LEMMA SettlementKeeps ==
  ASSUME NEW taker, NEW maker, NEW give \in Amount, NEW have \in Amount,
         taker.owner \in Accounts, maker.owner \in Accounts,
         Sells(taker) \in TokensThereCanBe, Buys(taker) \in TokensThereCanBe,
         Leftover(taker, give, have) \in Amount, Leftover(maker, have, give) \in Amount,
         TP!Sound(ledger), Settlement(taker, maker, give, have).ok
  PROVE  LET m == Settlement(taker, maker, give, have).ledger IN
         /\ Settled(taker, maker, give, have, ledger, m)
         /\ TP!Whole(ledger) /\ SuppliesFit /\ taker.owner # maker.owner => TP!Whole(m)
<1> DEFINE a == taker.owner
           b == maker.owner
           sold == Sells(taker)
           bought == Buys(taker)
           x == Leftover(taker, give, have)
           y == Leftover(maker, have, give)
           r0 == [ok |-> TRUE, ledger |-> ledger]
           r1 == Unfreezing(r0, a, sold, give)
           r2 == Unfreezing(r1, b, bought, have)
           r3 == Transferring(r2, a, b, sold, give)
           r4 == Transferring(r3, b, a, bought, have)
           r5 == Releasing(r4, a, sold, x)
           r6 == Releasing(r5, b, bought, y)
<1>1. Settlement(taker, maker, give, have) = r6
  BY DEF Settlement
<1>2. r0.ledger = ledger
  OBVIOUS
<1> HIDE DEF r0, r1, r2, r3, r4, r5, r6, a, b, sold, bought, x, y
<1>3. /\ a \in Accounts /\ b \in Accounts /\ sold \in TokensThereCanBe
      /\ bought \in TokensThereCanBe /\ x \in Amount /\ y \in Amount /\ r6.ok
  BY <1>1 DEF a, b, sold, bought, x, y
<1>6. /\ r5.ok
      /\ TP!Sound(r5.ledger) => Releases(r5.ledger, r6.ledger, <<b, bought>>, y)
      /\ TP!Sound(r5.ledger) /\ TP!Whole(r5.ledger) => TP!Whole(r6.ledger)
  BY <1>3, ReleasingKeeps DEF r6
<1>7. /\ r4.ok
      /\ TP!Sound(r4.ledger) => Releases(r4.ledger, r5.ledger, <<a, sold>>, x)
      /\ TP!Sound(r4.ledger) /\ TP!Whole(r4.ledger) => TP!Whole(r5.ledger)
  BY <1>3, <1>6, ReleasingKeeps DEF r5
<1>8. /\ r3.ok
      /\ TP!Sound(r3.ledger) =>
           /\ TP!Sound(r4.ledger) /\ r3.ledger.held \subseteq r4.ledger.held
           /\ r4.ledger.freezed = r3.ledger.freezed
      /\ TP!Sound(r3.ledger) /\ TP!Whole(r3.ledger) /\ b # a /\ SuppliesFit
           => TP!Whole(r4.ledger)
  BY <1>3, <1>7, TransferringKeeps DEF r4
<1>9. /\ r2.ok
      /\ TP!Sound(r2.ledger) =>
           /\ TP!Sound(r3.ledger) /\ r2.ledger.held \subseteq r3.ledger.held
           /\ r3.ledger.freezed = r2.ledger.freezed
      /\ TP!Sound(r2.ledger) /\ TP!Whole(r2.ledger) /\ a # b /\ SuppliesFit
           => TP!Whole(r3.ledger)
  BY <1>3, <1>8, TransferringKeeps DEF r3
<1>10. /\ r1.ok
       /\ TP!Sound(r1.ledger) => Releases(r1.ledger, r2.ledger, <<b, bought>>, have)
       /\ TP!Sound(r1.ledger) /\ TP!Whole(r1.ledger) => TP!Whole(r2.ledger)
  BY <1>3, <1>9, UnfreezingKeeps DEF r2
<1>11. /\ TP!Sound(r0.ledger) => Releases(r0.ledger, r1.ledger, <<a, sold>>, give)
       /\ TP!Sound(r0.ledger) /\ TP!Whole(r0.ledger) => TP!Whole(r1.ledger)
  BY <1>3, <1>10, UnfreezingKeeps DEF r1
<1>12. /\ Releases(ledger, r1.ledger, <<a, sold>>, give)
       /\ Releases(r1.ledger, r2.ledger, <<b, bought>>, have)
       /\ TP!Sound(r3.ledger) /\ r2.ledger.held \subseteq r3.ledger.held
       /\ r3.ledger.freezed = r2.ledger.freezed
       /\ TP!Sound(r4.ledger) /\ r3.ledger.held \subseteq r4.ledger.held
       /\ r4.ledger.freezed = r3.ledger.freezed
       /\ Releases(r4.ledger, r5.ledger, <<a, sold>>, x)
       /\ Releases(r5.ledger, r6.ledger, <<b, bought>>, y)
  BY <1>2, <1>6, <1>7, <1>8, <1>9, <1>10, <1>11 DEF Releases
<1>13. TP!Whole(ledger) /\ SuppliesFit /\ a # b => TP!Whole(r6.ledger)
  BY <1>2, <1>6, <1>7, <1>8, <1>9, <1>10, <1>11, <1>12 DEF Releases
<1>14. TP!Sound(r6.ledger) /\ ledger.held \subseteq r6.ledger.held
  BY <1>12 DEF Releases
<1>15. ASSUME NEW k \in T!Holdings
       PROVE  r6.ledger.freezed[k] = ledger.freezed[k]
                - Drawn(k, <<a, sold>>, give + x) - Drawn(k, <<b, bought>>, have + y)
  <2>1. give \in Int /\ have \in Int /\ x \in Int /\ y \in Int
    BY <1>3, AssumptionsOfTokens DEF Amount
  <2>2. ledger.freezed[k] \in Int
    BY SameTokens, SameSets, AssumptionsOfTokens DEF TP!Sound, TP!Good, TP!Ledgers, Amount
  <2>3. /\ r1.ledger.freezed[k] = ledger.freezed[k] - Drawn(k, <<a, sold>>, give)
        /\ r2.ledger.freezed[k] = r1.ledger.freezed[k] - Drawn(k, <<b, bought>>, have)
        /\ r4.ledger.freezed[k] = r2.ledger.freezed[k]
        /\ r5.ledger.freezed[k] = r4.ledger.freezed[k] - Drawn(k, <<a, sold>>, x)
        /\ r6.ledger.freezed[k] = r5.ledger.freezed[k] - Drawn(k, <<b, bought>>, y)
    BY <1>12 DEF Releases
  <2>4. /\ Drawn(k, <<a, sold>>, give + x) = Drawn(k, <<a, sold>>, give) + Drawn(k, <<a, sold>>, x)
        /\ Drawn(k, <<b, bought>>, have + y)
             = Drawn(k, <<b, bought>>, have) + Drawn(k, <<b, bought>>, y)
        /\ Drawn(k, <<a, sold>>, give) \in Int /\ Drawn(k, <<a, sold>>, x) \in Int
        /\ Drawn(k, <<b, bought>>, have) \in Int /\ Drawn(k, <<b, bought>>, y) \in Int
    BY <2>1 DEF Drawn
  <2> QED BY ONLY <2>2, <2>3, <2>4
<1> QED BY <1>1, <1>13, <1>14, <1>15 DEF Settled, SoldOff, a, b, sold, bought, x, y

-----------------------------------------------------------------------------
(* What the unfinished orders of an account still offer of a token. *)

Key(o) == <<o.owner, Sells(o)>>
Due(o, k) == IF ~IsFinished(o) /\ Key(o) = k THEN o.remainedSell ELSE 0
Dues(os, k) == [h \in DOMAIN os |-> Due(os[h], k)]
Offered(os, k) == SumFunctionOnSet(Dues(os, k), DOMAIN os)

OrderMap(os) == IsFiniteSet(DOMAIN os) /\ \A h \in DOMAIN os : os[h] \in OrderSet

LEMMA StoredOrders ==
  ASSUME NEW ps, NEW at, NEW os, NEW ls, NEW n, NEW but, StorageOK(ps, at, os, ls, n, but)
  PROVE  OrderMap(os)
<1>1. n \in Nat /\ \A h \in DOMAIN os : OrderOK(at, h, os[h], n)
  BY DEF StorageOK
<1>2. DOMAIN os \subseteq 0 .. (n - 1)
  <2>1. \A h \in DOMAIN os : h \in Nat /\ h < n
    BY <1>1 DEF OrderOK
  <2> QED BY <1>1, <2>1
<1>3. IsFiniteSet(0 .. (n - 1))
  BY <1>1, FS_Interval
<1> QED BY <1>1, <1>2, <1>3, FS_Subset DEF OrderMap, OrderOK

LEMMA DueType ==
  ASSUME NEW o \in OrderSet, NEW k
  PROVE  Due(o, k) \in Nat /\ o.remainedSell \in Nat /\ o.remainedBuy \in Nat
<1>1. o.remainedSell \in Nat /\ o.remainedBuy \in Nat
  BY AssumptionsOfTokens DEF OrderSet, Amount
<1> QED BY <1>1 DEF Due

LEMMA OfferedType ==
  ASSUME NEW os, OrderMap(os), NEW k
  PROVE  /\ Offered(os, k) \in Nat
         /\ \A h \in DOMAIN os : Due(os[h], k) <= Offered(os, k)
<1> DEFINE f == Dues(os, k)
<1>1. IsFiniteSet(DOMAIN os) /\ \A h \in DOMAIN os : f[h] = Due(os[h], k) /\ f[h] \in Nat
  BY DueType DEF OrderMap, Dues
<1> HIDE DEF f
<1>2. SumFunctionOnSet(f, DOMAIN os) \in Nat
  BY <1>1, SumType
<1>3. \A h \in DOMAIN os : f[h] <= SumFunctionOnSet(f, DOMAIN os)
  BY <1>1, SumCovers
<1> QED BY <1>1, <1>2, <1>3 DEF f, Offered

(* One order is written. *)
LEMMA OfferedWhenWritten ==
  ASSUME NEW os, OrderMap(os), NEW h \in DOMAIN os, NEW new \in OrderSet, NEW k,
         NEW os1, DOMAIN os1 = DOMAIN os, os1[h] = new,
         \A x \in DOMAIN os \ {h} : os1[x] = os[x]
  PROVE  /\ OrderMap(os1)
         /\ Offered(os1, k) = Offered(os, k) + (Due(new, k) - Due(os[h], k))
<1> DEFINE f == Dues(os, k)
           g == Dues(os1, k)
<1>1. OrderMap(os1)
  BY DEF OrderMap
<1>2. /\ IsFiniteSet(DOMAIN os)
      /\ \A x \in DOMAIN os : f[x] = Due(os[x], k) /\ g[x] = Due(os1[x], k)
      /\ \A x \in DOMAIN os : f[x] \in Int /\ g[x] \in Int
  BY <1>1, DueType DEF OrderMap, Dues
<1>3. \A x \in DOMAIN os \ {h} : f[x] = g[x]
  BY <1>2
<1> HIDE DEF f, g
<1>4. SumFunctionOnSet(g, DOMAIN os) = SumFunctionOnSet(f, DOMAIN os) + (g[h] - f[h])
  BY ONLY <1>2, <1>3, h \in DOMAIN os, SumChangeOne
<1> QED BY <1>1, <1>2, <1>4 DEF Offered, f, g

(* One order is added. *)
LEMMA OfferedWhenPlaced ==
  ASSUME NEW os, OrderMap(os), NEW h, h \notin DOMAIN os, NEW new \in OrderSet, NEW k
  PROVE  /\ OrderMap(Put(os, h, new))
         /\ Offered(Put(os, h, new), k) = Offered(os, k) + Due(new, k)
<1> DEFINE os1 == Put(os, h, new)
           f == Dues(os, k)
           g == Dues(os1, k)
<1>1. /\ DOMAIN os1 = DOMAIN os \cup {h} /\ os1[h] = new
      /\ \A x \in DOMAIN os : os1[x] = os[x]
  BY DEF Put
<1> HIDE DEF os1
<1>2. IsFiniteSet(DOMAIN os1)
  BY <1>1, FS_AddElement DEF OrderMap
<1>3. OrderMap(os1)
  BY <1>1, <1>2 DEF OrderMap
<1>4. /\ \A x \in DOMAIN os : f[x] = Due(os[x], k)
      /\ \A x \in DOMAIN os1 : g[x] = Due(os1[x], k)
      /\ \A x \in DOMAIN os1 : g[x] \in Int
      /\ \A x \in DOMAIN os : f[x] \in Nat
  BY <1>3, DueType DEF OrderMap, Dues
<1>5. \A x \in DOMAIN os : f[x] = g[x]
  BY <1>1, <1>4
<1>6. DOMAIN os1 \ {h} = DOMAIN os /\ h \in DOMAIN os1 /\ IsFiniteSet(DOMAIN os)
  BY <1>1 DEF OrderMap
<1> HIDE DEF f, g
<1>7. SumFunctionOnSet(g, DOMAIN os1) = g[h] + SumFunctionOnSet(g, DOMAIN os)
  BY <1>2, <1>4, <1>6, SumRemove
<1>8. SumFunctionOnSet(f, DOMAIN os) = SumFunctionOnSet(g, DOMAIN os)
  BY <1>5, <1>6, SumSame
<1>9. SumFunctionOnSet(f, DOMAIN os) \in Nat
  BY <1>4, <1>6, SumType
<1>10. g[h] = Due(new, k) /\ g[h] \in Int
  BY <1>1, <1>4
<1> QED BY <1>3, <1>7, <1>8, <1>9, <1>10 DEF Offered, f, g, os1

(* It is what TradeProperties calls RemainingOf. *)
LEMMA OfferedIsRemaining ==
  ASSUME OrderMap(orders), NEW a, NEW t
  PROVE  RemainingOf(a, t) = Offered(orders, <<a, t>>)
<1> DEFINE mine == {h \in DOMAIN orders : /\ ~IsFinished(orders[h]) /\ orders[h].owner = a
                                         /\ Sells(orders[h]) = t}
           f == [h \in mine |-> orders[h].remainedSell]
           g == Dues(orders, <<a, t>>)
<1>1. RemainingOf(a, t) = SumFunctionOnSet(f, mine)
  BY DEF RemainingOf, RemainingIn, SumOf
<1>2. mine \subseteq DOMAIN orders /\ IsFiniteSet(DOMAIN orders) /\ IsFiniteSet(mine)
  BY FS_Subset DEF OrderMap
<1>3. \A h \in DOMAIN orders : g[h] \in Int
  BY DueType DEF OrderMap, Dues
<1>4. \A h \in mine : f[h] = g[h]
  BY DEF Dues, Due, Key
<1>5. \A h \in DOMAIN orders \ mine : g[h] = 0
  BY DEF Dues, Due, Key
<1> HIDE DEF mine, f, g
<1>6. SumFunctionOnSet(f, mine) = SumFunctionOnSet(g, mine)
  BY <1>2, <1>4, SumSame
<1>7. SumFunctionOnSet(g, DOMAIN orders) = SumFunctionOnSet(g, mine)
  BY <1>2, <1>3, <1>5, SumOfSupport
<1> QED BY <1>1, <1>6, <1>7 DEF Offered, g

-----------------------------------------------------------------------------
(* What is frozen against what is offered.  do_freeze adds without a check *)
(* (the sum has wrapped when it is compared), so the frozen part is what   *)
(* the orders offer modulo the width of a balance.                         *)

Wraps(x, y) == \E q \in Nat : x = y + q * (MaxAmount + 1)

BackedModulo(l, os) == \A k \in T!Holdings : Wraps(Offered(os, k), l.freezed[k])
Backed(l, os) == \A k \in T!Holdings : Offered(os, k) = l.freezed[k]

(* The owner of an order has had the key of the token the order sells.     *)
KeysHeld(l, os) ==
  \A h \in DOMAIN os : Sells(os[h]) \in DOMAIN tokens /\ Key(os[h]) \in l.held

Funded(l, os) == TP!Sound(l) /\ KeysHeld(l, os) /\ BackedModulo(l, os)
Exactly(l, os) == TP!Whole(l) /\ Backed(l, os)

(* As much is released as is no longer offered. *)
Evenly(l, os, m, os1) ==
  /\ TP!Sound(m) /\ KeysHeld(m, os1)
  /\ \A k \in T!Holdings : Offered(os1, k) - m.freezed[k] = Offered(os, k) - l.freezed[k]

LEMMA FrozenType ==
  ASSUME NEW l, TP!Sound(l), NEW k \in T!Holdings
  PROVE  l.freezed[k] \in Nat /\ l.freezed[k] <= MaxAmount
  BY SameTokens, SameSets, AssumptionsOfTokens DEF TP!Sound, TP!Good, TP!Ledgers, Amount

LEMMA EvenlyKeeps ==
  ASSUME NEW l, NEW os, TP!Sound(l), OrderMap(os),
         NEW m, NEW os1, Evenly(l, os, m, os1), OrderMap(os1)
  PROVE  /\ BackedModulo(l, os) => Funded(m, os1)
         /\ Backed(l, os) => Backed(m, os1)
<1>1. ASSUME NEW k \in T!Holdings
      PROVE  /\ Wraps(Offered(os, k), l.freezed[k]) => Wraps(Offered(os1, k), m.freezed[k])
             /\ Offered(os, k) = l.freezed[k] => Offered(os1, k) = m.freezed[k]
  <2>1. /\ Offered(os, k) \in Int /\ Offered(os1, k) \in Int
        /\ l.freezed[k] \in Int /\ m.freezed[k] \in Int
        /\ Offered(os1, k) - m.freezed[k] = Offered(os, k) - l.freezed[k]
    BY OfferedType, FrozenType DEF Evenly
  <2>2. ASSUME NEW q \in Nat, Offered(os, k) = l.freezed[k] + q * (MaxAmount + 1)
        PROVE  Offered(os1, k) = m.freezed[k] + q * (MaxAmount + 1)
    <3>1. q * (MaxAmount + 1) \in Int
      BY AssumptionsOfTokens
    <3> QED BY ONLY <2>1, <2>2, <3>1
  <2>3. Offered(os, k) = l.freezed[k] => Offered(os1, k) = m.freezed[k]
    BY ONLY <2>1
  <2> QED BY <2>2, <2>3 DEF Wraps
<1> QED BY <1>1 DEF Funded, Backed, BackedModulo, Evenly

(* An order that is traded offers less by what is released to its owner.   *)
LEMMA DueAfterTrade ==
  ASSUME NEW at, NEW h, NEW n, NEW o, OrderOK(at, h, o, n), ~IsFinished(o),
         NEW give \in Nat, NEW have \in Nat, give <= o.remainedSell, have <= o.remainedBuy
  PROVE  LET new == AfterTrade(o, give, have) IN
         /\ new \in OrderSet /\ Key(new) = Key(o) /\ Sells(new) = Sells(o)
         /\ Leftover(o, give, have) \in Amount
         /\ \A k : Due(new, k) - Due(o, k) = 0 - Drawn(k, Key(o), SoldOff(o, give, have))
<1> DEFINE new == AfterTrade(o, give, have)
<1>1. /\ o \in OrderSet /\ o.status # "Canceled" /\ o.status # "Filled"
      /\ o.remainedSell \in Nat /\ o.remainedBuy \in Nat /\ o.remainedSell <= MaxAmount
      /\ MaxAmount \in Nat
  <2>1. o \in OrderSet /\ o.status # "Canceled" /\ o.status # "Filled"
    BY DEF OrderOK, IsFinished
  <2> QED BY <2>1, AssumptionsOfTokens DEF OrderSet, Amount
<1>2. OrderOK(at, h, new, n) /\ SameTerms(o, new)
  BY <1>1, AfterTradeOK
<1>3. o.remainedBuy = have => new.status = "Filled"
  BY <1>1, AfterTradeOK
<1>4. new \in OrderSet /\ Key(new) = Key(o) /\ Sells(new) = Sells(o)
  BY <1>2 DEF OrderOK, SameTerms, Key, Sells
<1>5. CASE o.remainedBuy = have
  <2>1. IsFinished(new)
    BY <1>2, <1>3, <1>5 DEF OrderOK, IsFinished
  <2>2. Leftover(o, give, have) = o.remainedSell - give /\ SoldOff(o, give, have) = o.remainedSell
    BY <1>1, <1>5 DEF Leftover, SoldOff
  <2>3. Leftover(o, give, have) \in Amount
    BY <1>1, <2>2 DEF Amount
  <2>4. ASSUME NEW k
        PROVE  Due(new, k) - Due(o, k) = 0 - Drawn(k, Key(o), SoldOff(o, give, have))
    <3> HIDE DEF new
    <3> QED BY <1>1, <2>1, <2>2 DEF Due, Drawn
  <2> QED BY <1>4, <2>3, <2>4
<1>6. CASE o.remainedBuy # have
  <2>1. new.remainedSell = o.remainedSell - give /\ new.status \notin {"Filled", "Canceled"}
    BY <1>1, <1>6 DEF AfterTrade, OrderSet
  <2>2. Leftover(o, give, have) = 0 /\ SoldOff(o, give, have) = give
    BY <1>1, <1>6 DEF Leftover, SoldOff
  <2>3. Leftover(o, give, have) \in Amount
    BY <1>1, <2>2 DEF Amount
  <2>4. ~IsFinished(new)
    BY <2>1 DEF IsFinished
  <2>5. ASSUME NEW k
        PROVE  Due(new, k) - Due(o, k) = 0 - Drawn(k, Key(o), SoldOff(o, give, have))
    <3> HIDE DEF new
    <3> QED BY <1>1, <1>4, <2>1, <2>2, <2>4 DEF Due, Drawn
  <2> QED BY <1>4, <2>3, <2>5
<1> QED BY <1>5, <1>6

(* A trade releases what the two orders no longer offer. *)
LEMMA TradeIsEven ==
  ASSUME NEW at, NEW n, NEW os, OrderMap(os), NEW t \in DOMAIN os, NEW hash \in DOMAIN os, t # hash,
         OrderOK(at, t, os[t], n), OrderOK(at, hash, os[hash], n),
         ~IsFinished(os[t]), ~IsFinished(os[hash]), Sells(os[hash]) = Buys(os[t]),
         NEW give \in Nat, NEW have \in Nat,
         give <= os[t].remainedSell, have <= os[t].remainedBuy,
         have <= os[hash].remainedSell, give <= os[hash].remainedBuy,
         TP!Sound(ledger), KeysHeld(ledger, os), DOMAIN tokens \subseteq TokensThereCanBe,
         Settlement(os[t], os[hash], give, have).ok
  PROVE  LET m == Settlement(os[t], os[hash], give, have).ledger
             os1 == TradedOrders(os, t, hash, give, have)
         IN /\ Evenly(ledger, os, m, os1) /\ OrderMap(os1)
            /\ TP!Whole(ledger) /\ SuppliesFit /\ os[t].owner # os[hash].owner => TP!Whole(m)
<1> DEFINE m == Settlement(os[t], os[hash], give, have).ledger
           os1 == TradedOrders(os, t, hash, give, have)
           a == os[t]
           b == os[hash]
           a1 == AfterTrade(a, give, have)
           b1 == AfterTrade(b, have, give)
           half == [os EXCEPT ![t] = a1]
<1>1. /\ a1 \in OrderSet /\ Key(a1) = Key(a) /\ Sells(a1) = Sells(a)
      /\ Leftover(a, give, have) \in Amount
      /\ \A k : Due(a1, k) - Due(a, k) = 0 - Drawn(k, Key(a), SoldOff(a, give, have))
  <2> HIDE DEF a
  <2>1. OrderOK(at, t, a, n) /\ ~IsFinished(a) /\ give <= a.remainedSell /\ have <= a.remainedBuy
    BY DEF a
  <2> QED BY <2>1, DueAfterTrade
<1>2. /\ b1 \in OrderSet /\ Key(b1) = Key(b) /\ Sells(b1) = Sells(b)
      /\ Leftover(b, have, give) \in Amount
      /\ \A k : Due(b1, k) - Due(b, k) = 0 - Drawn(k, Key(b), SoldOff(b, have, give))
  <2> HIDE DEF b
  <2>1. OrderOK(at, hash, b, n) /\ ~IsFinished(b) /\ have <= b.remainedSell /\ give <= b.remainedBuy
    BY DEF b
  <2> QED BY <2>1, DueAfterTrade
<1>3. /\ a \in OrderSet /\ b \in OrderSet /\ a.owner \in Accounts /\ b.owner \in Accounts
      /\ give \in Amount /\ have \in Amount
  <2>1. a \in OrderSet /\ b \in OrderSet
    BY DEF OrderMap
  <2> QED BY <2>1, AssumptionsOfTokens DEF OrderSet, Amount
<1>4. Sells(a) \in TokensThereCanBe /\ Buys(a) \in TokensThereCanBe
  BY DEF KeysHeld
<1>5. /\ Settled(a, b, give, have, ledger, m)
      /\ TP!Whole(ledger) /\ SuppliesFit /\ a.owner # b.owner => TP!Whole(m)
  <2> HIDE DEF a, b
  <2>1. Settlement(a, b, give, have).ok
    BY DEF a, b
  <2>2. /\ Settled(a, b, give, have, ledger, Settlement(a, b, give, have).ledger)
        /\ TP!Whole(ledger) /\ SuppliesFit /\ a.owner # b.owner
             => TP!Whole(Settlement(a, b, give, have).ledger)
    BY ONLY <1>1, <1>2, <1>3, <1>4, <2>1, TP!Sound(ledger), SettlementKeeps
  <2> QED BY <2>2 DEF a, b
<1>6. /\ DOMAIN half = DOMAIN os /\ half[t] = a1 /\ half[hash] = b
      /\ \A x \in DOMAIN os \ {t} : half[x] = os[x]
  OBVIOUS
<1>7. /\ DOMAIN os1 = DOMAIN half /\ os1[hash] = b1 /\ os1[t] = a1
      /\ \A x \in DOMAIN half \ {hash} : os1[x] = half[x]
      /\ \A x \in DOMAIN os \ {t, hash} : os1[x] = os[x]
  BY DEF TradedOrders, TradedTaker
<1> HIDE DEF a1, b1, half, os1, m
<1>8. ASSUME NEW k
      PROVE  /\ OrderMap(os1)
             /\ Offered(os1, k) = Offered(os, k) - Drawn(k, Key(a), SoldOff(a, give, have))
                                                 - Drawn(k, Key(b), SoldOff(b, have, give))
  <2> HIDE DEF b
  <2>1. OrderMap(half) /\ Offered(half, k) = Offered(os, k) + (Due(a1, k) - Due(a, k))
    BY <1>1, <1>6, OfferedWhenWritten
  <2>2. hash \in DOMAIN half
    BY <1>6
  <2>3. OrderMap(os1) /\ Offered(os1, k) = Offered(half, k) + (Due(b1, k) - Due(half[hash], k))
    BY ONLY <1>2, <1>7, <2>1, <2>2, OfferedWhenWritten
  <2>4. /\ Due(a1, k) - Due(a, k) = 0 - Drawn(k, Key(a), SoldOff(a, give, have))
        /\ Due(b1, k) - Due(b, k) = 0 - Drawn(k, Key(b), SoldOff(b, have, give))
    BY <1>1, <1>2
  <2>5. Offered(os, k) \in Int /\ Offered(half, k) \in Int
    BY <2>1, OfferedType
  <2>6. /\ SoldOff(a, give, have) \in Int /\ SoldOff(b, have, give) \in Int
    BY <1>1, <1>2, AssumptionsOfTokens DEF SoldOff, Amount
  <2>7. /\ Drawn(k, Key(a), SoldOff(a, give, have)) \in Int
        /\ Drawn(k, Key(b), SoldOff(b, have, give)) \in Int
    BY <2>6 DEF Drawn
  <2> QED BY ONLY <1>6, <2>1, <2>3, <2>4, <2>5, <2>7
<1>9. ASSUME NEW k \in T!Holdings
      PROVE  Offered(os1, k) - m.freezed[k] = Offered(os, k) - ledger.freezed[k]
  <2>1. m.freezed[k] = ledger.freezed[k] - Drawn(k, Key(a), SoldOff(a, give, have))
                                         - Drawn(k, Key(b), SoldOff(b, have, give))
    BY <1>5 DEF Settled, Key
  <2>2. Offered(os, k) \in Int /\ ledger.freezed[k] \in Int
    BY OfferedType, FrozenType
  <2>3. /\ SoldOff(a, give, have) \in Int /\ SoldOff(b, have, give) \in Int
    BY <1>1, <1>2, AssumptionsOfTokens DEF SoldOff, Amount
  <2>4. /\ Drawn(k, Key(a), SoldOff(a, give, have)) \in Int
        /\ Drawn(k, Key(b), SoldOff(b, have, give)) \in Int
    BY <2>3 DEF Drawn
  <2> QED BY ONLY <1>8, <2>1, <2>2, <2>4
<1>10. KeysHeld(m, os1)
  <2>1. \A x \in DOMAIN os : Key(os1[x]) = Key(os[x]) /\ Sells(os1[x]) = Sells(os[x])
    BY <1>1, <1>2, <1>6, <1>7
  <2> QED BY <1>5, <1>6, <1>7, <2>1 DEF KeysHeld, Settled
<1> QED BY <1>5, <1>8, <1>9, <1>10 DEF Evenly, Settled, m, os1

-----------------------------------------------------------------------------
(* The invariant: of the storage, and of what a rollback restores. *)

FInv ==
  /\ TP!IInv
  /\ DOMAIN stats = DOMAIN pairs
  /\ KeysHeld(ledger, orders) /\ BackedModulo(ledger, orders)
  /\ InProgress => /\ Funded(saved.ledger, saved.orders)
                   /\ DOMAIN saved.stats = DOMAIN pairs

(* The same without a wrap: as long as no order meets one of its owner.    *)
NoSelfMatch == call.phase = "trade" => orders[Head(call.queue)].owner # Taker.owner

EInv ==
  /\ Exactly(ledger, orders)
  /\ InProgress => Exactly(saved.ledger, saved.orders)

LEMMA WhatInvSays ==
  ASSUME FInv
  PROVE  /\ TP!Sound(ledger) /\ Funded(ledger, orders) /\ SuppliesFit
         /\ DOMAIN tokens \subseteq TokensThereCanBe
<1>1. TP!Good(ledger) /\ TP!Listed(ledger)
  BY AssumptionsOfTokens, TP!LedgerInvariant DEF FInv
<1>2. TP!Sound(ledger)
  BY <1>1 DEF FInv, TP!IInv, TP!NothingFrozenUnissued, TP!Sound
<1>3. SuppliesFit /\ DOMAIN tokens \subseteq TokensThereCanBe
  <2>1. /\ tokenNonce \in 0 .. MaxTokens /\ DOMAIN tokens = 0 .. (tokenNonce - 1)
        /\ \A u \in DOMAIN tokens : tokens[u] \in TP!Balances
    BY DEF FInv, TP!IInv, TP!TypeOK
  <2> QED BY <2>1, SameSets, AssumptionsOfTokens DEF SuppliesFit, TokensThereCanBe
<1> QED BY <1>1, <1>2, <1>3 DEF Funded, FInv

(* What a step that issues no token has to keep. *)
Kept ==
  /\ UNCHANGED <<tokens, owners, ownedTokens, tokenNonce>>
  /\ DOMAIN stats' = DOMAIN pairs'
  /\ Funded(ledger', orders')
  /\ InProgress' => /\ Funded(saved'.ledger, saved'.orders)
                    /\ DOMAIN saved'.stats = DOMAIN pairs'
  /\ EInv /\ NoSelfMatch =>
       /\ Exactly(ledger', orders')
       /\ InProgress' => Exactly(saved'.ledger, saved'.orders)

LEMMA KeptKeeps ==
  ASSUME FInv, Kept
  PROVE  FInv' /\ (EInv /\ NoSelfMatch => EInv')
<1>1. UNCHANGED <<tokens, owners, ownedTokens, tokenNonce>> /\ Funded(ledger', orders')
  BY DEF Kept
<1>2. TP!IInv'
  <2>1. /\ TP!Good(ledger') /\ TP!Listed(ledger')
        /\ \A a \in Accounts, t \in TP!TokenHashes \ DOMAIN tokens : ledger'.freezed[<<a, t>>] = 0
    BY <1>1 DEF Funded, TP!Sound
  <2> QED BY <1>1, <2>1, AssumptionsOfTokens, TP!LedgerStep DEF FInv
<1>3. ASSUME NEW l, NEW os, Funded(l, os)
      PROVE  Funded(l, os)'
  <2>1. TP!Sound(l)'
    BY <1>1, <1>3 DEF Funded, TP!Sound
  <2> QED BY <1>1, <1>3, <2>1 DEF Funded, KeysHeld, BackedModulo
<1>4. ASSUME NEW l, NEW os, Exactly(l, os)
      PROVE  Exactly(l, os)'
  <2>1. TP!Whole(l)'
    BY <1>1, <1>4 DEF Exactly, TP!Whole, TP!Supplied, TP!Sound, TP!Conserved, TP!GetOr
  <2> QED BY <1>4, <2>1 DEF Exactly, Backed
<1>5. FInv'
  BY <1>1, <1>2, <1>3 DEF Kept, FInv, Funded
<1>6. EInv /\ NoSelfMatch => EInv'
  BY <1>4 DEF Kept, EInv
<1> QED BY <1>5, <1>6

(* No order is written, and no balance. *)
LEMMA FundsUnchanged ==
  ASSUME FInv, UNCHANGED <<tokens, owners, ledger, ownedTokens, tokenNonce, orders, saved>>,
         DOMAIN stats' = DOMAIN pairs',
         InProgress' => InProgress /\ UNCHANGED pairs
  PROVE  Kept
<1>1. Funded(ledger, orders)
  BY WhatInvSays
<1> QED BY <1>1 DEF Kept, FInv, EInv

LEMMA RollbackFunds ==
  ASSUME FInv, InProgress, Rollback
  PROVE  Kept
<1>1. /\ UNCHANGED <<tokens, owners, ownedTokens, tokenNonce, pairs>>
      /\ ledger' = saved.ledger /\ orders' = saved.orders /\ stats' = saved.stats
      /\ call' = Idle
  BY DEF Rollback, pairVars
<1>2. ~InProgress'
  BY <1>1, IdleIsACall DEF InProgress
<1> QED BY <1>1, <1>2 DEF Kept, FInv, EInv

-----------------------------------------------------------------------------
(* The extrinsics *)

(* do_create_limit_order freezes what the order sells. *)
LEMMA PlaceFunds ==
  ASSUME Regular, IInv, FInv, NEW o \in LimitOrders, NEW pair \in DOMAIN pairs,
         CreateLimitOrder(o[1], pair, o[2], o[3], o[4])
  PROVE  Kept
<1> DEFINE sender == o[1]
           otype == o[2]
           price == o[3]
           amount == o[4]
           new == NewOrder(sender, pair, otype, price, amount)
           key == <<sender, Sells(new)>>
<1>1. /\ call.phase = "idle" /\ orders' = Put(orders, nonce, new)
      /\ T!CanFreeze(ledger, sender, Sells(new), amount)
      /\ ledger' = T!DoFreeze(ledger, sender, Sells(new), amount)
      /\ saved' = Storage
      /\ UNCHANGED <<tokens, owners, ownedTokens, tokenNonce, stats, pairs, pairAt>>
      /\ call'.order = nonce /\ call'.phase = "match"
  BY DEF CreateLimitOrder, ReadyForOrder, Ready, Place, CanPlace, marketVars, pairVars
<1>2. sender \in Accounts /\ amount \in Amount
  <2>1. o \in Accounts \X OrderTypes \X (0 .. MaxAmount) \X (0 .. MaxAmount)
    BY TradeAssumption
  <2> QED BY <2>1 DEF Amount
<1>3. new.owner = sender /\ new.remainedSell = amount /\ new.status = "Created"
  BY DEF NewOrder
<1> HIDE DEF sender, otype, price, amount, new
<1>4. nonce \notin DOMAIN orders /\ OrderMap(orders)
  <2>1. StorageOK(pairs, pairAt, orders, lists, nonce, {})
    BY <1>1 DEF IInv, Taking, InProgress
  <2>2. OrderMap(orders)
    BY <2>1, StoredOrders
  <2>3. \A h \in DOMAIN orders : OrderOK(pairAt, h, orders[h], nonce)
    BY <2>1 DEF StorageOK
  <2>4. ASSUME nonce \in DOMAIN orders PROVE FALSE
    <3>1. OrderOK(pairAt, nonce, orders[nonce], nonce)
      BY <2>3, <2>4
    <3> QED BY <3>1 DEF OrderOK
  <2> QED BY <2>2, <2>4
<1>5. new \in OrderSet
  <2>1. IInv'
    BY PlaceKeeps
  <2>2. orders'[nonce] = new /\ nonce \in DOMAIN orders'
    BY <1>1 DEF Put
  <2>3. OrderOK(pairAt', nonce, orders'[nonce], nonce')
    BY <2>1, <2>2 DEF IInv, StorageOK
  <2> QED BY <2>2, <2>3 DEF OrderOK
<1>6. /\ TP!Sound(ledger) /\ Funded(ledger, orders)
      /\ DOMAIN tokens \subseteq TokensThereCanBe
  BY WhatInvSays
<1>7. Sells(new) \in DOMAIN tokens /\ Sells(new) \in TokensThereCanBe
  BY <1>1, <1>6 DEF T!CanFreeze, T!Holds
<1>8. /\ TP!Sound(ledger') /\ ledger'.held = ledger.held /\ key \in ledger.held
      /\ \A k \in T!Holdings :
           ledger'.freezed[k] = IF k = key THEN T!WrapAdd(ledger.freezed[k], amount)
                                           ELSE ledger.freezed[k]
      /\ TP!Whole(ledger) =>
           /\ TP!Whole(ledger')
           /\ T!WrapAdd(ledger.freezed[key], amount) = ledger.freezed[key] + amount
  BY <1>1, <1>2, <1>6, <1>7, FreezeOnLedger
<1>9. key = Key(new) /\ ~IsFinished(new) /\ \A k : Due(new, k) = Drawn(k, key, amount)
  BY <1>3 DEF Key, Due, Drawn, IsFinished
<1>10. KeysHeld(ledger', orders')
  <2>1. /\ DOMAIN orders' = DOMAIN orders \cup {nonce} /\ orders'[nonce] = new
        /\ \A h \in DOMAIN orders : orders'[h] = orders[h]
    BY <1>1, <1>4 DEF Put
  <2> QED BY <1>6, <1>7, <1>8, <1>9, <2>1 DEF KeysHeld, Funded
<1> HIDE DEF key
<1>11. ASSUME NEW k \in T!Holdings
       PROVE  /\ Offered(orders', k) = Offered(orders, k) + Drawn(k, key, amount)
              /\ Offered(orders, k) \in Nat /\ ledger.freezed[k] \in Nat
              /\ ledger.freezed[k] <= MaxAmount /\ amount \in Nat /\ MaxAmount \in Nat
  <2>1. Offered(Put(orders, nonce, new), k) = Offered(orders, k) + Due(new, k)
    BY <1>4, <1>5, OfferedWhenPlaced
  <2>2. Offered(orders, k) \in Nat
    BY <1>4, OfferedType
  <2>3. ledger.freezed[k] \in Nat /\ ledger.freezed[k] <= MaxAmount
    BY <1>6, FrozenType
  <2> QED BY <1>1, <1>2, <1>9, <2>1, <2>2, <2>3, AssumptionsOfTokens DEF Amount
<1>12. BackedModulo(ledger', orders')
  <2>1. SUFFICES ASSUME NEW k \in T!Holdings
                 PROVE  Wraps(Offered(orders', k), ledger'.freezed[k])
    BY DEF BackedModulo
  <2>2. PICK q \in Nat : Offered(orders, k) = ledger.freezed[k] + q * (MaxAmount + 1)
    BY <1>6 DEF Funded, BackedModulo, Wraps
  <2>3. q * (MaxAmount + 1) \in Int
        /\ (q + 1) * (MaxAmount + 1) = q * (MaxAmount + 1) + (MaxAmount + 1)
    BY <1>11
  <2>4. CASE k = key
    <3>1. ledger'.freezed[k] = T!WrapAdd(ledger.freezed[k], amount)
      BY <1>8, <2>4
    <3>2. Offered(orders', k) = Offered(orders, k) + amount
      BY <1>11, <2>4 DEF Drawn
    <3>3. CASE ledger.freezed[k] + amount <= MaxAmount
      <4>1. ledger'.freezed[k] = ledger.freezed[k] + amount
        BY <3>1, <3>3 DEF T!WrapAdd
      <4>2. Offered(orders', k) = ledger'.freezed[k] + q * (MaxAmount + 1)
        BY <1>11, <2>2, <2>3, <3>2, <4>1
      <4> QED BY <4>2 DEF Wraps
    <3>4. CASE ~(ledger.freezed[k] + amount <= MaxAmount)
      <4>1. ledger'.freezed[k] = ledger.freezed[k] + amount - (MaxAmount + 1)
        BY <3>1, <3>4 DEF T!WrapAdd
      <4>2. Offered(orders', k) = ledger'.freezed[k] + (q + 1) * (MaxAmount + 1)
        BY <1>11, <2>2, <2>3, <3>2, <4>1
      <4> QED BY <4>2 DEF Wraps
    <3> QED BY <3>3, <3>4
  <2>5. CASE k # key
    <3>1. ledger'.freezed[k] = ledger.freezed[k] /\ Offered(orders', k) = Offered(orders, k)
      BY <1>8, <1>11, <2>5 DEF Drawn
    <3> QED BY <2>2, <3>1 DEF Wraps
  <2> QED BY <2>4, <2>5
<1>13. ASSUME Exactly(ledger, orders) PROVE Exactly(ledger', orders')
  <2>1. TP!Whole(ledger')
        /\ T!WrapAdd(ledger.freezed[key], amount) = ledger.freezed[key] + amount
    BY <1>8, <1>13 DEF Exactly
  <2>2. ASSUME NEW k \in T!Holdings PROVE Offered(orders', k) = ledger'.freezed[k]
    <3>1. Offered(orders, k) = ledger.freezed[k]
      BY <1>13 DEF Exactly, Backed
    <3> QED BY <1>8, <1>11, <2>1, <3>1 DEF Drawn
  <2> QED BY <2>1, <2>2 DEF Exactly, Backed
<1>14. /\ saved'.ledger = ledger /\ saved'.orders = orders /\ saved'.stats = stats
  BY <1>1 DEF Storage
<1> QED BY <1>1, <1>6, <1>8, <1>10, <1>12, <1>13, <1>14 DEF Kept, Funded, FInv, EInv

(* do_cancel_limit_order releases what the order still offers. *)
LEMMA CancelFunds ==
  ASSUME IInv, FInv, NEW sender, NEW hash, CancelLimitOrder(sender, hash)
  PROVE  Kept
<1> DEFINE o == orders[hash]
           new == [o EXCEPT !.status = "Canceled"]
<1>1. /\ call.phase = "idle" /\ hash \in DOMAIN orders /\ ~IsFinished(o) /\ o.owner = sender
      /\ T!CanUnfreeze(ledger, sender, Sells(o), o.remainedSell)
      /\ orders' = [orders EXCEPT ![hash].status = "Canceled"]
      /\ ledger' = T!DoUnfreeze(ledger, sender, Sells(o), o.remainedSell)
      /\ UNCHANGED <<tokens, owners, ownedTokens, tokenNonce, stats, pairs, call, saved>>
  BY DEF CancelLimitOrder, CanCancel, Ready, marketVars, pairVars, callVars
<1>2. ~InProgress'
  BY <1>1 DEF InProgress
<1>3. OrderMap(orders) /\ o \in OrderSet
  <2>1. StorageOK(pairs, pairAt, orders, lists, nonce, Taking)
    BY DEF IInv
  <2>2. OrderMap(orders)
    BY <2>1, StoredOrders
  <2> QED BY <1>1, <2>2 DEF OrderMap
<1>4. /\ TP!Sound(ledger) /\ Funded(ledger, orders)
      /\ DOMAIN tokens \subseteq TokensThereCanBe
  BY WhatInvSays
<1>5. /\ sender \in Accounts /\ o.remainedSell \in Amount /\ Sells(o) \in TokensThereCanBe
      /\ Key(o) = <<sender, Sells(o)>>
  BY <1>1, <1>3, <1>4 DEF OrderSet, T!CanUnfreeze, T!Holds, Key
<1>6. /\ Releases(ledger, ledger', Key(o), o.remainedSell)
      /\ TP!Whole(ledger) => TP!Whole(ledger')
  BY <1>1, <1>4, <1>5, UnfreezeOnLedger
<1>7. /\ DOMAIN orders' = DOMAIN orders /\ orders'[hash] = new
      /\ \A x \in DOMAIN orders \ {hash} : orders'[x] = orders[x]
  BY <1>1
<1>8. new \in OrderSet /\ IsFinished(new) /\ Key(new) = Key(o) /\ Sells(new) = Sells(o)
  BY <1>3 DEF OrderSet, Statuses, IsFinished, Key, Sells
<1> HIDE DEF o, new
<1>9. ASSUME NEW k \in T!Holdings
      PROVE  /\ OrderMap(orders')
             /\ Offered(orders', k) - ledger'.freezed[k] = Offered(orders, k) - ledger.freezed[k]
  <2>1. /\ OrderMap(orders')
        /\ Offered(orders', k) = Offered(orders, k) + (Due(new, k) - Due(orders[hash], k))
    <3>1. hash \in DOMAIN orders
      BY <1>1
    <3> QED BY ONLY <1>3, <1>7, <1>8, <3>1, OfferedWhenWritten
  <2>2. Due(new, k) = 0 /\ Due(orders[hash], k) = Drawn(k, Key(o), o.remainedSell)
    BY <1>1, <1>8 DEF Due, Drawn, o
  <2>3. ledger'.freezed[k] = ledger.freezed[k] - Drawn(k, Key(o), o.remainedSell)
    BY <1>6 DEF Releases
  <2>4. /\ Offered(orders, k) \in Int /\ ledger.freezed[k] \in Int
        /\ Drawn(k, Key(o), o.remainedSell) \in Int
    BY <1>3, <1>4, OfferedType, FrozenType, DueType DEF Drawn
  <2> QED BY ONLY <2>1, <2>2, <2>3, <2>4
<1>10. OrderMap(orders')
  BY <1>3, <1>7, <1>8 DEF OrderMap
<1>11. KeysHeld(ledger', orders')
  <2>1. \A x \in DOMAIN orders : Key(orders'[x]) = Key(orders[x])
                                 /\ Sells(orders'[x]) = Sells(orders[x])
    BY <1>7, <1>8 DEF o
  <2> QED BY <1>4, <1>6, <1>7, <2>1 DEF KeysHeld, Funded, Releases
<1>12. Evenly(ledger, orders, ledger', orders')
  BY <1>6, <1>9, <1>11 DEF Evenly, Releases
<1>13. /\ Funded(ledger', orders')
       /\ Backed(ledger, orders) => Backed(ledger', orders')
  BY <1>3, <1>4, <1>10, <1>12, EvenlyKeeps DEF Funded
<1> QED BY <1>1, <1>2, <1>6, <1>13 DEF Kept, FInv, EInv, Exactly

(* The head of the loop of order_match moves no funds. *)
LEMMA MatchLevelFunds ==
  ASSUME IInv, FInv, MatchLevel
  PROVE  Kept
<1>1. InProgress /\ call.market = FALSE
  BY DEF MatchLevel, InProgress, IInv, Calls
<1>2. CASE Rollback
  BY <1>1, <1>2, RollbackFunds
<1>3. CASE FinishPlacing
  <2>1. /\ UNCHANGED <<tokens, owners, ledger, ownedTokens, tokenNonce, orders, stats, pairs>>
        /\ call' = Idle
    BY <1>1, <1>3 DEF FinishPlacing, AfterPlacing, tokenVars, marketVars, pairVars
  <2>2. ~InProgress'
    BY <2>1, IdleIsACall DEF InProgress
  <2>3. Funded(ledger, orders) /\ DOMAIN stats = DOMAIN pairs
    BY WhatInvSays DEF FInv
  <2> QED BY <2>1, <2>2, <2>3 DEF Kept, EInv
<1>4. CASE UNCHANGED <<tokenVars, marketVars, pairVars, orderVars, tradeVars, saved>>
  <2>1. /\ UNCHANGED <<tokens, owners, ledger, ownedTokens, tokenNonce, orders, saved, stats, pairs>>
        /\ DOMAIN stats' = DOMAIN pairs'
    BY <1>4 DEF tokenVars, marketVars, pairVars, orderVars, FInv
  <2> QED BY <1>1, <2>1, FundsUnchanged
<1>5. \/ Rollback \/ FinishPlacing
      \/ UNCHANGED <<tokenVars, marketVars, pairVars, orderVars, tradeVars, saved>>
  BY Zenon DEF MatchLevel, NeverEnds
<1> QED BY <1>2, <1>3, <1>4, <1>5

(* The tokens that meet in a trade: the maker sells what the taker buys. *)
LEMMA MakerSells ==
  ASSUME NEW at, NEW n, PairsOK(pairs, at, n), NEW a, NEW b,
         <<a.base, a.quote>> \in DOMAIN at, <<b.base, b.quote>> \in DOMAIN at,
         PairIn(at, a) = PairIn(at, b),
         a.otype \in OrderTypes, b.otype \in OrderTypes, b.otype = Opposite(a.otype)
  PROVE  Sells(b) = Buys(a)
<1>1. b.base = a.base /\ b.quote = a.quote
  <2>1. LET q == at[<<a.base, a.quote>>] IN pairs[q].base = a.base /\ pairs[q].quote = a.quote
    BY DEF PairsOK
  <2>2. LET q == at[<<b.base, b.quote>>] IN pairs[q].base = b.base /\ pairs[q].quote = b.quote
    BY DEF PairsOK
  <2> QED BY <2>1, <2>2 DEF PairIn
<1> QED BY <1>1 DEF Sells, Buys, Opposite, OrderTypes

(* A round of the loop over the orders of a level. *)
LEMMA MatchOrderFunds ==
  ASSUME IInv, FInv, MatchOrder
  PROVE  Kept
<1> DEFINE t == call.order
           pair == call.pair
           hash == Head(call.queue)
           maker == orders[hash]
           ex == CalculateExAmount(maker, Taker)
           give == IF Taker.otype = "Buy" THEN ex.base ELSE ex.quote
           have == IF Taker.otype = "Buy" THEN ex.quote ELSE ex.base
           os1 == TradedOrders(orders, t, hash, give, have)
           paid == Settlement(Taker, maker, give, have)
<1>1. call.phase = "trade" /\ InProgress
  BY Zenon DEF MatchOrder, InProgress
<1>2. /\ t \in DOMAIN orders /\ Taker \in OrderSet /\ Taker.otype \in OrderTypes
      /\ Taker.status # "Filled" => ~IsFinished(Taker)
      /\ StorageOK(pairs, pairAt, orders, lists, nonce, {t})
      /\ PairIn(pairAt, Taker) = pair
  BY <1>1, TheTaker
<1>3. Taker.status # "Filled"
  BY <1>1 DEF IInv, Trading
<1>4. /\ hash \in DOMAIN orders /\ ~IsFinished(maker) /\ PairIn(pairAt, maker) = pair
      /\ maker \in OrderSet /\ maker.otype = Opposite(Taker.otype) /\ t # hash
  BY <1>1, TheMaker
<1>5. /\ OrderOK(pairAt, t, orders[t], nonce) /\ OrderOK(pairAt, hash, orders[hash], nonce)
      /\ OrderMap(orders) /\ PairsOK(pairs, pairAt, nonce)
  BY <1>2, <1>4, StoredOrders DEF StorageOK
<1>6. maker \in OrderSet /\ maker.otype \in OrderTypes
  BY <1>4 DEF OrderSet
<1>7. t # hash
  BY <1>4
<1>8. give \in Nat /\ have \in Nat
  BY <1>2, <1>6, ExchangeFills
<1>9. Taker = orders[t]
  BY DEF Taker
<1>10. \/ Rollback
       \/ NeverEnds
       \/ /\ give <= Taker.remainedSell /\ have <= Taker.remainedBuy
          /\ have <= maker.remainedSell /\ give <= maker.remainedBuy
          /\ paid.ok /\ ledger' = paid.ledger /\ orders' = os1
          /\ DOMAIN stats' = DOMAIN stats
          /\ UNCHANGED <<tokens, owners, ownedTokens, tokenNonce, pairs, saved>>
  <2>1. /\ Taker.remainedSell \in Nat /\ Taker.remainedBuy \in Nat
        /\ maker.remainedSell \in Nat /\ maker.remainedBuy \in Nat
    BY <1>2, <1>6, DueType
  <2> DEFINE orders1 == [orders EXCEPT ![t] = AfterTrade(Taker, give, have),
                                       ![hash] = AfterTrade(maker, have, give)]
  <2>2. \/ Rollback
        \/ NeverEnds
        \/ /\ ~(give > Taker.remainedSell) /\ ~(have > Taker.remainedBuy)
           /\ ~(have > maker.remainedSell) /\ ~(give > maker.remainedBuy)
           /\ paid.ok /\ ledger' = paid.ledger /\ orders' = orders1
           /\ M!SetMarketData(pair, maker.price, ex.quote)
           /\ UNCHANGED <<tokens, owners, ownedTokens, tokenNonce, pairs, saved>>
    BY Zenon DEF MatchOrder, pairVars
  <2>3. orders1 = os1
    BY <1>9 DEF TradedOrders, TradedTaker
  <2>4. ASSUME NEW v, NEW w, M!SetMarketData(pair, v, w)
        PROVE  DOMAIN stats' = DOMAIN stats
    BY <2>4 DEF M!SetMarketData
  <2> HIDE DEF orders1, os1, paid, give, have, maker, hash
  <2>5. /\ ~(give > Taker.remainedSell) => give <= Taker.remainedSell
        /\ ~(have > Taker.remainedBuy) => have <= Taker.remainedBuy
        /\ ~(have > maker.remainedSell) => have <= maker.remainedSell
        /\ ~(give > maker.remainedBuy) => give <= maker.remainedBuy
    BY ONLY <1>8, <2>1
  <2> QED BY ONLY <2>2, <2>3, <2>4, <2>5, Zenon
<1>11. CASE Rollback
  BY <1>1, <1>11, RollbackFunds
<1>12. CASE NeverEnds
  <2>1. /\ UNCHANGED <<tokens, owners, ledger, ownedTokens, tokenNonce, orders, saved, stats, pairs>>
        /\ DOMAIN stats' = DOMAIN pairs'
    BY <1>12 DEF NeverEnds, tokenVars, marketVars, pairVars, orderVars, FInv
  <2> QED BY <1>1, <2>1, FundsUnchanged
<1>13. CASE /\ give <= Taker.remainedSell /\ have <= Taker.remainedBuy
            /\ have <= maker.remainedSell /\ give <= maker.remainedBuy
            /\ paid.ok /\ ledger' = paid.ledger /\ orders' = os1
            /\ DOMAIN stats' = DOMAIN stats
            /\ UNCHANGED <<tokens, owners, ownedTokens, tokenNonce, pairs, saved>>
  <2>1. /\ TP!Sound(ledger) /\ Funded(ledger, orders) /\ SuppliesFit
        /\ DOMAIN tokens \subseteq TokensThereCanBe
    BY WhatInvSays
  <2>2. Sells(orders[hash]) = Buys(orders[t])
    <3>1. /\ <<Taker.base, Taker.quote>> \in DOMAIN pairAt
          /\ <<maker.base, maker.quote>> \in DOMAIN pairAt
      BY <1>5, <1>9 DEF OrderOK
    <3> HIDE DEF maker, hash
    <3>2. Sells(maker) = Buys(Taker)
      BY <1>2, <1>4, <1>5, <1>6, <3>1, MakerSells
    <3> QED BY <1>9, <3>2 DEF maker
  <2>3. /\ ~IsFinished(orders[t]) /\ ~IsFinished(orders[hash])
        /\ give <= orders[t].remainedSell /\ have <= orders[t].remainedBuy
        /\ have <= orders[hash].remainedSell /\ give <= orders[hash].remainedBuy
        /\ Settlement(orders[t], orders[hash], give, have).ok
        /\ ledger' = Settlement(orders[t], orders[hash], give, have).ledger
    BY <1>2, <1>3, <1>4, <1>9, <1>13
  <2>4. KeysHeld(ledger, orders) /\ BackedModulo(ledger, orders)
    BY <2>1 DEF Funded
  <2> HIDE DEF t, hash, give, have
  <2>5. /\ Evenly(ledger, orders, ledger', orders') /\ OrderMap(orders')
        /\ TP!Whole(ledger) /\ SuppliesFit /\ orders[t].owner # orders[hash].owner
             => TP!Whole(ledger')
    BY <1>2, <1>4, <1>5, <1>7, <1>8, <1>13, <2>1, <2>2, <2>3, <2>4, TradeIsEven
  <2>6. /\ Funded(ledger', orders')
        /\ Backed(ledger, orders) => Backed(ledger', orders')
    BY <1>5, <2>1, <2>4, <2>5, EvenlyKeeps
  <2>7. ASSUME EInv, NoSelfMatch PROVE Exactly(ledger', orders')
    <3>1. orders[t].owner # orders[hash].owner
      BY <1>1, <1>9, <2>7 DEF NoSelfMatch, hash
    <3> QED BY <2>1, <2>5, <2>6, <2>7, <3>1 DEF EInv, Exactly
  <2> QED BY <1>1, <1>13, <2>6, <2>7 DEF Kept, FInv, EInv
<1> QED BY <1>10, <1>11, <1>12, <1>13

-----------------------------------------------------------------------------
(* The extrinsics of pallet_tokens, the pairs and the hooks. *)

LEMMA TransferFunds ==
  ASSUME FInv, NEW a \in Accounts, NEW b \in Accounts, NEW t \in DOMAIN tokens,
         NEW n \in Transfers, Transfer(a, b, t, n)
  PROVE  Kept
<1>1. /\ call.phase = "idle" /\ a # b
      /\ T!CanTransfer(ledger, a, b, t, n) /\ ledger' = T!DoTransfer(ledger, a, b, t, n)
      /\ UNCHANGED <<tokens, owners, ownedTokens, tokenNonce, orders, stats, pairs, call, saved>>
  BY DEF Transfer, Ready, T!Transfer, marketVars, pairVars, orderVars, callVars
<1>2. ~InProgress'
  BY <1>1 DEF InProgress
<1>3. /\ TP!Sound(ledger) /\ Funded(ledger, orders) /\ SuppliesFit
      /\ DOMAIN tokens \subseteq TokensThereCanBe
  BY WhatInvSays
<1>4. t \in TokensThereCanBe /\ n \in Amount
  BY <1>3, AssumptionsOfTokens DEF Amount
<1>5. /\ TP!Sound(ledger') /\ ledger.held \subseteq ledger'.held
      /\ ledger'.freezed = ledger.freezed
      /\ TP!Whole(ledger) => TP!Whole(ledger')
  BY <1>1, <1>3, <1>4, TransferOnLedger
<1>6. Funded(ledger', orders) /\ (Backed(ledger, orders) => Backed(ledger', orders))
  BY <1>3, <1>5 DEF Funded, KeysHeld, BackedModulo, Backed
<1> QED BY <1>1, <1>2, <1>5, <1>6 DEF Kept, FInv, EInv, Exactly

LEMMA CreateTradePairFunds ==
  ASSUME FInv, NEW sender, NEW base, NEW quote, CreateTradePair(sender, base, quote)
  PROVE  Kept
<1>1. /\ call.phase = "idle"
      /\ pairs' = Put(pairs, nonce, [base |-> base, quote |-> quote])
      /\ M!NewPair(nonce)
      /\ UNCHANGED <<tokens, owners, ledger, ownedTokens, tokenNonce, orders, call, saved>>
  BY DEF CreateTradePair, Ready, tokenVars, callVars
<1>2. DOMAIN stats' = DOMAIN pairs'
  BY <1>1 DEF M!NewPair, M!Put, Put, FInv
<1>3. ~InProgress'
  BY <1>1 DEF InProgress
<1> QED BY <1>1, <1>2, <1>3, FundsUnchanged

LEMMA HooksFunds ==
  ASSUME FInv, OnInitialize \/ OnFinalize \/ UNCHANGED vars
  PROVE  Kept
<1>1. UNCHANGED <<tokens, owners, ledger, ownedTokens, tokenNonce, pairs, orders, call, saved>>
  BY DEF OnInitialize, OnFinalize, vars, tokenVars, pairVars, orderVars, callVars
<1>2. DOMAIN stats' = DOMAIN stats
  BY DEF OnInitialize, OnFinalize, vars, marketVars, M!OnInitialize, M!OnFinalize
<1> QED BY <1>1, <1>2, FundsUnchanged DEF FInv, InProgress

LEMMA SameIssue == \A a, n : Issue(a, n) => TP!Issue(a, n)
  BY DEF Issue, T!Issue, TP!Issue, T!Put, TP!Put

(* do_issue makes a token of which nobody has any frozen. *)
LEMMA IssueFunds ==
  ASSUME FInv, NEW a \in Accounts, NEW n \in Supplies, Issue(a, n)
  PROVE  FInv' /\ (EInv => EInv')
<1>1. /\ call.phase = "idle" /\ TP!Issue(a, n)
      /\ UNCHANGED <<orders, stats, pairs, call>>
  BY SameIssue DEF Issue, Ready, marketVars, pairVars, orderVars, callVars
<1>2. ~InProgress'
  BY <1>1 DEF InProgress
<1>3. TP!IInv /\ TP!IInv'
  BY <1>1, AssumptionsOfTokens, TP!IssueStep DEF FInv
<1>4. TP!Sound(ledger) /\ Funded(ledger, orders)
  BY WhatInvSays
<1>5. /\ ledger'.freezed = ledger.freezed /\ ledger.held \subseteq ledger'.held
      /\ DOMAIN tokens \subseteq DOMAIN tokens'
  BY <1>1, <1>4 DEF TP!Issue, TP!Put, TP!Sound, TP!Good, TP!Ledgers
<1>6. KeysHeld(ledger, orders)' /\ BackedModulo(ledger, orders)'
  BY <1>1, <1>4, <1>5 DEF Funded, KeysHeld, BackedModulo
<1>7. FInv'
  BY <1>1, <1>2, <1>3, <1>6 DEF FInv
<1>8. ASSUME EInv PROVE EInv'
  <2>1. TP!SupplyConserved /\ TP!Exact(ledger) /\ Backed(ledger, orders)
    BY <1>8, AssumptionsOfTokens, TP!SupplyInLedger DEF EInv, Exactly, TP!Whole, TP!Supplied
  <2>2. TP!SupplyConserved'
    BY <1>1, <1>3, <2>1, AssumptionsOfTokens, TP!IssueKeepsSupply
  <2>3. TP!Exact(ledger')
    BY <1>1, <1>3, <2>1, AssumptionsOfTokens, TP!IssueKeepsExact
  <2>4. TP!Sound(ledger)'
    <3>1. (TP!Good(ledger) /\ TP!Listed(ledger))'
      BY <1>3 DEF TP!IInv, TP!TypeOK, TP!SplitConsistent, TP!FundsSpendable, TP!Good, TP!Split,
         TP!Listed
    <3> QED BY <1>3, <3>1 DEF TP!IInv, TP!NothingFrozenUnissued, TP!Sound
  <2>5. TP!Whole(ledger)'
    BY <2>2, <2>3, <2>4 DEF TP!Whole, TP!Supplied, TP!Conserved, TP!SupplyConserved, TP!Owned,
       TP!OwnedIn, TP!Exact
  <2>6. Backed(ledger', orders')
    BY <1>1, <1>5, <2>1 DEF Backed
  <2> QED BY <1>2, <2>5, <2>6 DEF EInv, Exactly, Backed
<1> QED BY <1>7, <1>8

LEMMA FundsInit == Init => FInv /\ EInv
<1> SUFFICES ASSUME Init PROVE FInv /\ EInv
  OBVIOUS
<1>1. /\ TP!Init /\ call = Idle /\ DOMAIN orders = {} /\ DOMAIN stats = {} /\ DOMAIN pairs = {}
  BY DEF Init, T!Init, TP!Init, T!EmptyMap, TP!EmptyMap, T!EmptyLedger, TP!EmptyLedger,
     T!Holdings, TP!Holdings, T!TokenHashes, TP!TokenHashes, M!Init, M!EmptyMap, EmptyMap
<1>2. ~InProgress
  BY <1>1, IdleIsACall DEF InProgress
<1>3. TP!IInv /\ TP!SupplyConserved
  BY <1>1, AssumptionsOfTokens, TP!InitHolds, TP!NothingAtFirst
<1>4. /\ ledger.freezed = [h \in T!Holdings |-> 0] /\ ledger.free = [h \in T!Holdings |-> 0]
      /\ ledger.balance = [h \in T!Holdings |-> 0]
  BY <1>1, SameTokens DEF TP!Init, TP!EmptyLedger
<1>5. \A k : Offered(orders, k) = 0
  BY <1>1, SumOfNone DEF Offered
<1>6. Backed(ledger, orders) /\ KeysHeld(ledger, orders)
  BY <1>1, <1>4, <1>5 DEF Backed, KeysHeld
<1>7. BackedModulo(ledger, orders)
  <2>1. ASSUME NEW k \in T!Holdings PROVE Offered(orders, k) = ledger.freezed[k] + 0 * (MaxAmount + 1)
    BY <1>4, <1>5, AssumptionsOfTokens
  <2> QED BY <2>1 DEF BackedModulo, Wraps
<1>8. FInv
  BY <1>1, <1>2, <1>3, <1>6, <1>7 DEF FInv
<1>9. TP!Sound(ledger)
  BY <1>8, WhatInvSays
<1>10. TP!Whole(ledger)
  <2>1. TP!Conserved(ledger)
    BY <1>3, AssumptionsOfTokens, TP!SupplyInLedger
  <2>2. TP!Exact(ledger)
    BY <1>4, SameTokens DEF TP!Exact
  <2> QED BY <1>9, <2>1, <2>2 DEF TP!Whole, TP!Supplied
<1> QED BY <1>2, <1>6, <1>8, <1>10 DEF EInv, Exactly

LEMMA FundsStep ==
  ASSUME Regular, IInv, FInv, [Next]_vars
  PROVE  FInv' /\ (EInv /\ NoSelfMatch => EInv')
<1>1. CASE OnInitialize \/ OnFinalize \/ UNCHANGED vars
  BY <1>1, HooksFunds, KeptKeeps
<1>2. CASE CallStep
  <2>1. ~PlaceMarketOrder /\ ~SettleMarketOrder
    BY DEF IInv, Calls, PlaceMarketOrder, SettleMarketOrder
  <2> QED BY <1>2, <2>1, MatchLevelFunds, MatchOrderFunds, KeptKeeps DEF CallStep
<1>3. ASSUME NEW a \in Accounts, NEW n \in Supplies, Issue(a, n)
      PROVE  FInv' /\ (EInv => EInv')
  BY <1>3, IssueFunds
<1>4. ASSUME NEW a \in Accounts, NEW b \in Accounts, NEW t \in DOMAIN tokens,
             NEW n \in Transfers, Transfer(a, b, t, n)
      PROVE  Kept
  BY <1>4, TransferFunds
<1>5. ASSUME NEW a, NEW b, NEW q, CreateTradePair(a, b, q)
      PROVE  Kept
  BY <1>5, CreateTradePairFunds
<1>6. ASSUME NEW o \in LimitOrders, NEW p \in DOMAIN pairs,
             CreateLimitOrder(o[1], p, o[2], o[3], o[4])
      PROVE  Kept
  BY <1>6, PlaceFunds
<1>7. ASSUME NEW a, NEW h, CancelLimitOrder(a, h) PROVE Kept
  BY <1>7, CancelFunds
<1>8. MarketOrders = {}
  BY DEF Regular
<1> QED BY <1>1, <1>2, <1>3, <1>4, <1>5, <1>6, <1>7, <1>8, KeptKeeps DEF Next

-----------------------------------------------------------------------------
(* What the invariants say. *)

(* do_freeze has no check that ever fails (the sum is compared after it    *)
(* wrapped), and a trade of an account with itself makes tokens: what is   *)
(* frozen is what the unfinished orders still sell modulo the width of a   *)
(* balance.                                                                *)
FrozenModuloWidth ==
  \A h \in T!Holdings :
    \E q \in Nat : RemainingOf(h[1], h[2]) = ledger.freezed[h] + q * (MaxAmount + 1)

LEMMA HoldingsArePairs ==
  ASSUME NEW h \in T!Holdings
  PROVE  h = <<h[1], h[2]>> /\ h[1] \in Accounts /\ h[2] \in TokensThereCanBe
  BY SameSets

LEMMA OrdersAreAMap ==
  ASSUME IInv
  PROVE  OrderMap(orders)
<1>1. StorageOK(pairs, pairAt, orders, lists, nonce, Taking)
  BY DEF IInv
<1> QED BY <1>1, StoredOrders

LEMMA FundsModulo ==
  ASSUME IInv, FInv
  PROVE  FrozenModuloWidth
<1> SUFFICES ASSUME NEW h \in T!Holdings
             PROVE  Wraps(RemainingOf(h[1], h[2]), ledger.freezed[h])
  BY DEF FrozenModuloWidth, Wraps
<1>1. RemainingOf(h[1], h[2]) = Offered(orders, h)
  BY HoldingsArePairs, OrdersAreAMap, OfferedIsRemaining
<1> QED BY <1>1 DEF FInv, BackedModulo

LEMMA FundsExact ==
  ASSUME IInv, EInv
  PROVE  FrozenIsRemaining
<1> SUFFICES ASSUME NEW h \in T!Holdings
             PROVE  ledger.freezed[h] = RemainingOf(h[1], h[2])
  BY DEF FrozenIsRemaining
<1>1. RemainingOf(h[1], h[2]) = Offered(orders, h)
  BY HoldingsArePairs, OrdersAreAMap, OfferedIsRemaining
<1> QED BY <1>1 DEF EInv, Exactly, Backed

LEMMA FundsCovered ==
  ASSUME IInv, FInv, EInv
  PROVE  FrozenCoversOrders
<1> SUFFICES ASSUME NEW h \in T!Holdings
             PROVE  ledger.freezed[h] >= RemainingOf(h[1], h[2])
  BY DEF FrozenCoversOrders
<1>1. ledger.freezed[h] = RemainingOf(h[1], h[2])
  BY FundsExact DEF FrozenIsRemaining
<1>2. ledger.freezed[h] \in Nat
  BY WhatInvSays, FrozenType
<1> QED BY <1>1, <1>2

LEMMA SameSum == \A f, S : T!SumFunctionOnSet(f, S) = TP!SumFunctionOnSet(f, S)
  BY DEF T!SumFunctionOnSet, TP!SumFunctionOnSet, T!FoldFunctionOnSet, TP!FoldFunctionOnSet,
     T!MapThenFoldSet, TP!MapThenFoldSet

LEMMA SuppliesKept ==
  ASSUME EInv
  PROVE  SupplyConserved
<1>1. TP!SupplyConserved
  BY AssumptionsOfTokens, TP!SupplyInLedger DEF EInv, Exactly, TP!Whole, TP!Supplied
<1> QED
  BY <1>1, SameSum DEF SupplyConserved, T!SupplyConserved, TP!SupplyConserved, T!Owned,
     TP!Owned, T!TokenHashes, TP!TokenHashes, T!GetOr, TP!GetOr

(* do_unfreeze finds the key of the order's owner, and enough frozen. *)
LEMMA CancelIsPaid ==
  ASSUME IInv, FInv, EInv, NEW h \in Live
  PROVE  T!CanUnfreeze(ledger, orders[h].owner, Sells(orders[h]), orders[h].remainedSell)
<1> DEFINE o == orders[h]
           k == Key(o)
<1>1. h \in DOMAIN orders /\ ~IsFinished(o) /\ OrderMap(orders) /\ o \in OrderSet
  BY OrdersAreAMap DEF Live, OrderMap
<1>2. TP!Sound(ledger) /\ DOMAIN tokens \subseteq TokensThereCanBe
  BY WhatInvSays
<1>3. Sells(o) \in DOMAIN tokens /\ k \in ledger.held
  BY <1>1 DEF FInv, KeysHeld
<1>4. k \in T!Holdings /\ k = <<o.owner, Sells(o)>>
  BY <1>1, <1>2, <1>3, SameSets DEF Key, OrderSet
<1>5. ledger.freezed[k] = Offered(orders, k)
  BY <1>4 DEF EInv, Exactly, Backed
<1>6. o.remainedSell <= Offered(orders, k) /\ o.remainedSell \in Nat /\ o.remainedSell <= MaxAmount
  <2>1. Due(o, k) = o.remainedSell
    BY <1>1 DEF Due
  <2>2. Due(o, k) <= Offered(orders, k)
    BY <1>1, OfferedType
  <2> QED BY <1>1, <2>1, <2>2, AssumptionsOfTokens DEF OrderSet, Amount
<1>7. ledger.freezed[k] \in Nat /\ ledger.free[k] \in Nat /\ ledger.free[k] <= MaxAmount
  <2>1. ledger.free \in [T!Holdings -> Amount]
    BY <1>2, SameTokens, SameSets DEF TP!Sound, TP!Good, TP!Ledgers
  <2> QED BY <1>2, <1>4, <2>1, FrozenType, AssumptionsOfTokens DEF Amount
<1> HIDE DEF o, k
<1>8. T!Enough(ledger.freezed[k], o.remainedSell)
  BY <1>5, <1>6, <1>7 DEF T!Enough
<1>9. T!NoOverflow(ledger.free[k], o.remainedSell)
  BY <1>6, <1>7, AssumptionsOfTokens DEF T!NoOverflow, T!WrapAdd
<1>10. T!CanUnfreeze(ledger, o.owner, Sells(o), o.remainedSell)
  BY <1>3, <1>4, <1>8, <1>9 DEF T!CanUnfreeze, T!Holds
<1> QED BY <1>10 DEF o

LEMMA CancelIsPossible ==
  ASSUME IInv, FInv, EInv
  PROVE  OrdersCanBeCanceled
<1> SUFFICES ASSUME Quiet, NEW h \in Live PROVE CanCancel(orders[h].owner, h)
  BY DEF OrdersCanBeCanceled
<1> DEFINE pair == PairIn(pairAt, orders[h])
<1>1. StorageOK(pairs, pairAt, orders, lists, nonce, {})
  BY QuietStorage
<1>2. h \in DOMAIN orders /\ ~IsFinished(orders[h])
  BY DEF Live
<1>3. pair \in DOMAIN lists /\ Queued(lists[pair], orders[h].price, h)
  BY <1>1, <1>2 DEF StorageOK, Complete
<1>4. List(pair) = lists[pair]
  BY <1>3 DEF List, GetOr
<1>5. CanRemoveOrder(List(pair), orders[h].price, h)
  BY <1>3, <1>4 DEF CanRemoveOrder, Queued
<1>6. T!CanUnfreeze(ledger, orders[h].owner, Sells(orders[h]), orders[h].remainedSell)
  BY CancelIsPaid
<1> QED BY <1>2, <1>5, <1>6 DEF CanCancel, PairIn

LEMMA TypesOfInvariants ==
  ASSUME IInv, FInv
  PROVE  TypeOK
<1>1. /\ nonce \in Nat /\ PairsOK(pairs, pairAt, nonce) /\ DOMAIN lists \subseteq DOMAIN pairs
      /\ \A h \in DOMAIN orders : OrderOK(pairAt, h, orders[h], nonce)
  BY DEF IInv, StorageOK
<1>2. ledger \in T!Ledgers
  BY SameTokens DEF FInv, TP!IInv, TP!TypeOK
<1>3. ASSUME NEW h \in DOMAIN orders
      PROVE  /\ h < nonce
             /\ orders[h].owner \in Accounts
             /\ orders[h].otype \in OrderTypes
             /\ {orders[h].sellAmount, orders[h].buyAmount,
                 orders[h].remainedSell, orders[h].remainedBuy} \subseteq Amount
             /\ orders[h].status \in {"Created", "PartialFilled", "Filled", "Canceled"}
  BY <1>1 DEF OrderOK, OrderSet, Statuses
<1>4. \A p \in DOMAIN pairs : pairAt[<<pairs[p].base, pairs[p].quote>>] = p
  BY <1>1 DEF PairsOK
<1>5. call.phase \in {"idle", "market", "match", "trade", "settle", "looping"}
  BY DEF IInv, Calls
<1> QED BY <1>1, <1>2, <1>3, <1>4, <1>5 DEF TypeOK, FInv

-----------------------------------------------------------------------------
(* Callers of whom each is on one side of the market meet no order of      *)
(* their own.                                                              *)

OneSided == \A o, p \in LimitOrders : o[1] = p[1] => o[2] = p[2]

(* An order has the owner and the side of one of the orders callers place. *)
ByTerms(os) ==
  \A h \in DOMAIN os : \E o \in LimitOrders : os[h].owner = o[1] /\ os[h].otype = o[2]

SInv == ByTerms(orders) /\ (InProgress => ByTerms(saved.orders))

LEMMA TermsAreKept ==
  ASSUME NEW os, ByTerms(os), NEW os1, DOMAIN os1 = DOMAIN os,
         \A h \in DOMAIN os : os1[h].owner = os[h].owner /\ os1[h].otype = os[h].otype
  PROVE  ByTerms(os1)
  BY DEF ByTerms

LEMMA SidesOfMatch ==
  ASSUME IInv, MatchOrder
  PROVE  \/ Rollback
         \/ /\ DOMAIN orders' = DOMAIN orders /\ saved' = saved
            /\ \A h \in DOMAIN orders : /\ orders'[h].owner = orders[h].owner
                                        /\ orders'[h].otype = orders[h].otype
<1> DEFINE hash == Head(call.queue)
<1>1. call.phase = "trade" /\ InProgress
  BY Zenon DEF MatchOrder, InProgress
<1>2. /\ call.order \in DOMAIN orders /\ Taker \in OrderSet /\ Taker = orders[call.order]
      /\ hash \in DOMAIN orders /\ orders[hash] \in OrderSet /\ hash # call.order
  BY <1>1, TheTaker, TheMaker DEF Taker
<1> HIDE DEF hash
<1>3. ASSUME NEW give, NEW have,
             orders' = [orders EXCEPT ![call.order] = AfterTrade(Taker, give, have),
                                      ![hash] = AfterTrade(orders[hash], have, give)]
      PROVE  /\ DOMAIN orders' = DOMAIN orders
             /\ \A h \in DOMAIN orders : /\ orders'[h].owner = orders[h].owner
                                         /\ orders'[h].otype = orders[h].otype
  <2>1. \A o \in OrderSet : \A x, y : /\ AfterTrade(o, x, y).owner = o.owner
                                      /\ AfterTrade(o, x, y).otype = o.otype
    BY DEF AfterTrade, OrderSet
  <2>2. /\ orders'[hash] = AfterTrade(orders[hash], have, give)
        /\ orders'[call.order] = AfterTrade(Taker, give, have)
        /\ \A h \in DOMAIN orders \ {hash, call.order} : orders'[h] = orders[h]
    BY <1>2, <1>3
  <2> QED BY <1>2, <1>3, <2>1, <2>2
<1>4. CASE NeverEnds
  BY <1>4 DEF NeverEnds, orderVars
<1>5. \/ Rollback \/ NeverEnds
      \/ /\ saved' = saved
         /\ \E give, have :
              orders' = [orders EXCEPT ![call.order] = AfterTrade(Taker, give, have),
                                       ![hash] = AfterTrade(orders[hash], have, give)]
  <2> DEFINE ex == CalculateExAmount(orders[hash], Taker)
             give == IF Taker.otype = "Buy" THEN ex.base ELSE ex.quote
             have == IF Taker.otype = "Buy" THEN ex.quote ELSE ex.base
  <2>1. \/ Rollback \/ NeverEnds
        \/ /\ saved' = saved
           /\ orders' = [orders EXCEPT ![call.order] = AfterTrade(Taker, give, have),
                                       ![hash] = AfterTrade(orders[hash], have, give)]
    BY Zenon DEF MatchOrder, hash
  <2> HIDE DEF give, have
  <2> QED BY <2>1
<1> QED BY <1>3, <1>4, <1>5

LEMMA SidesStep ==
  ASSUME Regular, IInv, SInv, [Next]_vars
  PROVE  SInv'
<1>1. ASSUME Rollback, InProgress PROVE SInv'
  <2>1. orders' = saved.orders /\ call' = Idle
    BY <1>1 DEF Rollback
  <2> QED BY <1>1, <2>1, IdleIsACall DEF SInv, InProgress
<1>2. CASE MatchOrder
  <2>1. InProgress
    BY <1>2, Zenon DEF MatchOrder, InProgress
  <2>2. CASE Rollback
    BY <1>1, <2>1, <2>2
  <2>3. CASE /\ DOMAIN orders' = DOMAIN orders /\ saved' = saved
             /\ \A h \in DOMAIN orders : /\ orders'[h].owner = orders[h].owner
                                         /\ orders'[h].otype = orders[h].otype
    <3>1. ByTerms(orders')
      BY <2>3, TermsAreKept DEF SInv
    <3> QED BY <2>1, <2>3, <3>1 DEF SInv
  <2> QED BY <1>2, <2>2, <2>3, SidesOfMatch
<1>3. CASE MatchLevel
  <2>1. InProgress
    BY <1>3 DEF MatchLevel, InProgress
  <2>2. CASE FinishPlacing
    <3>1. orders' = orders /\ call' = Idle
      BY <2>2 DEF FinishPlacing, AfterPlacing, IInv, Calls
    <3> QED BY <3>1, IdleIsACall DEF SInv, InProgress
  <2>3. CASE orders' = orders /\ saved' = saved
    BY <2>1, <2>3 DEF SInv
  <2>4. \/ Rollback \/ FinishPlacing \/ (orders' = orders /\ saved' = saved)
    BY <1>3 DEF MatchLevel, NeverEnds, orderVars
  <2> QED BY <1>1, <2>1, <2>2, <2>3, <2>4
<1>4. ASSUME NEW o \in LimitOrders, NEW p, CreateLimitOrder(o[1], p, o[2], o[3], o[4])
      PROVE  SInv'
  <2> DEFINE new == NewOrder(o[1], p, o[2], o[3], o[4])
  <2>1. orders' = Put(orders, nonce, new) /\ saved' = Storage
    BY <1>4 DEF CreateLimitOrder, Place
  <2>2. new.owner = o[1] /\ new.otype = o[2]
    BY DEF NewOrder
  <2> HIDE DEF new
  <2>3. ByTerms(orders')
    BY <2>1, <2>2 DEF Put, ByTerms, SInv
  <2>4. saved'.orders = orders
    BY <2>1 DEF Storage
  <2> QED BY <2>3, <2>4 DEF SInv
<1>5. ASSUME NEW a, NEW h, CancelLimitOrder(a, h)
      PROVE  SInv'
  <2>1. /\ orders' = [orders EXCEPT ![h].status = "Canceled"] /\ h \in DOMAIN orders
        /\ call' = call /\ call.phase = "idle"
    BY <1>5 DEF CancelLimitOrder, Ready, callVars
  <2>2. orders[h] \in OrderSet
    BY <2>1, OrdersAreAMap DEF OrderMap
  <2>3. \A x \in DOMAIN orders : orders'[x].owner = orders[x].owner
                                 /\ orders'[x].otype = orders[x].otype
    BY <2>1, <2>2 DEF OrderSet
  <2>4. ByTerms(orders')
    BY <2>1, <2>3, TermsAreKept DEF SInv
  <2> QED BY <2>1, <2>4 DEF SInv, InProgress
<1>6. ASSUME \/ OnInitialize \/ OnFinalize \/ UNCHANGED vars
             \/ \E a, n : Issue(a, n)
             \/ \E a, b, t, n : Transfer(a, b, t, n)
             \/ \E a, b, q : CreateTradePair(a, b, q)
      PROVE  SInv'
  <2>1. orders' = orders /\ call' = call /\ saved' = saved
    BY <1>6 DEF OnInitialize, OnFinalize, vars, Issue, Transfer, CreateTradePair, orderVars, callVars
  <2> QED BY <2>1 DEF SInv, InProgress
<1>7. MarketOrders = {} /\ ~PlaceMarketOrder /\ ~SettleMarketOrder
  BY DEF Regular, IInv, Calls, PlaceMarketOrder, SettleMarketOrder
<1> QED BY <1>2, <1>3, <1>4, <1>5, <1>6, <1>7 DEF Next, CallStep

LEMMA SidesDiffer ==
  ASSUME OneSided, IInv, SInv
  PROVE  NoSelfMatch
<1> SUFFICES ASSUME call.phase = "trade"
             PROVE  orders[Head(call.queue)].owner # Taker.owner
  BY DEF NoSelfMatch
<1> DEFINE maker == orders[Head(call.queue)]
<1>1. /\ Head(call.queue) \in DOMAIN orders /\ maker.otype = Opposite(Taker.otype)
      /\ call.order \in DOMAIN orders /\ Taker.otype \in OrderTypes
  BY TheMaker, TheTaker DEF InProgress
<1>2. maker.otype # Taker.otype
  BY <1>1 DEF Opposite, OrderTypes
<1>3. /\ \E o \in LimitOrders : maker.owner = o[1] /\ maker.otype = o[2]
      /\ \E o \in LimitOrders : Taker.owner = o[1] /\ Taker.otype = o[2]
  BY <1>1 DEF SInv, ByTerms, Taker
<1> QED BY <1>2, <1>3 DEF OneSided

-----------------------------------------------------------------------------
LEMMA FundsInvariant ==
  ASSUME Regular
  PROVE  Spec => [](IInv /\ FInv)
<1>1. Init => FInv
  BY FundsInit
<1>2. IInv /\ FInv /\ [Next]_vars => FInv'
  BY FundsStep
<1> QED BY <1>1, <1>2, InvariantHolds, PTL DEF Spec

LEMMA ExactInvariant ==
  ASSUME Regular
  PROVE  Spec /\ []NoSelfMatch => []EInv
<1>1. Init => EInv
  BY FundsInit
<1>2. IInv /\ FInv /\ EInv /\ NoSelfMatch /\ [Next]_vars => EInv'
  BY FundsStep
<1> QED BY <1>1, <1>2, FundsInvariant, PTL DEF Spec

(* While callers do what Regular says: do_create_limit_order, order_match  *)
(* and do_cancel_limit_order freeze and release, over any sequence of      *)
(* their calls and any rollback, what the orders still sell, modulo the    *)
(* width of a balance: also where an account trades with itself.           *)
THEOREM FrozenIsOffered ==
  ASSUME Regular
  PROVE  Spec => []FrozenModuloWidth
<1>1. IInv /\ FInv => FrozenModuloWidth
  BY FundsModulo
<1> QED BY <1>1, FundsInvariant, PTL

(* While callers do what Regular says, the order book and the balances     *)
(* keep the types of their fields.                                         *)
THEOREM BookIsTyped ==
  ASSUME Regular
  PROVE  Spec => []TypeOK
<1>1. IInv /\ FInv => TypeOK
  BY TypesOfInvariants
<1> QED BY <1>1, FundsInvariant, PTL

(* While callers do what Regular says, and as long as no order meets one   *)
(* of its owner, what is frozen for an account is exactly what its         *)
(* unfinished orders still sell.                                           *)
THEOREM FrozenIsExact ==
  ASSUME Regular
  PROVE  Spec /\ []NoSelfMatch => []FrozenIsRemaining
<1>1. IInv /\ EInv => FrozenIsRemaining
  BY FundsExact
<1> QED BY <1>1, FundsInvariant, ExactInvariant, PTL

(* So, under the same hypotheses, no unfinished order lacks the funds      *)
(* order_match will pay with.                                              *)
THEOREM FrozenSuffices ==
  ASSUME Regular
  PROVE  Spec /\ []NoSelfMatch => []FrozenCoversOrders
<1>1. IInv /\ FInv /\ EInv => FrozenCoversOrders
  BY FundsCovered
<1> QED BY <1>1, FundsInvariant, ExactInvariant, PTL

(* Under the same hypotheses order_match pays both sides without making or *)
(* losing a token: in every state the accounts together own the supply     *)
(* that was issued.                                                        *)
THEOREM TradesConserveSupply ==
  ASSUME Regular
  PROVE  Spec /\ []NoSelfMatch => []SupplyConserved
<1>1. EInv => SupplyConserved
  BY SuppliesKept
<1> QED BY <1>1, ExactInvariant, PTL

(* Under the same hypotheses do_cancel_limit_order never refuses the owner *)
(* of an unfinished order: remove_order finds it in its level, and         *)
(* do_unfreeze finds its funds.                                            *)
THEOREM UnfinishedCanBeCanceled ==
  ASSUME Regular
  PROVE  Spec /\ []NoSelfMatch => []OrdersCanBeCanceled
<1>1. IInv /\ FInv /\ EInv => OrdersCanBeCanceled
  BY CancelIsPossible
<1> QED BY <1>1, FundsInvariant, ExactInvariant, PTL

(* What is asked of the matches above is so when callers do what Regular   *)
(* says and every account only buys or only sells: order_match looks for   *)
(* orders of the other side.                                               *)
THEOREM OneSidedNeverMeet ==
  ASSUME Regular, OneSided
  PROVE  Spec => []NoSelfMatch
<1>1. Init => SInv
  BY IdleIsACall DEF Init, SInv, ByTerms, EmptyMap, InProgress
<1>2. IInv /\ SInv /\ [Next]_vars => SInv'
  BY SidesStep
<1>3. IInv /\ SInv => NoSelfMatch
  BY SidesDiffer
<1> QED BY <1>1, <1>2, <1>3, InvariantHolds, PTL DEF Spec

-----------------------------------------------------------------------------
(* The prices orders trade at.  ExchangeProofs speaks of two orders by     *)
(* themselves; what follows is that the orders order_match brings together *)
(* are such orders, and what their trades come to.                         *)

EP == INSTANCE ExchangeProofs WITH OrderPrices <- {}, OrderAmounts <- {},
                                   taker <- NoPrice, maker <- NoPrice, last <- NoPrice

LEMMA AssumptionsOfExchange ==
  /\ MaxAmount \in Nat /\ PriceFactor \in Nat \ {0}
  /\ {} \cup {} \subseteq 0 .. MaxAmount
  /\ \A price \in {}, amount \in {} :
       /\ amount * PriceFactor <= MaxAmount
       /\ EP!ToBase(amount, price) * PriceFactor <= MaxAmount
  BY MathAssumption

(* The products of calculate_ex_amount, which are not checked, fit a u128: *)
(* the largest is PriceFactor times the base amount of an order.           *)
ProductsFit ==
  \A o \in LimitOrders :
    (IF o[2] = "Buy" THEN o[4] ELSE ToBase(o[4], o[3])) * PriceFactor <= MaxAmount

TermRecord(ot, p, s, b, rs, rb, st) ==
  [otype |-> ot, price |-> p, sellAmount |-> s, buyAmount |-> b,
   remainedSell |-> rs, remainedBuy |-> rb, status |-> st]

(* An order as Exchange sees it. *)
Terms(o) == TermRecord(o.otype, o.price, o.sellAmount, o.buyAmount,
                       o.remainedSell, o.remainedBuy, o.status)

TermsLeft(r, x, y, z) == [r EXCEPT !.remainedSell = x, !.remainedBuy = y, !.status = z]

LEMMA TermsReduced ==
  ASSUME NEW ot, NEW p, NEW s, NEW b, NEW rs, NEW rb, NEW st, NEW x, NEW y, NEW z
  PROVE  TermsLeft(TermRecord(ot, p, s, b, rs, rb, st), x, y, z)
           = TermRecord(ot, p, s, b, x, y, z)
<1>1. TermsLeft(TermRecord(ot, p, s, b, rs, rb, st), x, y, z)
        = [[[TermRecord(ot, p, s, b, rs, rb, st)
               EXCEPT !.remainedSell = x] EXCEPT !.remainedBuy = y] EXCEPT !.status = z]
  BY DEF TermsLeft
<1>2. [TermRecord(ot, p, s, b, rs, rb, st) EXCEPT !.remainedSell = x]
        = TermRecord(ot, p, s, b, x, rb, st)
  BY DEF TermRecord
<1>3. [TermRecord(ot, p, s, b, x, rb, st) EXCEPT !.remainedBuy = y]
        = TermRecord(ot, p, s, b, x, y, st)
  BY DEF TermRecord
<1>4. [TermRecord(ot, p, s, b, x, y, st) EXCEPT !.status = z]
        = TermRecord(ot, p, s, b, x, y, z)
  BY DEF TermRecord
<1> QED BY <1>1, <1>2, <1>3, <1>4

LEMMA SameMath ==
  /\ \A o \in OrderSet : \A g, h :
       Terms(AfterTrade(o, g, h)) = EP!AfterTrade(Terms(o), g, h)
  /\ \A m, t : CalculateExAmount(m, t) = EP!CalculateExAmount(Terms(m), Terms(t))
  /\ \A x, ot, y : PriceMatched(x, ot, y) <=> EP!PriceMatched(x, ot, y)
  /\ \A ot : Opposite(ot) = EP!Opposite(ot)
  /\ OrderTypes = EP!OrderTypes
<1>1. ASSUME NEW o \in OrderSet, NEW g, NEW h
      PROVE  Terms(AfterTrade(o, g, h)) = EP!AfterTrade(Terms(o), g, h)
  <2> DEFINE sell == IF o.remainedBuy = h THEN 0 ELSE o.remainedSell - g
             buy == o.remainedBuy - h
             status == IF o.remainedBuy = h THEN "Filled"
                       ELSE IF o.remainedSell = o.sellAmount THEN "PartialFilled" ELSE o.status
  <2>1. AfterTrade(o, g, h) = [o EXCEPT !.remainedSell = sell, !.remainedBuy = buy, !.status = status]
    BY DEF OrderSet, AfterTrade
  <2>2. EP!AfterTrade(Terms(o), g, h)
          = TermsLeft(Terms(o), sell, buy, status)
    BY DEF EP!AfterTrade, Terms, TermRecord, TermsLeft
  <2> HIDE DEF sell, buy, status
  <2>3. Terms([o EXCEPT !.remainedSell = sell, !.remainedBuy = buy, !.status = status])
          = TermRecord(o.otype, o.price, o.sellAmount, o.buyAmount, sell, buy, status)
    BY DEF OrderSet, Terms, TermRecord
  <2>4. TermsLeft(Terms(o), sell, buy, status)
          = TermRecord(o.otype, o.price, o.sellAmount, o.buyAmount, sell, buy, status)
    BY TermsReduced DEF Terms
  <2> QED BY <2>1, <2>2, <2>3, <2>4
<1>2. ASSUME NEW m, NEW t
      PROVE  CalculateExAmount(m, t) = EP!CalculateExAmount(Terms(m), Terms(t))
  BY DEF CalculateExAmount, EP!CalculateExAmount, SellerFilled, EP!SellerFilled, FillSeller,
     EP!FillSeller, FillBuyer, EP!FillBuyer, ExQuote, EP!ExQuote, ExBase, EP!ExBase, MulWrap,
     EP!MulWrap, AddWrap, EP!AddWrap, Terms, TermRecord
<1> QED BY <1>1, <1>2 DEF PriceMatched, EP!PriceMatched, Opposite, EP!Opposite, OrderTypes,
        EP!OrderTypes

(* What is true of the terms of every order, from the moment it is placed: *)
(* what is left of it can be paid for at its price, it was to be exchanged *)
(* at exactly its price, and it is finished when it asks for nothing more. *)
Priced(o) ==
  /\ EP!Sound(Terms(o))
  /\ EP!ExactTerms(o.otype, o.price, o.sellAmount, o.buyAmount)
  /\ ~IsFinished(o) => o.remainedBuy > 0

-----------------------------------------------------------------------------
(* What the trades recorded for an order come to. *)

Given(ts, ids, o) == SumFunctionOnSet([k \in ids |-> GivenIn(ts[k], o)], ids)
Taken(ts, ids, o) == SumFunctionOnSet([k \in ids |-> TakenIn(ts[k], o)], ids)

FilledAsTraded(o, ids, ts) ==
  /\ Taken(ts, ids, o) = o.buyAmount - o.remainedBuy
  /\ EP!AtItsPrice(o, Given(ts, ids, o), Taken(ts, ids, o))
  /\ o.status # "Filled" => Given(ts, ids, o) = o.sellAmount - o.remainedSell

TradesOK(ts, n) ==
  /\ n \in Nat
  /\ \A k \in DOMAIN ts : /\ k \in Nat /\ k < n
                          /\ ts[k].baseAmount \in Nat \ {0} /\ ts[k].quoteAmount \in Nat \ {0}

LEMMA TermsOf ==
  ASSUME NEW o \in OrderSet
  PROVE  /\ o.sellAmount \in Nat /\ o.buyAmount \in Nat
         /\ o.remainedSell \in Nat /\ o.remainedBuy \in Nat
         /\ o.price \in Nat \ {0} /\ o.otype \in OrderTypes
         /\ Terms(o).otype = o.otype /\ Terms(o).price = o.price
         /\ Terms(o).sellAmount = o.sellAmount /\ Terms(o).buyAmount = o.buyAmount
         /\ Terms(o).remainedSell = o.remainedSell /\ Terms(o).remainedBuy = o.remainedBuy
         /\ Terms(o).status = o.status
  BY MathAssumption DEF OrderSet, Amount, Terms, TermRecord

LEMMA TradedSums ==
  ASSUME NEW ts, NEW n, TradesOK(ts, n), NEW ids \in SUBSET DOMAIN ts, IsFiniteSet(ids), NEW o
  PROVE  Given(ts, ids, o) \in Nat /\ Taken(ts, ids, o) \in Nat
<1> DEFINE g == [k \in ids |-> GivenIn(ts[k], o)]
           f == [k \in ids |-> TakenIn(ts[k], o)]
<1>1. \A k \in ids : g[k] \in Nat /\ f[k] \in Nat
  BY DEF TradesOK, GivenIn, TakenIn
<1> HIDE DEF f, g
<1>2. SumFunctionOnSet(g, ids) \in Nat
  BY <1>1, SumType
<1>3. SumFunctionOnSet(f, ids) \in Nat
  BY <1>1, SumType
<1> QED BY <1>2, <1>3 DEF f, g, Given, Taken

(* The sums, once a trade is added. *)
LEMMA OneTradeMore ==
  ASSUME NEW ts, NEW n, TradesOK(ts, n), NEW ids \in SUBSET DOMAIN ts, IsFiniteSet(ids),
         NEW o, NEW o1, o1.otype = o.otype,
         NEW trade, NEW give \in Nat, NEW have \in Nat,
         GivenIn(trade, o) = give, TakenIn(trade, o) = have
  PROVE  /\ Given(Put(ts, n, trade), ids \cup {n}, o1) = Given(ts, ids, o) + give
         /\ Taken(Put(ts, n, trade), ids \cup {n}, o1) = Taken(ts, ids, o) + have
<1> DEFINE new == Put(ts, n, trade)
           ids1 == ids \cup {n}
           g == [k \in ids |-> GivenIn(ts[k], o)]
           f == [k \in ids |-> TakenIn(ts[k], o)]
           g1 == [k \in ids1 |-> GivenIn(new[k], o1)]
           f1 == [k \in ids1 |-> TakenIn(new[k], o1)]
<1>1. n \notin ids
  BY DEF TradesOK
<1>2. \A k \in ids : new[k] = ts[k]
  BY <1>1 DEF Put
<1>3. new[n] = trade
  BY DEF Put
<1>4. \A k \in ids : g[k] = g1[k] /\ f[k] = f1[k] /\ g[k] \in Int /\ f[k] \in Int
  BY <1>2 DEF TradesOK, GivenIn, TakenIn
<1>5. g1[n] = give /\ f1[n] = have
  BY <1>3 DEF GivenIn, TakenIn
<1>6. Given(new, ids1, o1) = SumFunctionOnSet(g1, ids1) /\ Given(ts, ids, o) = SumFunctionOnSet(g, ids)
  BY DEF Given
<1>7. Taken(new, ids1, o1) = SumFunctionOnSet(f1, ids1) /\ Taken(ts, ids, o) = SumFunctionOnSet(f, ids)
  BY DEF Taken
<1> HIDE DEF g, f, g1, f1, new
<1>8. SumFunctionOnSet(g1, ids \cup {n}) = SumFunctionOnSet(g, ids) + g1[n]
  <2>1. \A k \in ids : g[k] = g1[k]
    BY ONLY <1>4
  <2>2. \A k \in ids \cup {n} : g1[k] \in Int
    BY ONLY <1>4, <1>5, give \in Nat
  <2> QED BY ONLY IsFiniteSet(ids), <1>1, <2>1, <2>2, SumWithOne, ZenonT(40)
<1>9. SumFunctionOnSet(f1, ids \cup {n}) = SumFunctionOnSet(f, ids) + f1[n]
  <2>1. \A k \in ids : f[k] = f1[k]
    BY ONLY <1>4
  <2>2. \A k \in ids \cup {n} : f1[k] \in Int
    BY ONLY <1>4, <1>5, have \in Nat
  <2> QED BY ONLY IsFiniteSet(ids), <1>1, <2>1, <2>2, SumWithOne, ZenonT(40)
<1> QED BY <1>5, <1>6, <1>7, <1>8, <1>9 DEF new

(* A trade that suits an order leaves it filled as its trades say: at its  *)
(* price, because what was given and what is left were, or, when it is     *)
(* filled, because no more was given than it offered.                      *)
LEMMA FilledOnceMore ==
  ASSUME NEW o \in OrderSet, Priced(o), ~IsFinished(o), o.status # "Filled",
         NEW ts, NEW n, TradesOK(ts, n), NEW ids \in SUBSET DOMAIN ts, IsFiniteSet(ids),
         FilledAsTraded(o, ids, ts),
         NEW trade, NEW give, NEW have, EP!Suits(Terms(o), give, have),
         GivenIn(trade, o) = give, TakenIn(trade, o) = have
  PROVE  /\ Priced(AfterTrade(o, give, have))
         /\ FilledAsTraded(AfterTrade(o, give, have), ids \cup {n}, Put(ts, n, trade))
<1> DEFINE o1 == AfterTrade(o, give, have)
           g == Given(ts, ids, o)
           t == Taken(ts, ids, o)
<1>1. /\ o.sellAmount \in Nat /\ o.buyAmount \in Nat
      /\ o.remainedSell \in Nat /\ o.remainedBuy \in Nat
      /\ o.price \in Nat /\ o.otype \in OrderTypes
      /\ PriceFactor \in Nat
  BY TermsOf, MathAssumption
<1>2. /\ give \in Nat /\ have \in Nat
      /\ give <= o.remainedSell /\ have <= o.remainedBuy
      /\ o.remainedBuy > have => EP!AtItsPrice(o, give, have)
  BY TermsOf DEF EP!Suits, EP!AtItsPrice
<1>3. /\ o1.otype = o.otype /\ o1.price = o.price
      /\ o1.sellAmount = o.sellAmount /\ o1.buyAmount = o.buyAmount
      /\ o1.remainedBuy = o.remainedBuy - have
      /\ o1.remainedSell = IF o.remainedBuy = have THEN 0 ELSE o.remainedSell - give
      /\ o.remainedBuy = have => o1.status = "Filled"
      /\ o.remainedBuy # have => o1.status # "Filled" /\ o1.status # "Canceled"
  BY <1>1 DEF AfterTrade, OrderSet, IsFinished
<1>4. Priced(o1)
  <2>1. EP!Sound(Terms(o)) /\ EP!ExactTerms(o.otype, o.price, o.sellAmount, o.buyAmount)
    BY DEF Priced
  <2>2. EP!Sound(EP!AfterTrade(Terms(o), give, have))
    BY <2>1, AssumptionsOfExchange, EP!SoundAfterTrade
  <2>3. EP!Sound(Terms(o1))
    BY <2>2, SameMath
  <2> HIDE DEF o1
  <2>4. ~IsFinished(o1) => o1.remainedBuy > 0
    BY <1>1, <1>2, <1>3 DEF IsFinished
  <2> QED BY <1>3, <2>1, <2>3, <2>4 DEF Priced
<1>5. /\ Given(Put(ts, n, trade), ids \cup {n}, o1) = g + give
      /\ Taken(Put(ts, n, trade), ids \cup {n}, o1) = t + have
  BY <1>2, <1>3, OneTradeMore
<1>6. /\ g \in Nat /\ t \in Nat
      /\ t = o.buyAmount - o.remainedBuy /\ g = o.sellAmount - o.remainedSell
      /\ EP!AtItsPrice(o, g, t)
  BY TradedSums DEF FilledAsTraded
<1> HIDE DEF o1, g, t
<1>7. EP!AtItsPrice(o1, g + give, t + have)
  <2>1. CASE o.remainedBuy > have
    <3>1. EP!AtItsPrice(o, give, have)
      BY <1>2, <2>1
    <3>2. /\ (g + give) * PriceFactor = g * PriceFactor + give * PriceFactor
          /\ (g + give) * o.price = g * o.price + give * o.price
          /\ (t + have) * PriceFactor = t * PriceFactor + have * PriceFactor
          /\ (t + have) * o.price = t * o.price + have * o.price
      BY <1>1, <1>2, <1>6
    <3>3. {g * PriceFactor, give * PriceFactor, g * o.price, give * o.price, t * PriceFactor,
           have * PriceFactor, t * o.price, have * o.price} \subseteq Nat
      BY <1>1, <1>2, <1>6, AssumptionsOfExchange, EP!Product
    <3> QED BY <1>3, <1>6, <3>1, <3>2, <3>3 DEF EP!AtItsPrice
  <2>2. CASE o.remainedBuy = have
    <3>1. g + give <= o.sellAmount /\ t + have = o.buyAmount
      BY <1>1, <1>2, <1>6, <2>2
    <3>2. EP!ExactTerms(o.otype, o.price, o.sellAmount, o.buyAmount)
      BY DEF Priced
    <3>3. /\ (g + give) * PriceFactor <= o.sellAmount * PriceFactor
          /\ (g + give) * o.price <= o.sellAmount * o.price
      BY <1>1, <1>2, <1>6, <3>1, AssumptionsOfExchange, EP!Monotone
    <3> QED BY <1>3, <3>1, <3>2, <3>3 DEF EP!AtItsPrice, EP!ExactTerms
  <2> QED BY <1>1, <1>2, <2>1, <2>2
<1>8. t + have = o1.buyAmount - o1.remainedBuy
  BY <1>1, <1>2, <1>3, <1>6
<1>9. o1.status # "Filled" => g + give = o1.sellAmount - o1.remainedSell
  BY <1>1, <1>2, <1>3, <1>6
<1> QED BY <1>4, <1>5, <1>7, <1>8, <1>9 DEF FilledAsTraded, o1

-----------------------------------------------------------------------------
(* The storage: Trades and OrderOwnedTrades account for all that the orders*)
(* have given and taken.                                                   *)

TradeIds(ti, h) == ToSet(GetOr(ti.order, h, <<>>))

OrderAccounted(o, h, ts, ti) ==
  /\ Priced(o)
  /\ GetOr(ti.order, h, <<>>) \in Seq(DOMAIN ts)
  /\ FilledAsTraded(o, TradeIds(ti, h), ts)

Accounted(os, ts, ti, n) ==
  /\ TradesOK(ts, n)
  /\ DOMAIN ti.order \subseteq DOMAIN os
  /\ \A h \in DOMAIN os : OrderAccounted(os[h], h, ts, ti)

LEMMA IdsOfSequence ==
  ASSUME NEW S, NEW s \in Seq(S)
  PROVE  ToSet(s) \subseteq S
  BY DEF ToSet

LEMMA TradesAreFinite ==
  ASSUME NEW ts, NEW n, TradesOK(ts, n)
  PROVE  \A ids \in SUBSET DOMAIN ts : IsFiniteSet(ids)
<1>1. n \in Nat /\ DOMAIN ts \subseteq 0 .. (n - 1)
  BY DEF TradesOK
<1>2. IsFiniteSet(0 .. (n - 1))
  BY <1>1, FS_Interval
<1> QED BY <1>1, <1>2, FS_Subset

LEMMA IdsWhenPushed ==
  ASSUME NEW S, NEW s \in Seq(S), NEW e
  PROVE  Append(s, e) \in Seq(S \cup {e}) /\ ToSet(Append(s, e)) = ToSet(s) \cup {e}
<1>1. s \in Seq(S \cup {e}) /\ e \in S \cup {e}
  OBVIOUS
<1>2. /\ Append(s, e) \in Seq(S \cup {e}) /\ Len(s) \in Nat
      /\ DOMAIN s = 1 .. Len(s) /\ DOMAIN Append(s, e) = 1 .. (Len(s) + 1)
      /\ \A i \in 1 .. Len(s) : Append(s, e)[i] = s[i]
      /\ Append(s, e)[Len(s) + 1] = e
  BY <1>1
<1>3. \A i \in 1 .. (Len(s) + 1) : i \in 1 .. Len(s) \/ i = Len(s) + 1
  BY <1>2
<1>4. ToSet(Append(s, e)) \subseteq ToSet(s) \cup {e}
  BY <1>2, <1>3 DEF ToSet
<1>5. ToSet(s) \cup {e} \subseteq ToSet(Append(s, e))
  BY <1>2 DEF ToSet
<1> QED BY <1>2, <1>4, <1>5

PushedBoth(m, a, b, e, new) ==
  /\ DOMAIN new = DOMAIN m \cup {a, b}
  /\ GetOr(new, a, <<>>) = Append(GetOr(m, a, <<>>), e)
  /\ GetOr(new, b, <<>>) = Append(GetOr(m, b, <<>>), e)
  /\ \A k : k \notin {a, b} => GetOr(new, k, <<>>) = GetOr(m, k, <<>>)

LEMMA PushedTwice ==
  ASSUME NEW m, NEW a, NEW b, a # b, NEW e
  PROVE  PushedBoth(m, a, b, e, PushTo(PushTo(m, a, e), b, e))
<1>1. ASSUME NEW f, NEW k
      PROVE  /\ DOMAIN PushTo(f, k, e) = DOMAIN f \cup {k}
             /\ GetOr(PushTo(f, k, e), k, <<>>) = Append(GetOr(f, k, <<>>), e)
             /\ \A j : j # k => GetOr(PushTo(f, k, e), j, <<>>) = GetOr(f, j, <<>>)
  BY DEF PushTo, Put, GetOr
<1> DEFINE first == PushTo(m, a, e)
<1>2. /\ DOMAIN first = DOMAIN m \cup {a}
      /\ GetOr(first, a, <<>>) = Append(GetOr(m, a, <<>>), e)
      /\ \A j : j # a => GetOr(first, j, <<>>) = GetOr(m, j, <<>>)
  BY <1>1
<1> HIDE DEF first
<1>3. /\ DOMAIN PushTo(first, b, e) = DOMAIN first \cup {b}
      /\ GetOr(PushTo(first, b, e), b, <<>>) = Append(GetOr(first, b, <<>>), e)
      /\ \A j : j # b => GetOr(PushTo(first, b, e), j, <<>>) = GetOr(first, j, <<>>)
  BY <1>1
<1>4. PushedBoth(m, a, b, e, PushTo(first, b, e))
  BY <1>2, <1>3 DEF PushedBoth
<1> QED BY <1>4 DEF first

(* The trades of the other orders come to what they came to. *)
LEMMA SameTrades ==
  ASSUME NEW ts, NEW n, TradesOK(ts, n), NEW trade, NEW h, NEW o, NEW ti, NEW ti1,
         GetOr(ti1.order, h, <<>>) = GetOr(ti.order, h, <<>>),
         OrderAccounted(o, h, ts, ti)
  PROVE  OrderAccounted(o, h, Put(ts, n, trade), ti1)
<1> DEFINE ids == TradeIds(ti, h)
           new == Put(ts, n, trade)
<1>1. TradeIds(ti1, h) = ids /\ GetOr(ti.order, h, <<>>) \in Seq(DOMAIN ts)
  BY DEF TradeIds, OrderAccounted
<1>2. ids \subseteq DOMAIN ts /\ n \notin DOMAIN ts
  BY <1>1, IdsOfSequence DEF TradeIds, TradesOK
<1>3. \A k \in ids : new[k] = ts[k]
  BY <1>2 DEF Put
<1>4. DOMAIN new = DOMAIN ts \cup {n}
  BY DEF Put
<1> HIDE DEF new, ids
<1>5. Given(new, ids, o) = Given(ts, ids, o) /\ Taken(new, ids, o) = Taken(ts, ids, o)
  <2>1. [k \in ids |-> GivenIn(new[k], o)] = [k \in ids |-> GivenIn(ts[k], o)]
    BY <1>3
  <2>2. [k \in ids |-> TakenIn(new[k], o)] = [k \in ids |-> TakenIn(ts[k], o)]
    BY <1>3
  <2> QED BY <2>1, <2>2 DEF Given, Taken
<1>6. GetOr(ti1.order, h, <<>>) \in Seq(DOMAIN new)
  BY <1>1, <1>4
<1> QED BY <1>1, <1>5, <1>6 DEF OrderAccounted, FilledAsTraded, new, ids

(* One of the two orders of a trade, which is recorded for both. *)
LEMMA TradeAccounted ==
  ASSUME NEW o \in OrderSet, ~IsFinished(o), o.status # "Filled",
         NEW ts, NEW n, TradesOK(ts, n), NEW ti, NEW ti1, NEW h, OrderAccounted(o, h, ts, ti),
         GetOr(ti1.order, h, <<>>) = Append(GetOr(ti.order, h, <<>>), n),
         NEW trade, NEW give, NEW have, EP!Suits(Terms(o), give, have),
         GivenIn(trade, o) = give, TakenIn(trade, o) = have
  PROVE  OrderAccounted(AfterTrade(o, give, have), h, Put(ts, n, trade), ti1)
<1> DEFINE ids == TradeIds(ti, h)
           s == GetOr(ti.order, h, <<>>)
           o1 == AfterTrade(o, give, have)
           new == Put(ts, n, trade)
<1>1. s \in Seq(DOMAIN ts) /\ Priced(o) /\ FilledAsTraded(o, ids, ts)
  BY DEF OrderAccounted
<1>2. ids \subseteq DOMAIN ts /\ IsFiniteSet(ids)
  <2>1. ids \subseteq DOMAIN ts
    BY <1>1, IdsOfSequence DEF TradeIds
  <2> QED BY <2>1, TradesAreFinite
<1>3. DOMAIN new = DOMAIN ts \cup {n} /\ ids = ToSet(s)
  BY DEF Put, TradeIds
<1> HIDE DEF new, s, ids
<1>4. Append(s, n) \in Seq(DOMAIN new) /\ ToSet(Append(s, n)) = ids \cup {n}
  BY ONLY <1>1, <1>3, IdsWhenPushed
<1> USE DEF new, s, ids
<1>5. TradeIds(ti1, h) = ids \cup {n}
  BY <1>4 DEF TradeIds
<1> HIDE DEF ids, s
<1>6. Priced(o1) /\ FilledAsTraded(o1, ids \cup {n}, new)
  BY <1>1, <1>2, FilledOnceMore
<1> QED BY <1>4, <1>5, <1>6 DEF OrderAccounted, s

LEMMA TradesWhenTraded ==
  ASSUME NEW ts, NEW n, TradesOK(ts, n), NEW trade,
         trade.baseAmount \in Nat \ {0}, trade.quoteAmount \in Nat \ {0}
  PROVE  TradesOK(Put(ts, n, trade), n + 1)
<1>1. n + 1 \in Nat /\ n < n + 1 /\ n \in Nat
  BY DEF TradesOK
<1>2. \A k \in DOMAIN ts : k < n + 1
  BY DEF TradesOK
<1>3. \A k \in DOMAIN Put(ts, n, trade) :
        IF k = n THEN Put(ts, n, trade)[k] = trade
                 ELSE k \in DOMAIN ts /\ Put(ts, n, trade)[k] = ts[k]
  BY DEF Put
<1> QED BY <1>1, <1>2, <1>3 DEF TradesOK

(* A trade of two orders. *)
LEMMA AccountedWhenTraded ==
  ASSUME NEW os, NEW ts, NEW ti, NEW n, Accounted(os, ts, ti, n),
         NEW t \in DOMAIN os, NEW hash \in DOMAIN os, t # hash,
         os[t] \in OrderSet, os[hash] \in OrderSet,
         ~IsFinished(os[t]), os[t].status # "Filled",
         ~IsFinished(os[hash]), os[hash].status # "Filled",
         NEW give, NEW have,
         EP!Suits(Terms(os[t]), give, have), EP!Suits(Terms(os[hash]), have, give),
         NEW trade, trade.baseAmount \in Nat \ {0}, trade.quoteAmount \in Nat \ {0},
         GivenIn(trade, os[t]) = give, TakenIn(trade, os[t]) = have,
         GivenIn(trade, os[hash]) = have, TakenIn(trade, os[hash]) = give,
         NEW ti1, ti1.order = PushTo(PushTo(ti.order, t, n), hash, n)
  PROVE  Accounted(TradedOrders(os, t, hash, give, have), Put(ts, n, trade), ti1, n + 1)
<1> DEFINE os1 == TradedOrders(os, t, hash, give, have)
           new == Put(ts, n, trade)
<1>1. /\ TradesOK(ts, n) /\ DOMAIN ti.order \subseteq DOMAIN os
      /\ \A h \in DOMAIN os : OrderAccounted(os[h], h, ts, ti)
  BY DEF Accounted
<1>2. /\ DOMAIN os1 = DOMAIN os
      /\ os1[t] = AfterTrade(os[t], give, have) /\ os1[hash] = AfterTrade(os[hash], have, give)
      /\ \A h \in DOMAIN os \ {t, hash} : os1[h] = os[h]
  BY DEF TradedOrders, TradedTaker
<1>3. /\ DOMAIN ti1.order = DOMAIN ti.order \cup {t, hash}
      /\ GetOr(ti1.order, t, <<>>) = Append(GetOr(ti.order, t, <<>>), n)
      /\ GetOr(ti1.order, hash, <<>>) = Append(GetOr(ti.order, hash, <<>>), n)
      /\ \A h : h \notin {t, hash} => GetOr(ti1.order, h, <<>>) = GetOr(ti.order, h, <<>>)
  <2>1. PushedBoth(ti.order, t, hash, n, PushTo(PushTo(ti.order, t, n), hash, n))
    BY PushedTwice
  <2> QED BY <2>1 DEF PushedBoth
<1> HIDE DEF os1, new
<1>4. TradesOK(new, n + 1)
  BY <1>1, TradesWhenTraded DEF new
<1>5. OrderAccounted(os1[t], t, new, ti1)
  BY <1>1, <1>2, <1>3, TradeAccounted DEF new
<1>6. OrderAccounted(os1[hash], hash, new, ti1)
  BY <1>1, <1>2, <1>3, TradeAccounted DEF new
<1>7. ASSUME NEW h \in DOMAIN os \ {t, hash} PROVE OrderAccounted(os1[h], h, new, ti1)
  BY <1>1, <1>2, <1>3, SameTrades DEF new
<1>8. \A h \in DOMAIN os1 : OrderAccounted(os1[h], h, new, ti1)
  BY <1>2, <1>5, <1>6, <1>7
<1> QED BY <1>1, <1>2, <1>3, <1>4, <1>8 DEF Accounted, os1, new

(* An order that is placed has no trades yet. *)
LEMMA AccountedWhenPlaced ==
  ASSUME NEW os, NEW ts, NEW ti, NEW n, Accounted(os, ts, ti, n), n \notin DOMAIN os,
         NEW o \in OrderSet, Priced(o),
         o.remainedSell = o.sellAmount, o.remainedBuy = o.buyAmount
  PROVE  Accounted(Put(os, n, o), ts, ti, n + 1)
<1>1. /\ TradesOK(ts, n) /\ DOMAIN ti.order \subseteq DOMAIN os
      /\ \A h \in DOMAIN os : OrderAccounted(os[h], h, ts, ti)
  BY DEF Accounted
<1>2. /\ DOMAIN Put(os, n, o) = DOMAIN os \cup {n} /\ Put(os, n, o)[n] = o
      /\ \A h \in DOMAIN os : Put(os, n, o)[h] = os[h]
  BY DEF Put
<1>3. TradesOK(ts, n + 1)
  BY <1>1 DEF TradesOK
<1>4. GetOr(ti.order, n, <<>>) = <<>> /\ TradeIds(ti, n) = {}
  BY <1>1 DEF GetOr, TradeIds, ToSet
<1>5. Given(ts, {}, o) = 0 /\ Taken(ts, {}, o) = 0
  BY SumOfNone DEF Given, Taken
<1>6. FilledAsTraded(o, {}, ts)
  BY <1>5, TermsOf, MathAssumption DEF FilledAsTraded, EP!AtItsPrice
<1>7. OrderAccounted(o, n, ts, ti)
  <2>1. <<>> \in Seq(DOMAIN ts)
    OBVIOUS
  <2> QED BY <1>4, <1>6, <2>1 DEF OrderAccounted
<1> QED BY <1>1, <1>2, <1>3, <1>7 DEF Accounted

LEMMA AccountedWhenCanceled ==
  ASSUME NEW os, NEW ts, NEW ti, NEW n, Accounted(os, ts, ti, n), NEW h \in DOMAIN os,
         os[h] \in OrderSet, os[h].status # "Filled"
  PROVE  Accounted([os EXCEPT ![h].status = "Canceled"], ts, ti, n)
<1> DEFINE os1 == [os EXCEPT ![h].status = "Canceled"]
           o == os[h]
           o1 == os1[h]
<1>1. /\ TradesOK(ts, n) /\ DOMAIN ti.order \subseteq DOMAIN os
      /\ \A x \in DOMAIN os : OrderAccounted(os[x], x, ts, ti)
  BY DEF Accounted
<1>2. DOMAIN os1 = DOMAIN os /\ \A x \in DOMAIN os \ {h} : os1[x] = os[x]
  OBVIOUS
<1>3. /\ o1.otype = o.otype /\ o1.price = o.price
      /\ o1.sellAmount = o.sellAmount /\ o1.buyAmount = o.buyAmount
      /\ o1.remainedSell = o.remainedSell /\ o1.remainedBuy = o.remainedBuy
      /\ o1.status = "Canceled"
  BY DEF OrderSet
<1>4. OrderAccounted(o, h, ts, ti)
  BY <1>1
<1> HIDE DEF o, o1, os1
<1>5. Priced(o1)
  <2>1. EP!Sound(Terms(o))
    BY <1>4 DEF OrderAccounted, Priced
  <2>2. EP!Sound(Terms(o1))
    BY <1>3, <2>1 DEF Terms, TermRecord, EP!Sound, EP!OrderRecords, EP!BaseAmount,
                      EP!OffersItsPrice
  <2> QED BY <1>3, <1>4, <2>2 DEF OrderAccounted, Priced, IsFinished
<1>6. OrderAccounted(o1, h, ts, ti)
  <2> DEFINE ids == TradeIds(ti, h)
  <2>1. Given(ts, ids, o1) = Given(ts, ids, o) /\ Taken(ts, ids, o1) = Taken(ts, ids, o)
    BY <1>3 DEF Given, Taken, GivenIn, TakenIn
  <2>2. o.status # "Filled"
    BY DEF o
  <2> HIDE DEF ids
  <2>3. FilledAsTraded(o1, ids, ts)
    BY <1>3, <1>4, <2>1, <2>2 DEF OrderAccounted, FilledAsTraded, EP!AtItsPrice, ids
  <2> QED BY <1>4, <1>5, <2>3 DEF OrderAccounted, ids
<1> QED BY <1>1, <1>2, <1>6 DEF Accounted, os1, o1

-----------------------------------------------------------------------------
(* The invariant: of the storage, of what a rollback restores, and of the  *)
(* orders of the level that is taken, whose price the taker accepts.       *)

QueuePriced ==
  call.phase = "trade" =>
    \A i \in DOMAIN call.queue :
      /\ call.queue[i] \in DOMAIN orders
      /\ PriceMatched(Taker.price, Taker.otype, orders[call.queue[i]].price)

PInv ==
  /\ Accounted(orders, trades, tradeIndex, nonce)
  /\ InProgress => Accounted(saved.orders, saved.trades, saved.tradeIndex, saved.nonce)
  /\ QueuePriced

(* What a trade takes suits both orders, so that no checked_sub of         *)
(* order_match fails, and is something of both tokens, at the price of the *)
(* maker.                                                                  *)
LEMMA TradeFits ==
  ASSUME IInv, PInv, call.phase = "trade"
  PROVE  LET maker == orders[Head(call.queue)]
             ex == CalculateExAmount(maker, Taker)
             give == IF Taker.otype = "Buy" THEN ex.base ELSE ex.quote
             have == IF Taker.otype = "Buy" THEN ex.quote ELSE ex.base
         IN /\ EP!Suits(Terms(Taker), give, have) /\ EP!Suits(Terms(maker), have, give)
            /\ ex.base \in Nat \ {0} /\ ex.quote \in Nat \ {0}
            /\ EP!OneAtMakersPrice(Terms(maker), ex)
<1> DEFINE maker == orders[Head(call.queue)]
           ex == CalculateExAmount(maker, Taker)
           give == IF Taker.otype = "Buy" THEN ex.base ELSE ex.quote
           have == IF Taker.otype = "Buy" THEN ex.quote ELSE ex.base
           a == Terms(Taker)
           b == Terms(maker)
<1>1. /\ call.order \in DOMAIN orders /\ Taker \in OrderSet /\ Taker = orders[call.order]
      /\ Taker.status # "Filled" => ~IsFinished(Taker)
  BY TheTaker DEF InProgress, Taker
<1>2. Taker.status # "Filled" /\ call.queue # <<>> /\ call.queue \in Seq(Nat)
  BY DEF IInv, Trading, Calls
<1>3. /\ Head(call.queue) \in DOMAIN orders /\ maker \in OrderSet /\ ~IsFinished(maker)
      /\ maker.otype = Opposite(Taker.otype)
  BY TheMaker
<1>4. 1 \in DOMAIN call.queue /\ Head(call.queue) = call.queue[1]
  BY <1>2
<1>5. PriceMatched(Taker.price, Taker.otype, maker.price)
  BY <1>4 DEF PInv, QueuePriced
<1>6. Priced(Taker) /\ Priced(maker)
  BY <1>1, <1>3 DEF PInv, Accounted, OrderAccounted
<1> HIDE DEF maker
<1>7. EP!BothSound(a, b)
  <2>1. b.otype = EP!Opposite(a.otype)
    BY <1>1, <1>3, TermsOf, SameMath
  <2>2. EP!Matched(a, b)
    BY <1>1, <1>3, <1>5, TermsOf, SameMath DEF EP!Matched
  <2> QED BY <1>6, <2>1, <2>2 DEF EP!BothSound, Priced
<1>8. ex = EP!CalculateExAmount(b, a)
  BY SameMath
<1>9. give = EP!Give(a, ex) /\ have = EP!Have(a, ex)
  BY <1>1, TermsOf DEF EP!Give, EP!Have
<1>10. a.remainedBuy > 0 /\ b.remainedBuy > 0
  BY <1>1, <1>2, <1>3, <1>6, TermsOf DEF Priced
<1> HIDE DEF ex, a, b, give, have
<1>11. /\ EP!Suits(a, EP!Give(a, ex), EP!Have(a, ex))
       /\ EP!Suits(b, EP!Have(a, ex), EP!Give(a, ex))
       /\ a.remainedBuy > 0 /\ b.remainedBuy > 0 => ex.base > 0 /\ ex.quote > 0
       /\ EP!OneAtMakersPrice(b, ex)
  BY <1>7, <1>8, AssumptionsOfExchange, EP!TradeSuits
<1>12. EP!Suits(a, give, have) /\ EP!Suits(b, have, give) /\ ex.base > 0 /\ ex.quote > 0
  BY <1>9, <1>10, <1>11
<1>13. ex.base \in Nat /\ ex.quote \in Nat
  <2>1. give \in Nat /\ have \in Nat
    BY ONLY <1>12 DEF EP!Suits
  <2> QED BY ONLY <2>1 DEF give, have
<1>14. ex.base \in Nat \ {0} /\ ex.quote \in Nat \ {0}
  BY ONLY <1>12, <1>13
<1> QED BY <1>11, <1>12, <1>14, Zenon DEF maker, ex, a, b, give, have

(* Between two steps that place, trade and cancel nothing. *)
LEMMA AccountedLater ==
  ASSUME NEW os, NEW ts, NEW ti, NEW n, Accounted(os, ts, ti, n), NEW m \in Nat, n <= m
  PROVE  Accounted(os, ts, ti, m)
<1>1. TradesOK(ts, n)
  BY DEF Accounted
<1>2. TradesOK(ts, m)
  BY <1>1 DEF TradesOK
<1> QED BY <1>2 DEF Accounted

LEMMA PricesUnchanged ==
  ASSUME PInv, UNCHANGED <<orders, trades, tradeIndex, nonce, saved, call>>
  PROVE  PInv'
  BY DEF PInv, QueuePriced, InProgress, Taker

LEMMA RollbackPriced ==
  ASSUME PInv, InProgress, Rollback
  PROVE  PInv'
<1>1. /\ orders' = saved.orders /\ trades' = saved.trades /\ tradeIndex' = saved.tradeIndex
      /\ nonce' = saved.nonce /\ call' = Idle
  BY DEF Rollback
<1> QED BY <1>1, IdleIsACall DEF PInv, QueuePriced, InProgress

LEMMA NeverEndsPriced ==
  ASSUME IInv, PInv, InProgress, NeverEnds
  PROVE  PInv'
<1>1. UNCHANGED <<orders, trades, tradeIndex, nonce, saved>> /\ call'.phase = "looping"
  BY DEF NeverEnds, orderVars, tradeVars, IInv, Calls
<1> QED BY <1>1 DEF PInv, QueuePriced, InProgress

(* do_create_limit_order places an order that offers exactly its price. *)
LEMMA SamePlacing ==
  /\ \A ot, p, a : AcceptableTerms(ot, p, a) <=> EP!AcceptableTerms(ot, p, a)
  /\ \A ot, p, a : Counterparty(ot, p, a) = EP!Counterparty(ot, p, a)
  /\ \A q, p : ToBase(q, p) = EP!ToBase(q, p)
  BY DEF AcceptableTerms, EP!AcceptableTerms, Counterparty, EP!Counterparty, ToBase, EP!ToBase,
     ToQuote, EP!ToQuote, Opposite, EP!Opposite

LEMMA NewIsPriced ==
  ASSUME ProductsFit, NEW o \in LimitOrders, NEW pair, AcceptableTerms(o[2], o[3], o[4])
  PROVE  LET new == NewOrder(o[1], pair, o[2], o[3], o[4]) IN
         /\ Priced(new)
         /\ new.remainedSell = new.sellAmount /\ new.remainedBuy = new.buyAmount
<1> DEFINE new == NewOrder(o[1], pair, o[2], o[3], o[4])
           counter == Counterparty(o[2], o[3], o[4])
<1>1. o[2] \in OrderTypes /\ o[3] \in Nat /\ o[4] \in Nat
  BY TradeAssumption, MathAssumption
<1>2. /\ new.otype = o[2] /\ new.price = o[3]
      /\ new.sellAmount = o[4] /\ new.remainedSell = o[4]
      /\ new.buyAmount = counter /\ new.remainedBuy = counter
      /\ Terms(new) = TermRecord(o[2], o[3], o[4], counter, o[4], counter, "Created")
  BY DEF NewOrder, Terms
<1>3. EP!PlacedOrder(o[2], o[3], o[4])
        = TermRecord(o[2], o[3], o[4], counter, o[4], counter, "Created")
  BY SamePlacing DEF EP!PlacedOrder, TermRecord
<1> HIDE DEF new, counter
<1>4. EP!AcceptableTerms(o[2], o[3], o[4])
  BY SamePlacing
<1>5. (IF o[2] = "Buy" THEN o[4] ELSE EP!ToBase(o[4], o[3])) * PriceFactor <= MaxAmount
  BY SamePlacing DEF ProductsFit
<1>6. EP!Sound(EP!PlacedOrder(o[2], o[3], o[4]))
  BY <1>1, <1>4, <1>5, AssumptionsOfExchange, EP!PlacedIsSound, SameMath
<1>7. counter \in Nat \ {0} /\ EP!ExactTerms(o[2], o[3], o[4], counter)
  BY <1>1, <1>4, AssumptionsOfExchange, EP!AcceptedIsExact, SameMath, SamePlacing DEF counter
<1>8. Priced(new)
  BY <1>2, <1>3, <1>6, <1>7 DEF Priced
<1> QED BY <1>2, <1>8 DEF new

LEMMA PlacePriced ==
  ASSUME ProductsFit, IInv, IInv', PInv, NEW o \in LimitOrders, NEW pair,
         CreateLimitOrder(o[1], pair, o[2], o[3], o[4])
  PROVE  PInv'
<1> DEFINE new == NewOrder(o[1], pair, o[2], o[3], o[4])
<1>1. /\ AcceptableTerms(o[2], o[3], o[4])
      /\ orders' = Put(orders, nonce, new) /\ nonce' = nonce + 1
      /\ UNCHANGED <<trades, tradeIndex>> /\ saved' = Storage
      /\ call'.phase = "match"
  BY DEF CreateLimitOrder, Place, CanPlace, tradeVars
<1>2. /\ Priced(new) /\ new.remainedSell = new.sellAmount /\ new.remainedBuy = new.buyAmount
  BY <1>1, NewIsPriced
<1> HIDE DEF new
<1>3. new \in OrderSet
  <2>1. nonce \in DOMAIN orders' /\ orders'[nonce] = new
    BY <1>1 DEF Put
  <2>2. \A h \in DOMAIN orders' : orders'[h] \in OrderSet
    BY DEF IInv, StorageOK, OrderOK
  <2> QED BY <2>1, <2>2
<1>4. nonce \notin DOMAIN orders
  <2>1. nonce \in Nat /\ \A h \in DOMAIN orders : h \in Nat /\ h < nonce
    BY DEF IInv, StorageOK, OrderOK
  <2> QED BY <2>1
<1>5. Accounted(Put(orders, nonce, new), trades, tradeIndex, nonce + 1)
  BY <1>2, <1>3, <1>4, AccountedWhenPlaced DEF PInv
<1>6. /\ saved'.orders = orders /\ saved'.trades = trades
      /\ saved'.tradeIndex = tradeIndex /\ saved'.nonce = nonce
  BY <1>1 DEF Storage
<1> QED BY <1>1, <1>5, <1>6 DEF PInv, QueuePriced

LEMMA CancelPriced ==
  ASSUME IInv, PInv, NEW sender, NEW hash, CancelLimitOrder(sender, hash)
  PROVE  PInv'
<1>1. /\ call.phase = "idle" /\ hash \in DOMAIN orders /\ ~IsFinished(orders[hash])
      /\ orders' = [orders EXCEPT ![hash].status = "Canceled"]
      /\ UNCHANGED <<trades, tradeIndex, nonce, call, saved>>
  BY DEF CancelLimitOrder, CanCancel, Ready, tradeVars, callVars
<1>2. orders[hash] \in OrderSet /\ orders[hash].status # "Filled"
  <2>1. OrderOK(pairAt, hash, orders[hash], nonce)
    BY <1>1 DEF IInv, StorageOK
  <2> QED BY <1>1, <2>1, FinishedMeans DEF OrderOK
<1>3. Accounted([orders EXCEPT ![hash].status = "Canceled"], trades, tradeIndex, nonce)
  BY <1>1, <1>2, AccountedWhenCanceled DEF PInv
<1> QED BY <1>1, <1>3 DEF PInv, QueuePriced, InProgress

LEMMA CreateTradePairPriced ==
  ASSUME IInv, PInv, NEW sender, NEW base, NEW quote, CreateTradePair(sender, base, quote)
  PROVE  PInv'
<1>1. /\ call.phase = "idle" /\ nonce' = nonce + 1
      /\ UNCHANGED <<orders, trades, tradeIndex, call, saved>>
  BY DEF CreateTradePair, Ready, tradeVars, callVars
<1>2. nonce \in Nat /\ nonce + 1 \in Nat /\ nonce <= nonce + 1
  BY DEF IInv, StorageOK
<1>3. Accounted(orders, trades, tradeIndex, nonce + 1)
  BY <1>2, AccountedLater DEF PInv
<1> QED BY <1>1, <1>3 DEF PInv, QueuePriced, InProgress

(* The head of the loop of order_match takes a level whose price the order *)
(* that is placed accepts.                                                 *)
LEMMA MatchLevelPriced ==
  ASSUME IInv, PInv, MatchLevel
  PROVE  PInv'
<1> DEFINE list == List(call.pair)
           best == Best(list, Opposite(Taker.otype))
<1>1. /\ InProgress /\ call.phase = "match" /\ call \in Calls /\ call.market = FALSE
      /\ StorageOK(pairs, pairAt, orders, lists, nonce, {call.order})
      /\ call.pair \in DOMAIN lists /\ list = lists[call.pair]
  <2>1. InProgress /\ call.phase = "match"
    BY DEF MatchLevel, InProgress
  <2> QED BY <2>1, TheTaker DEF IInv, Calls
<1>2. CASE Rollback
  BY <1>1, <1>2, RollbackPriced
<1>3. CASE NeverEnds
  BY <1>1, <1>3, NeverEndsPriced
<1>4. CASE FinishPlacing
  <2>1. UNCHANGED <<orders, trades, tradeIndex, nonce>> /\ call' = Idle
    BY <1>1, <1>4 DEF FinishPlacing, AfterPlacing, tradeVars
  <2> QED BY <2>1, IdleIsACall DEF PInv, QueuePriced, InProgress
<1>5. CASE /\ ~NothingToMatch(Taker, best) /\ best \in DOMAIN list \ {NoPrice}
           /\ call' = [call EXCEPT !.phase = "trade", !.queue = list[best].orders]
           /\ UNCHANGED <<orderVars, tradeVars, saved>>
  <2>1. /\ UNCHANGED <<orders, trades, tradeIndex, nonce, saved>>
        /\ call'.queue = list[best].orders /\ call'.order = call.order
    BY <1>1, <1>5 DEF orderVars, tradeVars, Calls
  <2>2. PriceMatched(Taker.price, Taker.otype, best)
    BY <1>5 DEF NothingToMatch
  <2>3. PICK buys : Held(pairAt, call.pair, list, orders, buys)
    BY <1>1 DEF StorageOK, BookOK
  <2>4. ASSUME NEW i \in DOMAIN call'.queue
        PROVE  call'.queue[i] \in DOMAIN orders /\ orders[call'.queue[i]].price = best
    <3>1. Queued(list, best, call'.queue[i])
      BY <1>5, <2>1, <2>4 DEF Queued
    <3> QED BY <2>3, <3>1 DEF Held
  <2>5. QueuePriced'
    BY <2>1, <2>2, <2>4, Zenon DEF QueuePriced, Taker
  <2> QED BY <1>1, <2>1, <2>5 DEF PInv, InProgress
<1>6. \/ Rollback \/ NeverEnds \/ FinishPlacing
      \/ /\ ~NothingToMatch(Taker, best) /\ best \in DOMAIN list \ {NoPrice}
         /\ call' = [call EXCEPT !.phase = "trade", !.queue = list[best].orders]
         /\ UNCHANGED <<orderVars, tradeVars, saved>>
  BY Zenon DEF MatchLevel
<1> QED BY <1>2, <1>3, <1>4, <1>5, <1>6

LEMMA TradeOfBoth ==
  ASSUME NEW taker, NEW maker, taker.otype \in OrderTypes,
         maker.otype = Opposite(taker.otype), NEW ex
  PROVE  LET trade == NewTrade(taker, maker, ex)
             give == IF taker.otype = "Buy" THEN ex.base ELSE ex.quote
             have == IF taker.otype = "Buy" THEN ex.quote ELSE ex.base
         IN /\ trade.baseAmount = ex.base /\ trade.quoteAmount = ex.quote
            /\ GivenIn(trade, taker) = give /\ TakenIn(trade, taker) = have
            /\ GivenIn(trade, maker) = have /\ TakenIn(trade, maker) = give
<1>1. NewTrade(taker, maker, ex).baseAmount = ex.base /\ NewTrade(taker, maker, ex).quoteAmount = ex.quote
  BY DEF NewTrade
<1> QED BY <1>1 DEF GivenIn, TakenIn, Opposite, OrderTypes

(* A round of the loop over the orders of a level. *)
LEMMA MatchOrderPriced ==
  ASSUME IInv, PInv, MatchOrder
  PROVE  PInv'
<1> DEFINE t == call.order
           hash == Head(call.queue)
           maker == orders[hash]
           ex == CalculateExAmount(maker, Taker)
           give == IF Taker.otype = "Buy" THEN ex.base ELSE ex.quote
           have == IF Taker.otype = "Buy" THEN ex.quote ELSE ex.base
           os1 == TradedOrders(orders, t, hash, give, have)
           trade == NewTrade(Taker, maker, ex)
<1>1. call.phase = "trade" /\ InProgress
  BY DEF MatchOrder, InProgress
<1>2. /\ t \in DOMAIN orders /\ Taker \in OrderSet /\ Taker = orders[t]
      /\ Taker.otype \in OrderTypes
      /\ Taker.status # "Filled" => ~IsFinished(Taker)
      /\ StorageOK(pairs, pairAt, orders, lists, nonce, {t})
  BY <1>1, TheTaker DEF Taker
<1>3. Taker.status # "Filled" /\ call \in Calls /\ call.queue # <<>> /\ call.queue \in Seq(Nat)
  BY <1>1 DEF IInv, Trading, Calls
<1>4. /\ hash \in DOMAIN orders /\ ~IsFinished(maker) /\ maker \in OrderSet /\ t # hash
      /\ maker.otype = Opposite(Taker.otype)
  BY <1>1, TheMaker
<1>5. maker.status # "Filled"
  <2>1. OrderOK(pairAt, hash, maker, nonce)
    BY <1>2, <1>4 DEF StorageOK
  <2> QED BY <1>4, <2>1, FinishedMeans
<1>6. /\ EP!Suits(Terms(Taker), give, have) /\ EP!Suits(Terms(maker), have, give)
      /\ ex.base \in Nat \ {0} /\ ex.quote \in Nat \ {0}
  BY <1>1, TradeFits
<1>7. /\ trade.baseAmount = ex.base /\ trade.quoteAmount = ex.quote
      /\ GivenIn(trade, Taker) = give /\ TakenIn(trade, Taker) = have
      /\ GivenIn(trade, maker) = have /\ TakenIn(trade, maker) = give
  BY <1>2, <1>4, TradeOfBoth
<1>8. \/ Rollback
      \/ NeverEnds
      \/ /\ orders' = os1 /\ nonce' = nonce + 1 /\ saved' = saved
         /\ trades' = Put(trades, nonce, trade)
         /\ tradeIndex' = IndexTrade(Taker, maker, hash)
         /\ \/ call' = [call EXCEPT !.phase = "match", !.queue = <<>>]
            \/ Len(call.queue) # 1 /\ call' = [call EXCEPT !.queue = Tail(@)]
  <2> DEFINE orders1 == [orders EXCEPT ![t] = AfterTrade(Taker, give, have),
                                       ![hash] = AfterTrade(maker, have, give)]
  <2>1. \/ Rollback
        \/ NeverEnds
        \/ /\ orders' = orders1 /\ nonce' = nonce + 1 /\ saved' = saved
           /\ trades' = Put(trades, nonce, trade)
           /\ tradeIndex' = IndexTrade(Taker, maker, hash)
           /\ \/ call' = [call EXCEPT !.phase = "match", !.queue = <<>>]
              \/ Len(call.queue) # 1 /\ call' = [call EXCEPT !.queue = Tail(@)]
    BY Zenon DEF MatchOrder
  <2>2. orders1 = os1
    BY <1>2 DEF TradedOrders, TradedTaker
  <2> HIDE DEF orders1, os1, trade
  <2> QED BY <2>1, <2>2
<1>9. CASE Rollback
  BY <1>1, <1>9, RollbackPriced
<1>10. CASE NeverEnds
  BY <1>1, <1>10, NeverEndsPriced
<1>11. CASE /\ orders' = os1 /\ nonce' = nonce + 1 /\ saved' = saved
            /\ trades' = Put(trades, nonce, trade)
            /\ tradeIndex' = IndexTrade(Taker, maker, hash)
            /\ \/ call' = [call EXCEPT !.phase = "match", !.queue = <<>>]
               \/ Len(call.queue) # 1 /\ call' = [call EXCEPT !.queue = Tail(@)]
  <2>1. tradeIndex'.order = PushTo(PushTo(tradeIndex.order, t, nonce), hash, nonce)
    BY <1>11 DEF IndexTrade
  <2> HIDE DEF give, have, trade, maker, ex, os1, hash
  <2>2. Accounted(TradedOrders(orders, t, hash, give, have), Put(trades, nonce, trade),
                  tradeIndex', nonce + 1)
    <3>1. Accounted(orders, trades, tradeIndex, nonce) /\ maker = orders[hash]
      BY DEF PInv, maker
    <3>2. trade.baseAmount \in Nat \ {0} /\ trade.quoteAmount \in Nat \ {0}
      BY <1>6, <1>7
    <3> QED BY <1>2, <1>3, <1>4, <1>5, <1>6, <1>7, <2>1, <3>1, <3>2, AccountedWhenTraded
  <2>3. Accounted(orders', trades', tradeIndex', nonce')
    BY <1>11, <2>2 DEF os1
  <2>4. /\ DOMAIN orders' = DOMAIN orders
        /\ \A h \in DOMAIN orders : /\ orders'[h].price = orders[h].price
                                    /\ orders'[h].otype = orders[h].otype
    <3>1. \A o \in OrderSet : \A x, y : /\ AfterTrade(o, x, y).price = o.price
                                        /\ AfterTrade(o, x, y).otype = o.otype
      BY DEF AfterTrade, OrderSet
    <3>2. /\ DOMAIN orders' = DOMAIN orders
          /\ orders'[t] = AfterTrade(Taker, give, have)
          /\ orders'[hash] = AfterTrade(maker, have, give)
          /\ \A h \in DOMAIN orders \ {t, hash} : orders'[h] = orders[h]
      BY <1>2, <1>4, <1>11 DEF os1, TradedOrders, TradedTaker, maker
    <3> QED BY <1>2, <1>4, <3>1, <3>2 DEF maker
  <2>5. QueuePriced'
    <3>1. CASE call' = [call EXCEPT !.phase = "match", !.queue = <<>>]
      BY <1>3, <3>1 DEF QueuePriced, Calls
    <3>2. CASE Len(call.queue) # 1 /\ call' = [call EXCEPT !.queue = Tail(@)]
      <4>1. call'.queue = Tail(call.queue) /\ call'.order = t
        BY <1>3, <3>2 DEF Calls
      <4>2. \A i \in DOMAIN Tail(call.queue) :
              i + 1 \in DOMAIN call.queue /\ Tail(call.queue)[i] = call.queue[i + 1]
        BY <1>3
      <4>3. Taker'.price = Taker.price /\ Taker'.otype = Taker.otype
        BY <1>2, <2>4, <4>1 DEF Taker
      <4> QED BY <1>1, <2>4, <4>1, <4>2, <4>3 DEF PInv, QueuePriced
    <3> QED BY <1>11, <3>1, <3>2
  <2> QED BY <1>1, <1>11, <2>3, <2>5 DEF PInv
<1> QED BY <1>8, <1>9, <1>10, <1>11

LEMMA PricesStep ==
  ASSUME Regular, ProductsFit, IInv, IInv', PInv, [Next]_vars
  PROVE  PInv'
<1>1. ASSUME \/ OnInitialize \/ OnFinalize \/ UNCHANGED vars
             \/ \E a, n : Issue(a, n)
             \/ \E a, b, t, n : Transfer(a, b, t, n)
      PROVE  PInv'
  <2>1. UNCHANGED <<orders, trades, tradeIndex, nonce, saved, call>>
    BY <1>1 DEF OnInitialize, OnFinalize, vars, Issue, Transfer, orderVars, tradeVars, callVars
  <2> QED BY <2>1, PricesUnchanged
<1>2. ASSUME NEW a, NEW b, NEW q, CreateTradePair(a, b, q) PROVE PInv'
  BY <1>2, CreateTradePairPriced
<1>3. ASSUME NEW o \in LimitOrders, NEW p, CreateLimitOrder(o[1], p, o[2], o[3], o[4])
      PROVE  PInv'
  BY <1>3, PlacePriced
<1>4. ASSUME NEW a, NEW h, CancelLimitOrder(a, h) PROVE PInv'
  BY <1>4, CancelPriced
<1>5. CASE MatchLevel
  BY <1>5, MatchLevelPriced
<1>6. CASE MatchOrder
  BY <1>6, MatchOrderPriced
<1>7. MarketOrders = {} /\ ~PlaceMarketOrder /\ ~SettleMarketOrder
  BY DEF Regular, IInv, Calls, PlaceMarketOrder, SettleMarketOrder
<1> QED BY <1>1, <1>2, <1>3, <1>4, <1>5, <1>6, <1>7 DEF Next, CallStep

LEMMA PricesInit == Init => PInv
<1> SUFFICES ASSUME Init PROVE PInv
  OBVIOUS
<1>1. /\ call = Idle /\ nonce = 0 /\ DOMAIN orders = {} /\ DOMAIN trades = {}
      /\ DOMAIN tradeIndex.order = {}
  BY DEF Init, EmptyMap
<1>2. Accounted(orders, trades, tradeIndex, nonce)
  BY <1>1 DEF Accounted, TradesOK
<1> QED BY <1>1, <1>2, IdleIsACall DEF PInv, QueuePriced, InProgress

LEMMA PricesInvariant ==
  ASSUME Regular, ProductsFit
  PROVE  Spec => [](IInv /\ PInv)
<1>1. Init => PInv
  BY PricesInit
<1>2. IInv /\ IInv' /\ PInv /\ [Next]_vars => PInv'
  BY PricesStep
<1> QED BY <1>1, <1>2, InvariantHolds, PTL DEF Spec

(* While callers do what Regular says, every trade order_match records     *)
(* moves some of both tokens, whatever its two orders offered at first and *)
(* whatever earlier trades left of them.                                   *)
THEOREM TradesMoveBoth ==
  ASSUME Regular, ProductsFit
  PROVE  Spec => []TradesMoveBothTokens
<1>1. PInv => TradesMoveBothTokens
  BY DEF PInv, Accounted, TradesOK, TradesMoveBothTokens
<1> QED BY <1>1, PricesInvariant, PTL

(* While callers do what Regular says, and whatever the roundings of       *)
(* calculate_ex_amount, the trades of an order come to what it bought, and *)
(* to a price that is no worse than its own.                               *)
THEOREM OrdersGetTheirPrice ==
  ASSUME Regular, ProductsFit
  PROVE  Spec => []OrdersFilledAtTheirPrice
<1>1. PInv => OrdersFilledAtTheirPrice
  <2> SUFFICES ASSUME PInv, NEW h \in DOMAIN orders
               PROVE  LET o == orders[h]
                          given == SumOf([t \in TradesOf(h) |-> GivenIn(trades[t], o)])
                          taken == SumOf([t \in TradesOf(h) |-> TakenIn(trades[t], o)])
                      IN /\ taken = o.buyAmount - o.remainedBuy
                         /\ IF o.otype = "Buy" THEN given * PriceFactor <= taken * o.price
                                                ELSE given * o.price <= taken * PriceFactor
                         /\ o.status # "Filled" => given = o.sellAmount - o.remainedSell
    BY DEF OrdersFilledAtTheirPrice
  <2> DEFINE o == orders[h]
             ids == TradesOf(h)
  <2>1. FilledAsTraded(o, ids, trades)
    BY DEF PInv, Accounted, OrderAccounted, TradeIds, TradesOf
  <2>2. /\ SumOf([t \in ids |-> GivenIn(trades[t], o)]) = Given(trades, ids, o)
        /\ SumOf([t \in ids |-> TakenIn(trades[t], o)]) = Taken(trades, ids, o)
    BY DEF SumOf, Given, Taken
  <2> QED BY <2>1, <2>2 DEF FilledAsTraded, EP!AtItsPrice
<1> QED BY <1>1, PricesInvariant, PTL

-----------------------------------------------------------------------------
(* That no call of a settlement fails: the funds of both orders are frozen, *)
(* and what is released is free for the transfer that follows.             *)

(* r went well, and nothing has wrapped. *)
Fit(r) == r.ok /\ TP!Whole(r.ledger)

(* The storage keys of l that the helpers look for. *)
KeyOf(l, a, t) == a \in Accounts /\ t \in DOMAIN tokens /\ <<a, t>> \in l.held

(* What is free in m is what was free in l, or more, but for one key. *)
FreeExcept(l, m, key) == \A k \in T!Holdings \ {key} : m.free[k] >= l.free[k]

LEMMA WholeIsTyped ==
  ASSUME NEW l, TP!Whole(l)
  PROVE  /\ TP!Sound(l) /\ l.free \in [T!Holdings -> Amount]
         /\ \A k \in T!Holdings :
              /\ l.free[k] \in Nat /\ l.freezed[k] \in Nat
              /\ l.balance[k] = l.free[k] + l.freezed[k] /\ l.balance[k] <= MaxAmount
<1>1. TP!Sound(l) /\ \A k \in T!Holdings : l.balance[k] = l.free[k] + l.freezed[k]
  BY SameTokens DEF TP!Whole, TP!Supplied, TP!Exact
<1>2. /\ l.balance \in [T!Holdings -> Amount] /\ l.free \in [T!Holdings -> Amount]
      /\ l.freezed \in [T!Holdings -> Amount]
  BY <1>1, SameTokens, SameSets DEF TP!Sound, TP!Good, TP!Ledgers
<1> QED BY <1>1, <1>2, AssumptionsOfTokens DEF Amount

LEMMA UnfreezeSucceeds ==
  ASSUME NEW l, TP!Whole(l), NEW a \in Accounts, NEW t \in TokensThereCanBe, KeyOf(l, a, t),
         NEW n \in Amount, n <= l.freezed[<<a, t>>]
  PROVE  LET m == T!DoUnfreeze(l, a, t, n) IN
         /\ T!CanUnfreeze(l, a, t, n)
         /\ \A k \in T!Holdings : m.free[k] = l.free[k] + Drawn(k, <<a, t>>, n)
<1> DEFINE key == <<a, t>>
           m == T!DoUnfreeze(l, a, t, n)
<1>1. key \in T!Holdings /\ n \in Nat
  BY SameSets, AssumptionsOfTokens DEF Amount
<1>2. /\ l.free[key] \in Nat /\ l.freezed[key] \in Nat
      /\ l.free[key] + l.freezed[key] <= MaxAmount
  BY <1>1, WholeIsTyped
<1>3. T!WrapAdd(l.free[key], n) = l.free[key] + n
  BY <1>1, <1>2, AssumptionsOfTokens DEF T!WrapAdd
<1>4. m.free = [l.free EXCEPT ![key] = T!WrapAdd(l.free[key], n)]
  BY WholeIsTyped DEF T!DoUnfreeze, TP!Sound, TP!Good, TP!Ledgers
<1>5. l.free \in [T!Holdings -> Amount]
  BY WholeIsTyped
<1>6. T!CanUnfreeze(l, a, t, n)
  <2>1. T!NoOverflow(l.free[key], n) /\ T!Enough(l.freezed[key], n)
    BY <1>1, <1>2, <1>3, AssumptionsOfTokens DEF T!NoOverflow, T!Enough
  <2> QED BY <2>1 DEF T!CanUnfreeze, T!Holds, KeyOf
<1> HIDE DEF m, key
<1>7. ASSUME NEW k \in T!Holdings PROVE m.free[k] = l.free[k] + Drawn(k, key, n)
  <2>1. l.free[k] \in Nat
    BY WholeIsTyped
  <2>2. CASE k = key
    BY <1>1, <1>3, <1>4, <1>5, <2>2 DEF Drawn
  <2>3. CASE k # key
    BY <1>4, <1>5, <2>1, <2>3 DEF Drawn
  <2> QED BY <2>2, <2>3
<1> QED BY <1>6, <1>7 DEF m, key

LEMMA TransferSucceeds ==
  ASSUME NEW l, TP!Whole(l), NEW a \in Accounts, NEW b \in Accounts, a # b,
         NEW t \in TokensThereCanBe, KeyOf(l, a, t), SuppliesFit,
         NEW n \in Amount, n <= l.free[<<a, t>>]
  PROVE  LET m == T!DoTransfer(l, a, b, t, n) IN
         T!CanTransfer(l, a, b, t, n) /\ FreeExcept(l, m, <<a, t>>)
<1> DEFINE j == <<a, t>>
           k == <<b, t>>
           m == T!DoTransfer(l, a, b, t, n)
<1>1. j \in T!Holdings /\ k \in T!Holdings /\ j # k /\ n \in Nat
  BY SameSets, AssumptionsOfTokens DEF Amount
<1>2. /\ l.free[j] \in Nat /\ l.freezed[j] \in Nat /\ l.balance[j] = l.free[j] + l.freezed[j]
      /\ l.free[k] \in Nat /\ l.freezed[k] \in Nat /\ l.balance[k] = l.free[k] + l.freezed[k]
      /\ l.balance[j] <= MaxAmount /\ l.balance[k] <= MaxAmount /\ TP!Sound(l)
  BY <1>1, WholeIsTyped
<1>3. T!CanTransfer(l, a, b, t, n)
  <2>1. T!Enough(l.balance[j], n) /\ T!Enough(l.free[j], n)
    BY <1>1, <1>2 DEF T!Enough
  <2>2. T!NoOverflow(l.balance[k], n) /\ T!NoOverflow(l.free[k], n)
    <3>1. n <= MaxAmount
      BY AssumptionsOfTokens DEF Amount
    <3> QED BY <1>1, <1>2, <3>1, AssumptionsOfTokens DEF T!NoOverflow, T!WrapAdd
  <2> QED BY <2>1, <2>2 DEF T!CanTransfer, T!Holds, KeyOf
<1>4. TP!Whole(m) /\ m.freezed = l.freezed
  BY <1>2, <1>3, TransferOnLedger
<1>5. /\ m.free = T!Moved(l.free, j, k, n)
      /\ l.free \in [T!Holdings -> Amount]
  BY <1>2, SameTokens, SameSets DEF T!DoTransfer, TP!Sound, TP!Good, TP!Ledgers
<1>6. T!WrapAdd(l.free[k], n) >= l.free[k]
  <2>1. TP!WrapAdd(l.balance[k], n) = l.balance[k] + n
    <3>1. /\ t \in TP!TokenHashes /\ n \in TP!Balances /\ TP!CanTransfer(l, a, b, t, n)
          /\ TP!Supplied(l) /\ \A u \in DOMAIN tokens : tokens[u] \in TP!Balances
      BY <1>3, SameTokens, SameSets DEF SuppliesFit, TP!Whole
    <3> HIDE DEF k
    <3>2. TP!WrapAdd(l.balance[<<b, t>>], n) = l.balance[<<b, t>>] + n
      BY <3>1, AssumptionsOfTokens, TP!TransferKeepsSupplied
    <3> QED BY <3>2 DEF k
  <2>2. l.balance[k] + n <= MaxAmount
    BY <1>1, <1>2, <2>1, AssumptionsOfTokens DEF TP!WrapAdd
  <2> QED BY <1>1, <1>2, <2>2, AssumptionsOfTokens DEF T!WrapAdd
<1> HIDE DEF m, j, k
<1>7. ASSUME NEW h \in T!Holdings \ {j} PROVE m.free[h] >= l.free[h]
  <2>1. CASE h = k
    BY <1>1, <1>5, <1>6, <2>1 DEF T!Moved
  <2>2. CASE h # k
    <3>1. m.free[h] = l.free[h] /\ l.free[h] \in Nat
      BY <1>5, <2>2, WholeIsTyped DEF T!Moved
    <3> QED BY <3>1
  <2> QED BY <2>1, <2>2
<1> QED BY <1>3, <1>7 DEF FreeExcept, m, j

LEMMA UnfreezingSucceeds ==
  ASSUME NEW r, Fit(r), NEW a, NEW t \in TokensThereCanBe, KeyOf(r.ledger, a, t),
         NEW n \in Amount, n <= r.ledger.freezed[<<a, t>>]
  PROVE  LET q == Unfreezing(r, a, t, n) IN
         /\ Fit(q) /\ Releases(r.ledger, q.ledger, <<a, t>>, n)
         /\ \A k \in T!Holdings : q.ledger.free[k] = r.ledger.free[k] + Drawn(k, <<a, t>>, n)
<1> DEFINE q == Unfreezing(r, a, t, n)
<1>1. a \in Accounts /\ TP!Whole(r.ledger) /\ TP!Sound(r.ledger)
  BY WholeIsTyped DEF KeyOf, Fit
<1>2. /\ T!CanUnfreeze(r.ledger, a, t, n)
      /\ \A k \in T!Holdings :
           T!DoUnfreeze(r.ledger, a, t, n).free[k] = r.ledger.free[k] + Drawn(k, <<a, t>>, n)
  BY <1>1, UnfreezeSucceeds
<1>3. q.ok /\ q.ledger = T!DoUnfreeze(r.ledger, a, t, n)
  BY <1>2 DEF Unfreezing, Fit
<1>4. Releases(r.ledger, q.ledger, <<a, t>>, n) /\ TP!Whole(q.ledger)
  BY <1>1, <1>3, UnfreezingKeeps
<1> QED BY <1>2, <1>3, <1>4 DEF Fit

LEMMA ReleasingSucceeds ==
  ASSUME NEW r, Fit(r), NEW a, NEW t \in TokensThereCanBe, KeyOf(r.ledger, a, t),
         NEW n \in Amount, n <= r.ledger.freezed[<<a, t>>]
  PROVE  LET q == Releasing(r, a, t, n) IN
         Fit(q) /\ Releases(r.ledger, q.ledger, <<a, t>>, n)
<1>1. CASE n = 0
  <2>1. Releasing(r, a, t, n) = r
    BY <1>1 DEF Releasing
  <2>2. a \in Accounts /\ TP!Sound(r.ledger) /\ r.ok
    BY WholeIsTyped DEF KeyOf, Fit
  <2>3. Releases(r.ledger, Releasing(r, a, t, n).ledger, <<a, t>>, n)
    BY <2>1, <2>2, ReleasingKeeps
  <2> QED BY <2>1, <2>3
<1>2. CASE n # 0
  <2>1. Releasing(r, a, t, n) = Unfreezing(r, a, t, n)
    BY <1>2 DEF Releasing
  <2> QED BY <2>1, UnfreezingSucceeds
<1> QED BY <1>1, <1>2

LEMMA TransferringSucceeds ==
  ASSUME NEW r, Fit(r), NEW a, NEW b \in Accounts, a # b, NEW t \in TokensThereCanBe,
         KeyOf(r.ledger, a, t), SuppliesFit, NEW n \in Amount, n <= r.ledger.free[<<a, t>>]
  PROVE  LET q == Transferring(r, a, b, t, n) IN
         /\ Fit(q) /\ r.ledger.held \subseteq q.ledger.held
         /\ q.ledger.freezed = r.ledger.freezed
         /\ FreeExcept(r.ledger, q.ledger, <<a, t>>)
<1> DEFINE q == Transferring(r, a, b, t, n)
<1>1. a \in Accounts /\ TP!Whole(r.ledger) /\ TP!Sound(r.ledger)
  BY WholeIsTyped DEF KeyOf, Fit
<1>2. /\ T!CanTransfer(r.ledger, a, b, t, n)
      /\ FreeExcept(r.ledger, T!DoTransfer(r.ledger, a, b, t, n), <<a, t>>)
  BY <1>1, TransferSucceeds
<1>3. q.ok /\ q.ledger = T!DoTransfer(r.ledger, a, b, t, n)
  BY <1>2 DEF Transferring, Fit
<1>4. /\ r.ledger.held \subseteq q.ledger.held /\ q.ledger.freezed = r.ledger.freezed
      /\ TP!Whole(q.ledger)
  BY <1>1, <1>2, <1>3, TransferOnLedger
<1> QED BY <1>2, <1>3, <1>4 DEF Fit

(* The six calls of order_match succeed when what they release is frozen,  *)
(* and the two orders are of two accounts.                                 *)
LEMMA SettlementSucceeds ==
  ASSUME NEW taker, NEW maker, NEW give \in Amount, NEW have \in Amount,
         taker.owner # maker.owner,
         Sells(taker) \in TokensThereCanBe, Buys(taker) \in TokensThereCanBe,
         Leftover(taker, give, have) \in Amount, Leftover(maker, have, give) \in Amount,
         TP!Whole(ledger), SuppliesFit,
         KeyOf(ledger, taker.owner, Sells(taker)), KeyOf(ledger, maker.owner, Buys(taker)),
         SoldOff(taker, give, have) <= ledger.freezed[<<taker.owner, Sells(taker)>>],
         SoldOff(maker, have, give) <= ledger.freezed[<<maker.owner, Buys(taker)>>]
  PROVE  Settlement(taker, maker, give, have).ok
<1> DEFINE a == taker.owner
           b == maker.owner
           sold == Sells(taker)
           bought == Buys(taker)
           x == Leftover(taker, give, have)
           y == Leftover(maker, have, give)
           j == <<a, sold>>
           k == <<b, bought>>
           r0 == [ok |-> TRUE, ledger |-> ledger]
           r1 == Unfreezing(r0, a, sold, give)
           r2 == Unfreezing(r1, b, bought, have)
           r3 == Transferring(r2, a, b, sold, give)
           r4 == Transferring(r3, b, a, bought, have)
           r5 == Releasing(r4, a, sold, x)
           r6 == Releasing(r5, b, bought, y)
<1>1. Settlement(taker, maker, give, have) = r6
  BY DEF Settlement
<1>2. r0.ledger = ledger /\ Fit(r0)
  BY DEF Fit
<1>3. /\ a # b /\ a \in Accounts /\ b \in Accounts
      /\ sold \in TokensThereCanBe /\ bought \in TokensThereCanBe
      /\ x \in Amount /\ y \in Amount
      /\ KeyOf(ledger, a, sold) /\ KeyOf(ledger, b, bought)
      /\ give + x <= ledger.freezed[j] /\ have + y <= ledger.freezed[k]
  BY DEF KeyOf, SoldOff
<1>4. /\ j \in T!Holdings /\ k \in T!Holdings /\ j # k /\ j = <<a, sold>> /\ k = <<b, bought>>
      /\ give \in Nat /\ have \in Nat /\ x \in Nat /\ y \in Nat
  BY <1>3, SameSets, AssumptionsOfTokens DEF Amount
<1>5. \A l, m, t, c : KeyOf(l, c, t) /\ l.held \subseteq m.held => KeyOf(m, c, t)
  BY DEF KeyOf
<1> HIDE DEF r0, r1, r2, r3, r4, r5, r6, a, b, sold, bought, x, y, j, k
<1>6. /\ ledger.free[j] \in Nat /\ ledger.freezed[j] \in Nat
      /\ ledger.free[k] \in Nat /\ ledger.freezed[k] \in Nat
  BY <1>4, WholeIsTyped
<1>7. /\ Fit(r1) /\ ledger.held \subseteq r1.ledger.held
      /\ r1.ledger.freezed[j] = ledger.freezed[j] - give
      /\ r1.ledger.freezed[k] = ledger.freezed[k]
      /\ r1.ledger.free[j] = ledger.free[j] + give
  <2>1. give <= r0.ledger.freezed[j]
    BY <1>2, <1>3, <1>4, <1>6
  <2>2. /\ Fit(r1) /\ Releases(ledger, r1.ledger, j, give)
        /\ \A h \in T!Holdings : r1.ledger.free[h] = ledger.free[h] + Drawn(h, j, give)
    BY <1>2, <1>3, <1>4, <2>1, UnfreezingSucceeds DEF r1
  <2> QED BY <1>4, <1>6, <2>2 DEF Releases, Drawn
<1>8. /\ Fit(r2) /\ ledger.held \subseteq r2.ledger.held
      /\ r2.ledger.freezed[j] = ledger.freezed[j] - give
      /\ r2.ledger.freezed[k] = ledger.freezed[k] - have
      /\ r2.ledger.free[j] >= give /\ r2.ledger.free[k] >= have
  <2>1. have <= r1.ledger.freezed[k] /\ KeyOf(r1.ledger, b, bought)
    BY <1>3, <1>4, <1>5, <1>6, <1>7
  <2>2. /\ Fit(r2) /\ Releases(r1.ledger, r2.ledger, k, have)
        /\ \A h \in T!Holdings : r2.ledger.free[h] = r1.ledger.free[h] + Drawn(h, k, have)
    BY <1>3, <1>4, <1>7, <2>1, UnfreezingSucceeds DEF r2
  <2>3. r1.ledger.free[k] \in Nat
    BY <1>4, <1>7, WholeIsTyped DEF Fit
  <2> QED BY <1>4, <1>6, <1>7, <2>2, <2>3 DEF Releases, Drawn
<1>9. /\ Fit(r3) /\ ledger.held \subseteq r3.ledger.held
      /\ r3.ledger.freezed = r2.ledger.freezed /\ r3.ledger.free[k] >= have
  <2>1. give <= r2.ledger.free[j] /\ KeyOf(r2.ledger, a, sold)
    BY <1>3, <1>4, <1>5, <1>8, WholeIsTyped DEF Fit
  <2>2. /\ Fit(r3) /\ r2.ledger.held \subseteq r3.ledger.held
        /\ r3.ledger.freezed = r2.ledger.freezed
        /\ FreeExcept(r2.ledger, r3.ledger, j)
    <3>1. give <= r2.ledger.free[<<a, sold>>]
      BY <1>4, <2>1
    <3>2. /\ Fit(Transferring(r2, a, b, sold, give))
          /\ r2.ledger.held \subseteq Transferring(r2, a, b, sold, give).ledger.held
          /\ Transferring(r2, a, b, sold, give).ledger.freezed = r2.ledger.freezed
          /\ FreeExcept(r2.ledger, Transferring(r2, a, b, sold, give).ledger, <<a, sold>>)
      BY ONLY <1>3, <1>8, <2>1, <3>1, SuppliesFit, give \in Amount, TransferringSucceeds
    <3> QED BY <1>4, <3>2 DEF r3
  <2>3. r3.ledger.free[k] >= r2.ledger.free[k]
    BY <1>4, <2>2 DEF FreeExcept
  <2>4. r2.ledger.free[k] \in Nat /\ r3.ledger.free[k] \in Nat
    BY <1>4, <1>8, <2>2, WholeIsTyped DEF Fit
  <2> QED BY <1>4, <1>8, <2>2, <2>3, <2>4
<1>10. /\ Fit(r4) /\ ledger.held \subseteq r4.ledger.held /\ r4.ledger.freezed = r2.ledger.freezed
  <2>1. have <= r3.ledger.free[k] /\ KeyOf(r3.ledger, b, bought)
    <3>1. r3.ledger.free[k] \in Nat
      BY <1>4, <1>9, WholeIsTyped DEF Fit
    <3>2. have <= r3.ledger.free[k]
      BY ONLY <1>4, <1>9, <3>1
    <3> QED BY <1>3, <1>5, <1>9, <3>2
  <2>2. /\ Fit(r4) /\ r3.ledger.held \subseteq r4.ledger.held
        /\ r4.ledger.freezed = r3.ledger.freezed
    <3>1. have <= r3.ledger.free[<<b, bought>>]
      BY <1>4, <2>1
    <3>2. /\ Fit(Transferring(r3, b, a, bought, have))
          /\ r3.ledger.held \subseteq Transferring(r3, b, a, bought, have).ledger.held
          /\ Transferring(r3, b, a, bought, have).ledger.freezed = r3.ledger.freezed
      BY ONLY <1>3, <1>9, <2>1, <3>1, SuppliesFit, have \in Amount, TransferringSucceeds
    <3> QED BY <3>2 DEF r4
  <2> QED BY <1>9, <2>2
<1>11. /\ Fit(r5) /\ ledger.held \subseteq r5.ledger.held
       /\ r5.ledger.freezed[k] = ledger.freezed[k] - have
  <2>1. x <= r4.ledger.freezed[j] /\ KeyOf(r4.ledger, a, sold)
    BY <1>3, <1>4, <1>5, <1>6, <1>8, <1>10
  <2>2. Fit(r5) /\ Releases(r4.ledger, r5.ledger, j, x)
    <3>1. x <= r4.ledger.freezed[<<a, sold>>]
      BY <1>4, <2>1
    <3>2. /\ Fit(Releasing(r4, a, sold, x))
          /\ Releases(r4.ledger, Releasing(r4, a, sold, x).ledger, <<a, sold>>, x)
      BY ONLY <1>3, <1>10, <2>1, <3>1, ReleasingSucceeds
    <3> QED BY <1>4, <3>2 DEF r5
  <2> QED BY <1>4, <1>6, <1>8, <1>10, <2>2 DEF Releases, Drawn
<1>12. Fit(r6)
  <2>1. y <= r5.ledger.freezed[k] /\ KeyOf(r5.ledger, b, bought)
    BY <1>3, <1>4, <1>5, <1>6, <1>11
  <2>2. y <= r5.ledger.freezed[<<b, bought>>]
    BY <1>4, <2>1
  <2>3. Fit(Releasing(r5, b, bought, y))
    BY ONLY <1>3, <1>11, <2>1, <2>2, ReleasingSucceeds
  <2> QED BY <2>3 DEF r6
<1> QED BY <1>1, <1>12 DEF Fit

(* What a round of the loop does fails at nothing. *)
LEMMA TradeIsPaid ==
  ASSUME IInv, FInv, EInv, PInv, NoSelfMatch, call.phase = "trade"
  PROVE  LET maker == orders[Head(call.queue)]
             ex == CalculateExAmount(maker, Taker)
             give == IF Taker.otype = "Buy" THEN ex.base ELSE ex.quote
             have == IF Taker.otype = "Buy" THEN ex.quote ELSE ex.base
         IN /\ give \in Nat /\ have \in Nat
            /\ give <= Taker.remainedSell /\ have <= Taker.remainedBuy
            /\ have <= maker.remainedSell /\ give <= maker.remainedBuy
            /\ Settlement(Taker, maker, give, have).ok
            /\ give \in Amount /\ have \in Amount
            /\ Leftover(Taker, give, have) \in Amount /\ Leftover(maker, have, give) \in Amount
            /\ Sells(Taker) \in TokensThereCanBe /\ Buys(Taker) \in TokensThereCanBe
<1> DEFINE t == call.order
           hash == Head(call.queue)
           maker == orders[hash]
           ex == CalculateExAmount(maker, Taker)
           give == IF Taker.otype = "Buy" THEN ex.base ELSE ex.quote
           have == IF Taker.otype = "Buy" THEN ex.quote ELSE ex.base
           sold == Sells(Taker)
           bought == Buys(Taker)
<1>1. InProgress
  BY DEF InProgress
<1>2. /\ t \in DOMAIN orders /\ Taker \in OrderSet /\ Taker = orders[t]
      /\ Taker.otype \in OrderTypes
      /\ Taker.status # "Filled" => ~IsFinished(Taker)
      /\ StorageOK(pairs, pairAt, orders, lists, nonce, {t})
      /\ PairIn(pairAt, Taker) = call.pair
  BY <1>1, TheTaker DEF Taker
<1>3. ~IsFinished(Taker)
  BY <1>2 DEF IInv, Trading
<1>4. /\ hash \in DOMAIN orders /\ ~IsFinished(maker) /\ PairIn(pairAt, maker) = call.pair
      /\ maker \in OrderSet /\ maker.otype = Opposite(Taker.otype)
  BY TheMaker
<1>5. /\ EP!Suits(Terms(Taker), give, have) /\ EP!Suits(Terms(maker), have, give)
  BY TradeFits
<1>6. /\ OrderOK(pairAt, t, Taker, nonce) /\ OrderOK(pairAt, hash, maker, nonce)
      /\ OrderMap(orders) /\ PairsOK(pairs, pairAt, nonce)
  BY <1>2, <1>4, StoredOrders DEF StorageOK
<1>7. maker = orders[hash] /\ maker.otype \in OrderTypes
  BY <1>4 DEF OrderSet
<1>8. Taker.owner # maker.owner
  BY DEF NoSelfMatch
<1> HIDE DEF hash, maker, ex, give, have
<1>9. /\ give \in Nat /\ have \in Nat
      /\ give <= Taker.remainedSell /\ have <= Taker.remainedBuy
      /\ have <= maker.remainedSell /\ give <= maker.remainedBuy
  BY <1>2, <1>4, <1>5, TermsOf DEF EP!Suits
<1>10. Sells(maker) = bought
  <2>1. /\ <<Taker.base, Taker.quote>> \in DOMAIN pairAt
        /\ <<maker.base, maker.quote>> \in DOMAIN pairAt
    BY <1>6 DEF OrderOK
  <2> QED BY <1>2, <1>4, <1>6, <1>7, <2>1, MakerSells
<1>11. /\ Leftover(Taker, give, have) \in Amount /\ Leftover(maker, have, give) \in Amount
  BY <1>3, <1>4, <1>6, <1>9, DueAfterTrade
<1>12. /\ give \in Amount /\ have \in Amount
       /\ SoldOff(Taker, give, have) <= Taker.remainedSell
       /\ SoldOff(maker, have, give) <= maker.remainedSell
  <2>1. /\ Taker.remainedSell \in Nat /\ Taker.remainedSell <= MaxAmount
        /\ maker.remainedSell \in Nat /\ maker.remainedSell <= MaxAmount
    BY <1>2, <1>4, AssumptionsOfTokens DEF OrderSet, Amount
  <2> QED BY ONLY <1>9, <2>1, AssumptionsOfTokens DEF Amount, SoldOff, Leftover
<1>13. /\ SuppliesFit /\ DOMAIN tokens \subseteq TokensThereCanBe
       /\ KeysHeld(ledger, orders) /\ TP!Whole(ledger) /\ Backed(ledger, orders)
  BY WhatInvSays DEF FInv, EInv, Exactly
<1>14. ASSUME NEW h \in DOMAIN orders, ~IsFinished(orders[h])
       PROVE  LET o == orders[h] IN
              /\ Sells(o) \in TokensThereCanBe /\ KeyOf(ledger, o.owner, Sells(o))
              /\ o.remainedSell <= ledger.freezed[<<o.owner, Sells(o)>>]
  <2> DEFINE o == orders[h]
  <2>1. o \in OrderSet /\ o.owner \in Accounts
    BY <1>6 DEF OrderMap, OrderSet
  <2>2. Sells(o) \in DOMAIN tokens /\ <<o.owner, Sells(o)>> \in ledger.held
    BY <1>13 DEF KeysHeld, Key
  <2>3. Sells(o) \in TokensThereCanBe /\ KeyOf(ledger, o.owner, Sells(o))
    BY <1>13, <2>1, <2>2 DEF KeyOf
  <2>4. Due(o, Key(o)) <= Offered(orders, Key(o)) /\ Due(o, Key(o)) = o.remainedSell
    BY <1>6, <1>14, OfferedType DEF Due
  <2>5. Offered(orders, Key(o)) = ledger.freezed[Key(o)]
    BY <1>13, <2>1, <2>3, SameSets DEF Backed, Key
  <2> QED BY <2>3, <2>4, <2>5 DEF Key
<1>15. /\ sold \in TokensThereCanBe /\ KeyOf(ledger, Taker.owner, sold)
       /\ Taker.remainedSell <= ledger.freezed[<<Taker.owner, sold>>]
  BY <1>2, <1>3, <1>14
<1>16. /\ bought \in TokensThereCanBe /\ KeyOf(ledger, maker.owner, bought)
       /\ maker.remainedSell <= ledger.freezed[<<maker.owner, bought>>]
  BY <1>4, <1>7, <1>10, <1>14
<1>17. /\ SoldOff(Taker, give, have) <= ledger.freezed[<<Taker.owner, sold>>]
       /\ SoldOff(maker, have, give) <= ledger.freezed[<<maker.owner, bought>>]
  <2>1. /\ ledger.freezed[<<Taker.owner, sold>>] \in Nat
        /\ ledger.freezed[<<maker.owner, bought>>] \in Nat
    BY <1>13, <1>15, <1>16, WholeIsTyped, SameSets DEF KeyOf
  <2>2. /\ SoldOff(Taker, give, have) \in Int /\ SoldOff(maker, have, give) \in Int
        /\ Taker.remainedSell \in Int /\ maker.remainedSell \in Int
    BY <1>2, <1>4, <1>9, <1>11, AssumptionsOfTokens DEF SoldOff, Amount, OrderSet
  <2> QED BY ONLY <1>12, <1>15, <1>16, <2>1, <2>2
<1>18. Settlement(Taker, maker, give, have).ok
  BY ONLY <1>8, <1>11, <1>12, <1>13, <1>15, <1>16, <1>17, SettlementSucceeds
<1> QED BY <1>9, <1>11, <1>12, <1>15, <1>16, <1>18, Zenon DEF hash, maker, ex, give, have

(* The round is a trade: nothing of it is rolled back. *)
LEMMA MatchOrderTrades ==
  ASSUME IInv, FInv, EInv, PInv, NoSelfMatch, MatchOrder
  PROVE  LET hash == Head(call.queue)
             maker == orders[hash]
             ex == CalculateExAmount(maker, Taker)
             give == IF Taker.otype = "Buy" THEN ex.base ELSE ex.quote
             have == IF Taker.otype = "Buy" THEN ex.quote ELSE ex.base
         IN \/ NeverEnds
            \/ /\ orders' = TradedOrders(orders, call.order, hash, give, have)
               /\ ledger' = Settlement(Taker, maker, give, have).ledger
               /\ saved' = saved
               /\ \/ call' = [call EXCEPT !.phase = "match", !.queue = <<>>]
                  \/ call' = [call EXCEPT !.queue = Tail(@)]
<1> DEFINE t == call.order
           pair == call.pair
           list == lists[pair]
           otype == Opposite(Taker.otype)
           x == Best(list, otype)
           hash == Head(call.queue)
           maker == orders[hash]
           ex == CalculateExAmount(maker, Taker)
           give == IF Taker.otype = "Buy" THEN ex.base ELSE ex.quote
           have == IF Taker.otype = "Buy" THEN ex.quote ELSE ex.base
           os1 == TradedOrders(orders, t, hash, give, have)
           swept == TradedSwept(orders, list, t, hash, give, have, otype)
<1>1. call.phase = "trade" /\ InProgress
  BY Zenon DEF MatchOrder, InProgress
<1>2. /\ t \in DOMAIN orders /\ Taker = orders[t] /\ Taker.otype \in OrderTypes
      /\ Taker.status = "Filled" => IsFinished(Taker)
      /\ StorageOK(pairs, pairAt, orders, lists, nonce, {t})
      /\ pair \in DOMAIN lists /\ List(pair) = list /\ PairIn(pairAt, Taker) = pair
      /\ \A q : ~Queued(list, q, t)
  BY <1>1, TheTaker DEF Taker
<1>3. /\ Taker.status \notin {"Canceled", "Filled"}
      /\ list[x].orders = call.queue /\ call.queue # <<>>
  BY <1>1 DEF IInv, Trading, Placing
<1>4. otype \in OrderTypes /\ hash = list[x].orders[1]
  BY <1>2, <1>3, OppositeType
<1>5. /\ give \in Nat /\ have \in Nat
      /\ give <= Taker.remainedSell /\ have <= Taker.remainedBuy
      /\ have <= maker.remainedSell /\ give <= maker.remainedBuy
      /\ Settlement(Taker, maker, give, have).ok
  BY <1>1, TradeIsPaid
<1>6. swept.result = "ok"
  <2> HIDE DEF t, pair, list, otype, x, hash, ex, give, have, swept
  <2>1. list = lists[pair] /\ x = Best(list, otype) /\ maker = orders[hash]
    BY DEF list, x
  <2>2. TradeWrites(pairs, pairAt, orders, lists, nonce, t, pair, hash, give, have,
                    TradedOrders(orders, t, hash, give, have),
                    TradedSwept(orders, list, t, hash, give, have, otype), otype)
    BY <1>2, <1>3, <1>4, <1>5, <2>1, TradedStorage, SMTT(20)
  <2> QED BY <2>1, <2>2 DEF swept, TradeWrites
<1>7. \/ ~Settlement(Taker, maker, give, have).ok
      \/ give > Taker.remainedSell \/ have > Taker.remainedBuy
      \/ have > maker.remainedSell \/ give > maker.remainedBuy
      \/ swept.result = "panics"
      \/ NeverEnds
      \/ /\ orders' = os1 /\ ledger' = Settlement(Taker, maker, give, have).ledger
         /\ saved' = saved
         /\ \/ call' = [call EXCEPT !.phase = "match", !.queue = <<>>]
            \/ call' = [call EXCEPT !.queue = Tail(@)]
  <2> DEFINE orders1 == [orders EXCEPT ![t] = AfterTrade(Taker, give, have),
                                       ![hash] = AfterTrade(maker, have, give)]
             swept1 == Sweep(ReduceAmount(List(pair), maker.price, have, give), otype,
                             {h \in DOMAIN orders1 : IsFinished(orders1[h])})
  <2>1. \/ ~Settlement(Taker, maker, give, have).ok
        \/ give > Taker.remainedSell \/ have > Taker.remainedBuy
        \/ have > maker.remainedSell \/ give > maker.remainedBuy
        \/ swept1.result = "panics"
        \/ NeverEnds
        \/ /\ orders' = orders1 /\ ledger' = Settlement(Taker, maker, give, have).ledger
           /\ saved' = saved
           /\ \/ call' = [call EXCEPT !.phase = "match", !.queue = <<>>]
              \/ call' = [call EXCEPT !.queue = Tail(@)]
    BY Zenon DEF MatchOrder
  <2>3. orders1 = os1
    BY <1>2 DEF TradedOrders, TradedTaker
  <2>4. swept1 = swept
    BY <1>2, <2>3, Zenon DEF TradedSwept
  <2> HIDE DEF orders1, swept1, swept, os1
  <2> QED BY <2>1, <2>3, <2>4
<1>9. /\ Taker.remainedSell \in Nat /\ Taker.remainedBuy \in Nat
      /\ maker.remainedSell \in Nat /\ maker.remainedBuy \in Nat
  BY <1>1, TheTaker, TheMaker, DueType
<1> HIDE DEF hash, maker, ex, give, have, swept, otype, x, list, os1
<1>10. /\ ~(give > Taker.remainedSell) /\ ~(have > Taker.remainedBuy)
       /\ ~(have > maker.remainedSell) /\ ~(give > maker.remainedBuy)
  BY ONLY <1>5, <1>9
<1>11. \/ NeverEnds
       \/ /\ orders' = os1 /\ ledger' = Settlement(Taker, maker, give, have).ledger
          /\ saved' = saved
          /\ \/ call' = [call EXCEPT !.phase = "match", !.queue = <<>>]
             \/ call' = [call EXCEPT !.queue = Tail(@)]
  BY <1>5, <1>6, <1>7, <1>10
<1> QED BY <1>11, Zenon DEF t, hash, maker, ex, give, have, os1

LEMMA MatchOrderSucceeds ==
  ASSUME IInv, FInv, EInv, PInv, NoSelfMatch, MatchOrder
  PROVE  call.order \in DOMAIN orders'
<1>1. call.order \in DOMAIN orders
  BY TheTaker, Zenon DEF MatchOrder, InProgress
<1>2. NeverEnds \/ \E give, have :
        orders' = TradedOrders(orders, call.order, Head(call.queue), give, have)
  BY MatchOrderTrades
<1> QED BY <1>1, <1>2 DEF NeverEnds, orderVars, TradedOrders

(* The head of the loop finds the level that best_price names. *)
LEMMA MatchLevelSucceeds ==
  ASSUME IInv, MatchLevel
  PROVE  call.order \in DOMAIN orders'
<1> DEFINE list == List(call.pair)
           best == Best(list, Opposite(Taker.otype))
<1>1. /\ call.order \in DOMAIN orders /\ Taker.otype \in OrderTypes
      /\ StorageOK(pairs, pairAt, orders, lists, nonce, {call.order})
      /\ call.pair \in DOMAIN lists /\ list = lists[call.pair]
  BY TheTaker DEF MatchLevel, InProgress
<1>2. PICK buys, sells : Tidy(list, buys, sells)
  BY <1>1 DEF StorageOK, BookOK
<1>3. best \in DOMAIN list \ {NoPrice}
  BY <1>1, <1>2, OppositeType, BestOfSide
<1>4. FinishPlacing \/ NeverEnds \/ UNCHANGED orderVars
  BY <1>3 DEF MatchLevel
<1>5. orders' = orders
  BY <1>4 DEF FinishPlacing, NeverEnds, orderVars
<1> QED BY <1>1, <1>5

(* While callers do what Regular says, and no order meets one of its       *)
(* owner: whatever else a limit order meets in the book, order_match       *)
(* returns no error: the funds of both orders are frozen, each has what is *)
(* taken of it, and the level that is reduced and swept is there.          *)
THEOREM PlacedOrdersAreMatched ==
  ASSUME Regular, ProductsFit
  PROVE  Spec /\ []NoSelfMatch => MatchNeverFails
<1> DEFINE Matches == call.phase \in {"match", "trade"} /\ ~call.market => call.order \in DOMAIN orders'
<1>1. ASSUME IInv, IInv', FInv, EInv, PInv, NoSelfMatch, [Next]_vars,
             call.phase \in {"match", "trade"}
      PROVE  call.order \in DOMAIN orders'
  <2>1. CASE MatchOrder
    BY <1>1, <2>1, MatchOrderSucceeds
  <2>2. CASE MatchLevel
    BY <1>1, <2>2, MatchLevelSucceeds
  <2>3. CASE orders' = orders
    BY <1>1, <2>3, TheTaker DEF InProgress
  <2> QED BY <1>1, <2>1, <2>2, <2>3, StepsOfCall DEF InProgress
<1>2. IInv /\ IInv' /\ FInv /\ EInv /\ PInv /\ NoSelfMatch /\ [Next]_vars => [Matches]_vars
  BY <1>1
<1> QED BY <1>2, FundsInvariant, ExactInvariant, PricesInvariant, PTL DEF Spec, MatchNeverFails

-----------------------------------------------------------------------------
(* The order book, as OrderBook sees it: the same operators, and a view of *)
(* the orders that are not finished.                                       *)

LEMMA SameOrderMath ==
  /\ \A x, ot, y : Book!PriceMatched(x, ot, y) <=> PriceMatched(x, ot, y)
  /\ \A ot : Book!Opposite(ot) = Opposite(ot)
  /\ \A ot, p, a : Book!AcceptableTerms(ot, p, a) <=> AcceptableTerms(ot, p, a)
  /\ \A ot, p, a : Book!Counterparty(ot, p, a) = Counterparty(ot, p, a)
  /\ \A o : Book!OffersItsPrice(o) <=> OffersItsPrice(o)
  /\ Book!OrderTypes = OrderTypes
BY DEF Book!PriceMatched, PriceMatched, Book!Opposite, Opposite,
       Book!AcceptableTerms, AcceptableTerms, Book!Counterparty, Counterparty,
       Book!ToQuote, ToQuote, Book!ToBase, ToBase, Book!OffersItsPrice, OffersItsPrice,
       Book!OrderTypes, OrderTypes

LEMMA SameFunctions ==
  /\ \A f, S : Book!Restrict(f, S) = [x \in S |-> f[x]]
  /\ \A f, S : Book!SumFunctionOnSet(f, S) = SumFunctionOnSet(f, S)
<1>1. \A f, S : Book!Restrict(f, S) = [x \in S |-> f[x]]
  BY DEF Book!Restrict
<1>2. \A f, S : Book!SumFunctionOnSet(f, S) = SumFunctionOnSet(f, S)
  BY DEF Book!SumFunctionOnSet, SumFunctionOnSet, Book!FoldFunctionOnSet, FoldFunctionOnSet,
         Book!MapThenFoldSet, MapThenFoldSet
<1> QED BY <1>1, <1>2

(* An unfinished order, as the abstract book has it. *)
Entry(o) ==
  [owner |-> o.owner, otype |-> o.otype, price |-> o.price, sells |-> Sells(o),
   buys |-> Buys(o), remainedSell |-> o.remainedSell, remainedBuy |-> o.remainedBuy]

LiveOf(os) == {h \in DOMAIN os : ~IsFinished(os[h])}

LEMMA BookOfOrders ==
  ASSUME NEW os
  PROVE  /\ BookOf(os) = [h \in LiveOf(os) |-> Entry(os[h])]
         /\ DOMAIN BookOf(os) = LiveOf(os)
         /\ \A h \in LiveOf(os) : BookOf(os)[h] = Entry(os[h])
BY DEF BookOf, LiveOf, Entry

LEMMA EntryFields ==
  ASSUME NEW o
  PROVE  /\ Entry(o).owner = o.owner /\ Entry(o).otype = o.otype /\ Entry(o).price = o.price
         /\ Entry(o).sells = Sells(o) /\ Entry(o).buys = Buys(o)
         /\ Entry(o).remainedSell = o.remainedSell /\ Entry(o).remainedBuy = o.remainedBuy
BY DEF Entry

LEMMA LiveOrders == Live = LiveOf(orders)
BY DEF Live, LiveOf

(* A snapshot is something. *)
LEMMA SnapshotIsNotNothing ==
  ASSUME NEW w, NEW b, NEW s
  PROVE  [wealth |-> w, book |-> b, stranded |-> s] # <<>>
<1>1. DOMAIN [wealth |-> w, book |-> b, stranded |-> s] = {"wealth", "book", "stranded"}
  OBVIOUS
<1>2. DOMAIN <<>> = {}
  OBVIOUS
<1> QED BY <1>1, <1>2

(* A taker is someone. *)
LEMMA TakerIsNotNobody ==
  ASSUME NEW h \in Nat, NEW r
  PROVE  [order |-> h, rests |-> r] # Book!NoTaker
BY DEF Book!NoTaker

(* Without market orders nothing is ever stranded. *)
NoneStranded == Stranded(ledger, orders) = [k \in T!Holdings |-> 0]

LEMMA AllIsOffered ==
  ASSUME IInv, FInv, EInv
  PROVE  NoneStranded
<1>1. ASSUME NEW k \in T!Holdings
      PROVE  ledger.freezed[k] - RemainingIn(orders, k[1], k[2]) = 0
  <2>1. ledger.freezed[k] = RemainingIn(orders, k[1], k[2])
    BY FundsExact DEF FrozenIsRemaining, RemainingOf
  <2>2. ledger.freezed[k] \in Nat
    BY WhatInvSays, FrozenType
  <2> QED BY <2>1, <2>2
<1> QED BY <1>1 DEF NoneStranded, Stranded

(* What an account does not offer is its free balance. *)
LEMMA FreeInBook ==
  ASSUME IInv, FInv, EInv, NoneStranded, NEW a \in Accounts, NEW t \in TokensThereCanBe
  PROVE  Book!Free(a, t) = ledger.free[<<a, t>>]
<1> DEFINE mine == {h \in DOMAIN orders : /\ ~IsFinished(orders[h]) /\ orders[h].owner = a
                                         /\ Sells(orders[h]) = t}
           b == BookOf(orders)
           inBook == {h \in DOMAIN b : b[h].owner = a /\ b[h].sells = t}
<1>1. DOMAIN b = Live /\ \A h \in Live : b[h] = Entry(orders[h])
  BY LiveOrders, BookOfOrders
<1> HIDE DEF b
<1>2. inBook = mine
  BY <1>1, EntryFields DEF Live
<1>3. [h \in inBook |-> b[h].remainedSell] = [h \in mine |-> orders[h].remainedSell]
  BY <1>1, <1>2, EntryFields DEF Live
<1>4. Book!Offered(a, t) = SumFunctionOnSet([h \in inBook |-> b[h].remainedSell], inBook)
  BY SameFunctions DEF Book!Offered, b
<1>5. RemainingOf(a, t) = SumFunctionOnSet([h \in mine |-> orders[h].remainedSell], mine)
  BY DEF RemainingOf, RemainingIn, SumOf
<1>6. <<a, t>> \in T!Holdings
  BY SameSets
<1>7. Book!Offered(a, t) = ledger.freezed[<<a, t>>]
  BY <1>2, <1>3, <1>4, <1>5, <1>6, FundsExact DEF FrozenIsRemaining
<1>8. /\ ledger.free[<<a, t>>] \in Nat /\ ledger.freezed[<<a, t>>] \in Nat
      /\ ledger.balance[<<a, t>>] = ledger.free[<<a, t>>] + ledger.freezed[<<a, t>>]
  BY <1>6, WholeIsTyped DEF EInv, Exactly
<1>9. Book!Free(a, t) = ledger.balance[<<a, t>>] - ledger.freezed[<<a, t>>] - 0
  BY <1>6, <1>7 DEF Book!Free, NoneStranded
<1> QED BY ONLY <1>8, <1>9

-----------------------------------------------------------------------------
(* The steps OrderBook does not see. *)

LEMMA Unseen ==
  ASSUME orders' = orders, ledger' = ledger, saved' = saved,
         call'.order = call.order, call'.market = call.market,
         Matching' <=> Matching, Quiet' <=> Quiet
  PROVE  UNCHANGED Book!bookVars
BY DEF Book!bookVars

(* An extrinsic or a hook that OrderBook knows nothing of. *)
LEMMA UnseenCall ==
  ASSUME UNCHANGED <<orders, ledger, saved, call>>
  PROVE  UNCHANGED Book!bookVars
<1>1. Matching' <=> Matching
  BY DEF Matching, Live
<1>2. Quiet' <=> Quiet
  BY DEF Quiet
<1> QED BY <1>1, <1>2, Unseen

(* One loop is left for the other, or for the one that never ends. *)
LEMMA UnseenPhase ==
  ASSUME InProgress, UNCHANGED <<orders, ledger, saved>>,
         call'.order = call.order, call'.market = call.market, InProgress'
  PROVE  UNCHANGED Book!bookVars
<1>1. Matching' <=> Matching
  BY DEF Matching, Live, InProgress
<1>2. Quiet' <=> Quiet
  BY DEF Quiet, InProgress
<1> QED BY <1>1, <1>2, Unseen

-----------------------------------------------------------------------------
(* Between two extrinsics. *)

(* No order is being matched. *)
LEMMA QuietBook ==
  ASSUME Quiet
  PROVE  ~Matching
BY DEF Quiet, Matching

(* The issue extrinsic of pallet_tokens. *)
LEMMA IssueInBook ==
  ASSUME FInv, EInv, NoneStranded, NoneStranded', NEW a \in Accounts, NEW n \in Supplies, Issue(a, n)
  PROVE  Book!Issue
<1> DEFINE t == tokenNonce
           h == <<a, t>>
<1>1. /\ Quiet /\ T!Issue(a, n) /\ TP!Issue(a, n) /\ UNCHANGED <<orders, call, saved>>
  BY SameIssue DEF Issue, Ready, Quiet, orderVars, callVars
<1>2. Quiet' /\ ~Matching /\ ~Matching'
  BY <1>1, QuietBook DEF Quiet, Matching
<1>3. /\ t \in TP!TokenHashes /\ t \in TokensThereCanBe /\ t \notin DOMAIN tokens
      /\ TP!Whole(ledger)
  <2>1. tokenNonce < MaxTokens
    BY <1>1 DEF TP!Issue
  <2>2. tokenNonce \in 0 .. MaxTokens /\ DOMAIN tokens = 0 .. (tokenNonce - 1)
    BY DEF FInv, TP!IInv, TP!TypeOK
  <2> QED BY <2>1, <2>2, SameSets, AssumptionsOfTokens DEF TokensThereCanBe, EInv, Exactly
<1>4. ledger.balance \in [TP!Holdings -> TP!Balances]
  BY <1>3 DEF TP!Whole, TP!Supplied, TP!Sound, TP!Good, TP!Ledgers
<1>5. TP!OwnedIn(ledger.balance, t) = 0
  BY <1>3 DEF TP!Whole, TP!Supplied, TP!Conserved, TP!GetOr
<1>6. ASSUME NEW b \in Accounts
      PROVE  ledger.balance[<<b, t>>] = 0
  <2>1. ledger.balance[<<b, t>>] <= TP!OwnedIn(ledger.balance, t)
    BY ONLY <1>3, <1>4, AssumptionsOfTokens, TP!OwnedCovers
  <2>2. ledger.balance[<<b, t>>] \in Nat
    BY <1>3, <1>4, SameSets, SameTokens, AssumptionsOfTokens DEF Amount
  <2> QED BY <1>5, <2>1, <2>2
<1>7. h \in T!Holdings /\ h[2] = t /\ n \in Nat
  BY <1>3, SameSets, AssumptionsOfTokens
<1>8. ledger'.balance = [ledger.balance EXCEPT ![h] = n]
  BY <1>1, <1>3 DEF TP!Issue, TP!Whole, TP!Supplied, TP!Sound, TP!Good, TP!Ledgers
<1>9. ledger'.balance[h] = n
  BY <1>4, <1>7, <1>8, SameTokens
<1> HIDE DEF h, t
<1>10. \A b \in Accounts : ledger.balance[<<b, h[2]>>] = 0
  BY <1>6, <1>7
<1>11. h \in Book!Holdings
  BY <1>7, SameSets DEF Book!Holdings
<1>12. \E x \in Book!Holdings :
         /\ \A b \in Accounts : ledger.balance[<<b, x[2]>>] = 0
         /\ ledger'.balance = [ledger.balance EXCEPT ![x] = ledger'.balance[x]]
         /\ ledger'.balance[x] >= 0
  <2>1. ledger'.balance = [ledger.balance EXCEPT ![h] = ledger'.balance[h]] /\ ledger'.balance[h] >= 0
    BY <1>7, <1>8, <1>9
  <2> QED BY <1>10, <1>11, <2>1, Zenon
<1> QED BY <1>1, <1>2, <1>12 DEF Book!Issue, Book!Nothing, NoneStranded

(* What a payment makes of the wealth of two accounts. *)
Change(k, a, b, t, n) == Drawn(k, <<b, t>>, n) - Drawn(k, <<a, t>>, n)

LEMMA MovedInBook ==
  ASSUME NEW w \in [T!Holdings -> Int], NEW a \in Accounts, NEW b \in Accounts, a # b,
         NEW t \in TokensThereCanBe, NEW n \in Nat
  PROVE  LET v == Book!Moved(w, a, b, t, n) IN
         /\ v \in [T!Holdings -> Int]
         /\ \A k \in T!Holdings : v[k] = w[k] + Change(k, a, b, t, n)
<1> DEFINE j == <<a, t>>
           k == <<b, t>>
           v == [w EXCEPT ![j] = w[j] - n, ![k] = w[k] + n]
<1>1. j \in T!Holdings /\ k \in T!Holdings /\ j # k
  BY SameSets
<1>2. Book!Moved(w, a, b, t, n) = v
  BY <1>1 DEF Book!Moved
<1>3. \A x : Change(x, a, b, t, n) = (IF x = k THEN n ELSE 0) - (IF x = j THEN n ELSE 0)
  BY DEF Change, Drawn
<1> HIDE DEF j, k
<1>4. /\ v \in [T!Holdings -> Int]
      /\ \A x \in T!Holdings :
           v[x] = w[x] + ((IF x = k THEN n ELSE 0) - (IF x = j THEN n ELSE 0))
  BY <1>1
<1> QED BY <1>2, <1>3, <1>4

(* do_transfer moves as much as is asked for, and nothing wraps. *)
LEMMA TransferMoves ==
  ASSUME NEW l, TP!Whole(l), NEW a \in Accounts, NEW b \in Accounts, a # b,
         NEW t \in TokensThereCanBe, NEW n \in Amount, T!CanTransfer(l, a, b, t, n), SuppliesFit
  PROVE  T!DoTransfer(l, a, b, t, n).balance = Book!Moved(l.balance, a, b, t, n)
<1> DEFINE j == <<a, t>>
           k == <<b, t>>
           v == T!DoTransfer(l, a, b, t, n).balance
<1>1. j \in T!Holdings /\ k \in T!Holdings /\ j # k
  BY SameSets
<1>2. v = T!Moved(l.balance, j, k, n) /\ l.balance \in [T!Holdings -> T!Balances]
  BY SameTokens, SameSets DEF T!DoTransfer, TP!Whole, TP!Supplied, TP!Sound, TP!Good, TP!Ledgers
<1>3. T!WrapAdd(l.balance[k], n) = l.balance[k] + n
  <2>1. /\ t \in TP!TokenHashes /\ n \in TP!Balances /\ TP!CanTransfer(l, a, b, t, n)
        /\ TP!Supplied(l) /\ \A u \in DOMAIN tokens : tokens[u] \in TP!Balances
    BY SameTokens, SameSets DEF SuppliesFit, TP!Whole
  <2>2. TP!WrapAdd(l.balance[<<b, t>>], n) = l.balance[<<b, t>>] + n
    BY <2>1, AssumptionsOfTokens, TP!TransferKeepsSupplied
  <2> QED BY <2>2, SameTokens
<1> HIDE DEF v
<1>4. T!Moved(l.balance, j, k, n)
        = [l.balance EXCEPT ![j] = l.balance[j] - n, ![k] = l.balance[k] + n]
  BY <1>3 DEF T!Moved
<1>5. Book!Moved(l.balance, a, b, t, n)
        = [l.balance EXCEPT ![j] = l.balance[j] - n, ![k] = l.balance[k] + n]
  BY <1>1, <1>2 DEF Book!Moved
<1> QED BY <1>2, <1>4, <1>5 DEF v

(* The transfer extrinsic of pallet_tokens spends what is not offered. *)
LEMMA TransferInBook ==
  ASSUME IInv, FInv, EInv, NoneStranded, NoneStranded', NEW a \in Accounts, NEW b \in Accounts,
         NEW t \in DOMAIN tokens, NEW n \in Transfers, Transfer(a, b, t, n)
  PROVE  Book!Pay
<1>1. /\ Quiet /\ a # b /\ T!CanTransfer(ledger, a, b, t, n)
      /\ ledger' = T!DoTransfer(ledger, a, b, t, n)
      /\ UNCHANGED <<orders, call, saved>>
  BY DEF Transfer, T!Transfer, Ready, Quiet, orderVars, callVars
<1>2. Quiet' /\ ~Matching /\ ~Matching'
  BY <1>1, QuietBook DEF Quiet, Matching
<1>3. SuppliesFit /\ t \in TokensThereCanBe /\ n \in Amount /\ TP!Whole(ledger)
  BY WhatInvSays, AssumptionsOfTokens DEF Amount, EInv, Exactly
<1>4. ledger'.balance = Book!Moved(ledger.balance, a, b, t, n)
  BY <1>1, <1>3, TransferMoves
<1>5. n \in 0 .. Book!Free(a, t)
  <2>1. n <= ledger.free[<<a, t>>]
    BY <1>1 DEF T!CanTransfer, T!Enough
  <2>2. Book!Free(a, t) = ledger.free[<<a, t>>]
    BY <1>3, FreeInBook
  <2>3. ledger.free[<<a, t>>] \in Nat /\ n \in Nat
    BY <1>3, SameSets, WholeIsTyped, AssumptionsOfTokens DEF Amount
  <2> QED BY <2>1, <2>2, <2>3
<1>6. \E from, to \in Accounts, token \in T!TokenHashes : \E amount \in 0 .. Book!Free(from, token) :
        ledger'.balance = Book!Moved(ledger.balance, from, to, token, amount)
  BY <1>3, <1>4, <1>5, SameSets
<1> QED BY <1>1, <1>2, <1>6 DEF Book!Pay, Book!Nothing, NoneStranded

(* do_cancel_limit_order *)
LEMMA CancelInBook ==
  ASSUME IInv, FInv, NoneStranded, NoneStranded', NEW sender, NEW hash,
         CancelLimitOrder(sender, hash)
  PROVE  Book!CancelOrder
<1> DEFINE o == orders[hash]
<1>1. /\ Quiet /\ hash \in DOMAIN orders /\ ~IsFinished(o) /\ o.owner = sender
      /\ T!CanUnfreeze(ledger, sender, Sells(o), o.remainedSell)
      /\ orders' = [orders EXCEPT ![hash].status = "Canceled"]
      /\ ledger' = T!DoUnfreeze(ledger, sender, Sells(o), o.remainedSell)
      /\ UNCHANGED <<call, saved>>
  BY DEF CancelLimitOrder, CanCancel, Ready, Quiet, callVars
<1>2. Quiet' /\ ~Matching /\ ~Matching'
  BY <1>1, QuietBook DEF Quiet, Matching
<1>3. ledger'.balance = ledger.balance
  BY <1>1, WhatInvSays DEF T!DoUnfreeze, TP!Sound, TP!Good, TP!Ledgers
<1>4. /\ DOMAIN orders' = DOMAIN orders /\ orders'[hash].status = "Canceled"
      /\ \A x \in DOMAIN orders \ {hash} : orders'[x] = orders[x]
  <2>1. o \in OrderSet
    BY <1>1, OrdersAreAMap DEF OrderMap
  <2> QED BY <1>1, <2>1 DEF OrderSet
<1>5. LiveOf(orders') = LiveOf(orders) \ {hash} /\ hash \in LiveOf(orders)
  BY <1>1, <1>4 DEF LiveOf, IsFinished
<1>6. BookOf(orders') = [x \in LiveOf(orders) \ {hash} |-> BookOf(orders)[x]]
  <2>1. BookOf(orders') = [x \in LiveOf(orders') |-> Entry(orders'[x])]
    BY BookOfOrders
  <2>2. \A x \in LiveOf(orders) \ {hash} : Entry(orders'[x]) = BookOf(orders)[x]
    BY <1>4, BookOfOrders DEF LiveOf
  <2> QED BY <1>5, <2>1, <2>2
<1>7. Book!Without(BookOf(orders), {hash}) = [x \in LiveOf(orders) \ {hash} |-> BookOf(orders)[x]]
  BY BookOfOrders, SameFunctions DEF Book!Without
<1>8. \E h \in DOMAIN BookOf(orders) : BookOf(orders') = Book!Without(BookOf(orders), {h})
  BY <1>5, <1>6, <1>7, BookOfOrders
<1> QED BY <1>1, <1>2, <1>3, <1>8 DEF Book!CancelOrder, Book!Nothing, NoneStranded

(* The tokens of a pair were issued. *)
PairsListed ==
  \A p \in DOMAIN pairs : pairs[p].base \in TokensThereCanBe /\ pairs[p].quote \in TokensThereCanBe

(* do_create_limit_order, before order_match: the new order is the taker.  *)
LEMMA PlaceInBook ==
  ASSUME Regular, IInv, FInv, EInv, NoneStranded, NoneStranded', PairsListed,
         NEW o \in LimitOrders, NEW pair \in DOMAIN pairs,
         CreateLimitOrder(o[1], pair, o[2], o[3], o[4])
  PROVE  Book!Place
<1> DEFINE new == NewOrder(o[1], pair, o[2], o[3], o[4])
           e == Entry(new)
           b == BookOf(orders)
           c == BookOf(orders')
<1>1. /\ Quiet /\ AcceptableTerms(o[2], o[3], o[4])
      /\ T!CanFreeze(ledger, o[1], Sells(new), o[4])
      /\ ledger' = T!DoFreeze(ledger, o[1], Sells(new), o[4])
      /\ orders' = Put(orders, nonce, new) /\ saved' = Storage
      /\ call'.phase = "match" /\ call'.order = nonce /\ call'.market = FALSE
  BY DEF CreateLimitOrder, ReadyForOrder, Ready, Quiet, Place, CanPlace
<1>2. /\ new.owner = o[1] /\ new.otype = o[2] /\ new.price = o[3]
      /\ new.remainedSell = o[4] /\ new.remainedBuy = Counterparty(o[2], o[3], o[4])
      /\ new.base = pairs[pair].base /\ new.quote = pairs[pair].quote
      /\ new.status = "Created"
  BY DEF NewOrder
<1>3. /\ o[1] \in Accounts /\ o[2] \in OrderTypes /\ o[3] \in Nat /\ o[4] \in Nat
      /\ Counterparty(o[2], o[3], o[4]) \in Nat
  <2>1. o \in Accounts \X OrderTypes \X (0 .. MaxAmount) \X (0 .. MaxAmount)
    BY TradeAssumption
  <2>2. o[1] \in Accounts /\ o[2] \in OrderTypes /\ o[3] \in Nat /\ o[4] \in Nat
    BY <2>1, MathAssumption
  <2>3. EP!Counterparty(o[2], o[3], o[4]) \in Nat
    <3>1. o[2] \in EP!OrderTypes /\ EP!AcceptableTerms(o[2], o[3], o[4])
      BY <1>1, <2>2, SameMath, SamePlacing
    <3> QED BY <2>2, <3>1, AssumptionsOfExchange, EP!AcceptedIsExact
  <2> QED BY <2>2, <2>3, SamePlacing
<1>4. Sells(new) \in TokensThereCanBe /\ Buys(new) \in TokensThereCanBe
  BY <1>2, <1>3 DEF PairsListed, Sells, Buys
<1> HIDE DEF new
<1>5. nonce \in Nat /\ \A g \in DOMAIN orders : g \in Nat /\ g < nonce
  <2>1. StorageOK(pairs, pairAt, orders, lists, nonce, {})
    BY <1>1, QuietStorage
  <2> QED BY <2>1 DEF StorageOK, OrderOK
<1>6. /\ DOMAIN b = LiveOf(orders) /\ DOMAIN c = LiveOf(orders) \cup {nonce}
      /\ nonce \notin DOMAIN b /\ c[nonce] = e
      /\ \A x \in DOMAIN b : c[x] = b[x] /\ x \in DOMAIN orders
      /\ nonce \in LiveOf(orders')
  <2>1. nonce \notin DOMAIN orders
    BY <1>5
  <2>2. /\ DOMAIN orders' = DOMAIN orders \cup {nonce} /\ orders'[nonce] = new
        /\ \A x \in DOMAIN orders : orders'[x] = orders[x]
    BY <1>1, <2>1 DEF Put
  <2>3. LiveOf(orders') = LiveOf(orders) \cup {nonce}
    BY <1>2, <2>1, <2>2 DEF LiveOf, IsFinished
  <2>4. /\ DOMAIN b = LiveOf(orders) /\ DOMAIN c = LiveOf(orders')
        /\ \A x \in LiveOf(orders) : b[x] = Entry(orders[x])
        /\ \A x \in LiveOf(orders') : c[x] = Entry(orders'[x])
    BY BookOfOrders
  <2>5. \A x \in LiveOf(orders) : x \in DOMAIN orders
    BY DEF LiveOf
  <2> HIDE DEF b, c
  <2> QED BY <2>1, <2>2, <2>3, <2>4, <2>5
<1>7. ~Matching /\ ~Quiet' /\ Matching'
  BY <1>1, <1>6, QuietBook DEF Quiet, Matching, Live, LiveOf
<1>8. ledger'.balance = ledger.balance
  BY <1>1, WhatInvSays DEF T!DoFreeze, TP!Sound, TP!Good, TP!Ledgers
<1>9. saved'.ledger = ledger /\ saved'.orders = orders
  BY <1>1 DEF Storage
<1>10. e \in Book!Orders
  BY <1>2, <1>3, <1>4, SameOrderMath, SameSets DEF Entry, Book!Orders
<1>11. /\ e.owner = o[1] /\ e.otype = o[2] /\ e.price = o[3] /\ e.sells = Sells(new)
       /\ e.remainedSell = o[4] /\ e.remainedBuy = Counterparty(o[2], o[3], o[4])
  BY <1>2, EntryFields
<1>12. o[4] <= Book!Free(o[1], Sells(new))
  <2>1. Book!Free(o[1], Sells(new)) = ledger.free[<<o[1], Sells(new)>>]
    BY <1>3, <1>4, FreeInBook
  <2>2. ledger.free[<<o[1], Sells(new)>>] \in Nat
    BY <1>3, <1>4, SameSets, WholeIsTyped DEF EInv, Exactly
  <2> QED BY <1>1, <1>3, <2>1, <2>2 DEF T!CanFreeze, T!Enough
<1> HIDE DEF e
<1>13. Book!Restrict(c, DOMAIN b) = b
  BY <1>6, SameFunctions, BookOfOrders
<1> HIDE DEF b, c
<1>14. /\ nonce \in DOMAIN c \ DOMAIN b
       /\ c[nonce] \in Book!Orders
       /\ \A g \in DOMAIN b : g < nonce
       /\ DOMAIN c = DOMAIN b \cup {nonce}
       /\ Book!AcceptableTerms(c[nonce].otype, c[nonce].price, c[nonce].remainedSell)
       /\ c[nonce].remainedBuy
            = Book!Counterparty(c[nonce].otype, c[nonce].price, c[nonce].remainedSell)
       /\ c[nonce].remainedSell <= Book!Free(c[nonce].owner, c[nonce].sells)
  BY <1>1, <1>5, <1>6, <1>10, <1>11, <1>12, SameOrderMath
<1> USE DEF b, c
<1>15. \E h \in DOMAIN c \ DOMAIN b, rests \in BOOLEAN :
         /\ h \in Nat /\ c[h] \in Book!Orders
         /\ \A g \in DOMAIN b : g < h
         /\ DOMAIN c = DOMAIN b \cup {h} /\ Book!Restrict(c, DOMAIN b) = b
         /\ Book!AcceptableTerms(c[h].otype, c[h].price, c[h].remainedSell)
         /\ c[h].remainedBuy = Book!Counterparty(c[h].otype, c[h].price, c[h].remainedSell)
         /\ c[h].remainedSell <= Book!Free(c[h].owner, c[h].sells)
         /\ [order |-> nonce, rests |-> TRUE] = [order |-> h, rests |-> rests]
         /\ rests = TRUE
  <2> HIDE DEF b, c
  <2> QED BY ONLY <1>5, <1>13, <1>14, Zenon
<1> QED BY <1>1, <1>7, <1>8, <1>9, <1>15
        DEF Book!Place, Book!Nothing, Book!NoTaker, Book!Now, NoneStranded

-----------------------------------------------------------------------------
(* Pairs are of tokens that were issued. *)

LEMMA PairsListedStep ==
  ASSUME IInv, FInv, PairsListed, [Next]_vars
  PROVE  PairsListed'
<1>1. ASSUME NEW a, NEW base \in DOMAIN owners, NEW quote \in DOMAIN owners,
             CreateTradePair(a, base, quote)
      PROVE  PairsListed'
  <2>1. pairs' = Put(pairs, nonce, [base |-> base, quote |-> quote])
    BY <1>1 DEF CreateTradePair
  <2>2. base \in TokensThereCanBe /\ quote \in TokensThereCanBe
    BY WhatInvSays DEF FInv, TP!IInv, TP!TypeOK
  <2> QED BY <2>1, <2>2 DEF PairsListed, Put
<1>2. ASSUME pairs' = pairs PROVE PairsListed'
  BY <1>2 DEF PairsListed
<1>3. ~PlaceMarketOrder /\ ~SettleMarketOrder
  BY DEF IInv, Calls, PlaceMarketOrder, SettleMarketOrder
<1>4. MatchLevel \/ MatchOrder => pairs' = pairs
  BY Zenon DEF MatchLevel, MatchOrder, FinishPlacing, NeverEnds, Rollback, pairVars
<1>5. \A a, p, ot, x, n : CreateLimitOrder(a, p, ot, x, n) => pairs' = pairs
  BY DEF CreateLimitOrder, Place, pairVars
<1>6. \A a, p, ot, n : CreateMarketOrder(a, p, ot, n) => pairs' = pairs
  BY DEF CreateMarketOrder, pairVars
<1>7. \A a, h : CancelLimitOrder(a, h) => pairs' = pairs
  BY DEF CancelLimitOrder, pairVars
<1>8. \A a, b, t, n : (Issue(a, n) \/ Transfer(a, b, t, n)) => pairs' = pairs
  BY DEF Issue, Transfer, pairVars
<1>9. OnInitialize \/ OnFinalize \/ UNCHANGED vars => pairs' = pairs
  BY DEF OnInitialize, OnFinalize, vars, pairVars
<1> QED BY <1>1, <1>2, <1>3, <1>4, <1>5, <1>6, <1>7, <1>8, <1>9 DEF Next, CallStep

-----------------------------------------------------------------------------
(* The head of the loop of order_match *)

(* When the loop ends, the best price of the other side is one the order   *)
(* does not accept, and so are the others.                                 *)
LEMMA NobodyAccepts ==
  ASSUME IInv, InProgress, Taker.status # "Filled",
         NothingToMatch(Taker, Best(List(call.pair), Opposite(Taker.otype))),
         NEW h \in Live, orders[h].otype = Opposite(Taker.otype),
         PairIn(pairAt, orders[h]) = call.pair
  PROVE  ~PriceMatched(Taker.price, Taker.otype, orders[h].price)
<1> DEFINE list == lists[call.pair]
           price == Taker.price
           q == orders[h].price
<1>1. /\ Taker \in OrderSet /\ Taker.otype \in OrderTypes
      /\ StorageOK(pairs, pairAt, orders, lists, nonce, {call.order})
      /\ call.pair \in DOMAIN lists /\ List(call.pair) = list
  BY TheTaker
<1>2. PICK buys, sells : Tidy(list, buys, sells) /\ Held(pairAt, call.pair, list, orders, buys)
  BY <1>1 DEF StorageOK, BookOK
<1>3. h \in DOMAIN orders /\ ~IsFinished(orders[h]) /\ h # call.order
  BY <1>1, OppositeType DEF Live, Taker
<1>4. Queued(list, q, h)
  BY <1>1, <1>3 DEF StorageOK, Complete
<1>5. /\ Keyed(list, buys, sells)
      /\ Best(list, "Buy") \in buys \cup {Bottom}
      /\ \A p \in buys : Best(list, "Buy") \in buys /\ p <= Best(list, "Buy")
      /\ Best(list, "Sell") \in sells \cup {Top}
      /\ \A p \in sells : Best(list, "Sell") \in sells /\ Best(list, "Sell") <= p
  BY <1>2, KeysDiffer, BestPrice DEF Tidy
<1>6. orders[h].otype = "Buy" <=> q \in buys
  BY <1>2, <1>4 DEF Held
<1>7. q \in buys \cup sells
  <2>1. q \in buys \cup sells \cup {Bottom, NoPrice, Top} /\ list[q].orders # <<>>
    BY <1>4, <1>5 DEF Queued, Keyed
  <2> QED BY <1>2, <2>1 DEF Tidy, Queues
<1>8. price \in Int
  BY <1>1, MathAssumption DEF OrderSet
<1>9. CASE Taker.otype = "Buy"
  <2>1. Best(list, "Sell") # Bottom
    BY <1>5 DEF Keyed
  <2>2. ~PriceMatched(price, "Buy", Best(list, "Sell"))
    BY <1>1, <1>9, <2>1 DEF NothingToMatch, LoopEnd, Opposite
  <2>3. Best(list, "Sell") \in Int /\ price < Best(list, "Sell")
    BY <1>5, <1>8, <2>2 DEF Keyed, PriceMatched
  <2>4. q \in sells
    BY <1>6, <1>7, <1>9 DEF Opposite
  <2>5. q \in Int /\ Best(list, "Sell") <= q
    BY <1>5, <2>4 DEF Keyed
  <2>6. price < q
    BY ONLY <1>8, <2>3, <2>5
  <2> QED BY ONLY <1>8, <1>9, <2>5, <2>6 DEF PriceMatched
<1>10. CASE Taker.otype = "Sell"
  <2>1. Best(list, "Buy") # Top
    BY <1>5 DEF Keyed
  <2>2. ~PriceMatched(price, "Sell", Best(list, "Buy"))
    BY <1>1, <1>10, <2>1 DEF NothingToMatch, LoopEnd, Opposite
  <2>3. Best(list, "Buy") \in Int /\ Best(list, "Buy") < price
    BY <1>5, <1>8, <2>2 DEF Keyed, PriceMatched
  <2>4. q \in buys
    BY <1>6, <1>10 DEF Opposite
  <2>5. q \in Int /\ q <= Best(list, "Buy")
    BY <1>5, <2>4 DEF Keyed
  <2>6. q < price
    BY ONLY <1>8, <2>3, <2>5
  <2> QED BY ONLY <1>8, <1>10, <2>5, <2>6 DEF PriceMatched
<1> QED BY <1>1, <1>9, <1>10 DEF OrderTypes

(* Two orders that OrderBook takes for opposed are of one pair. *)
LEMMA OpposedPair ==
  ASSUME NEW at, NEW a, NEW b, a.otype \in OrderTypes, b.otype = Opposite(a.otype),
         Sells(b) = Buys(a), Buys(b) = Sells(a)
  PROVE  PairIn(at, b) = PairIn(at, a)
<1>1. b.base = a.base /\ b.quote = a.quote
  BY DEF OrderTypes, Opposite, Sells, Buys
<1> QED BY <1>1 DEF PairIn

(* The order being placed, as OrderBook sees it. *)
LEMMA TakerInBook ==
  ASSUME IInv, InProgress
  PROVE  /\ call.order \in Nat /\ ~call.market /\ ~Quiet
         /\ Matching <=> call.order \in LiveOf(orders)
         /\ call.order \in LiveOf(orders) <=> Taker.status # "Filled"
<1>1. /\ call.order \in DOMAIN orders /\ call.order \in Nat
      /\ Taker.status = "Filled" => IsFinished(Taker)
      /\ Taker.status # "Filled" => ~IsFinished(Taker)
  BY TheTaker
<1>2. ~call.market
  BY DEF IInv, Calls
<1>3. call.order \in LiveOf(orders) <=> Taker.status # "Filled"
  BY <1>1 DEF LiveOf, Taker
<1>4. Matching <=> call.order \in LiveOf(orders)
  BY LiveOrders DEF Matching, InProgress
<1> QED BY <1>1, <1>2, <1>3, <1>4 DEF Quiet, InProgress

(* The order that is left enters the price list, and rests. *)
LEMMA RestInBook ==
  ASSUME IInv, InProgress, Taker.status # "Filled",
         NothingToMatch(Taker, Best(List(call.pair), Opposite(Taker.otype))), FinishPlacing
  PROVE  Book!Rest
<1> DEFINE b == BookOf(orders)
           t == call.order
<1>1. t \in Nat /\ ~call.market /\ ~Quiet /\ Matching /\ t \in LiveOf(orders)
  BY TakerInBook
<1>2. /\ orders' = orders /\ ledger' = ledger /\ call' = Idle
  BY <1>1 DEF FinishPlacing, AfterPlacing, tokenVars
<1>3. Quiet' /\ ~Matching'
  BY <1>2, IdleIsACall DEF Quiet, Matching
<1>4. [order |-> t, rests |-> ~call.market] # Book!NoTaker
  BY <1>1, TakerIsNotNobody
<1>5. /\ DOMAIN b = LiveOf(orders) /\ b[t] = Entry(Taker)
      /\ \A h \in LiveOf(orders) : b[h] = Entry(orders[h])
  BY <1>1, BookOfOrders DEF Taker
<1> HIDE DEF b
<1>6. ASSUME NEW h \in Book!OtherSide(t)
      PROVE  ~Book!Accepts(t, h)
  <2>1. /\ h \in LiveOf(orders) /\ b[h] = Entry(orders[h])
        /\ Book!Opposed(t, h)
    BY <1>5 DEF Book!OtherSide, b
  <2>2. /\ Taker.otype = Opposite(orders[h].otype)
        /\ Sells(Taker) = Buys(orders[h]) /\ Buys(Taker) = Sells(orders[h])
    BY <1>5, <2>1, EntryFields, SameOrderMath DEF Book!Opposed, b
  <2>3. /\ Taker.otype \in OrderTypes /\ PairIn(pairAt, Taker) = call.pair
        /\ StorageOK(pairs, pairAt, orders, lists, nonce, {call.order})
    BY TheTaker
  <2>4. orders[h].otype \in OrderTypes /\ h \in Live
    BY <2>1, <2>3, LiveOrders DEF StorageOK, OrderOK, OrderSet, LiveOf
  <2>5. orders[h].otype = Opposite(Taker.otype)
    BY <2>2, <2>4 DEF Opposite, OrderTypes
  <2>6. PairIn(pairAt, orders[h]) = call.pair
    BY <2>2, <2>3, <2>5, OpposedPair
  <2>7. ~PriceMatched(Taker.price, Taker.otype, orders[h].price)
    BY <2>4, <2>5, <2>6, NobodyAccepts
  <2> QED BY <1>5, <2>1, <2>7, EntryFields, SameOrderMath DEF Book!Accepts, b
<1> QED BY <1>1, <1>2, <1>3, <1>4, <1>6 DEF Book!Rest, Book!Nothing, Book!NoTaker

(* The order is filled: its extrinsic ends. *)
LEMMA CommitInBook ==
  ASSUME IInv, InProgress, Taker.status = "Filled", FinishPlacing
  PROVE  Book!Commit
<1>1. ~call.market /\ ~Quiet /\ ~Matching
  BY TakerInBook
<1>2. /\ orders' = orders /\ ledger' = ledger /\ call' = Idle
  BY <1>1 DEF FinishPlacing, AfterPlacing, tokenVars
<1>3. Quiet' /\ ~Matching'
  BY <1>2, IdleIsACall DEF Quiet, Matching
<1>4. [wealth |-> saved.ledger.balance, book |-> BookOf(saved.orders),
       stranded |-> Stranded(saved.ledger, saved.orders)] # <<>>
  BY SnapshotIsNotNothing
<1> QED BY <1>1, <1>2, <1>3, <1>4 DEF Book!Commit, Book!Nothing, Book!NoTaker

(* A round of the outer loop ends the placement, or OrderBook does not see *)
(* it.                                                                     *)
LEMMA MatchLevelInBook ==
  ASSUME IInv, MatchLevel
  PROVE  Book!Rest \/ Book!Commit \/ UNCHANGED Book!bookVars
<1> DEFINE list == List(call.pair)
           best == Best(list, Opposite(Taker.otype))
<1>1. InProgress
  BY DEF MatchLevel, InProgress
<1>2. /\ Taker.otype \in OrderTypes
      /\ StorageOK(pairs, pairAt, orders, lists, nonce, {call.order})
      /\ call.pair \in DOMAIN lists /\ list = lists[call.pair]
  BY <1>1, TheTaker
<1>3. PICK buys, sells : Tidy(list, buys, sells)
  BY <1>2 DEF StorageOK, BookOK
<1>4. best \in DOMAIN list \ {NoPrice}
  BY <1>2, <1>3, OppositeType, BestOfSide
<1>5. \/ NothingToMatch(Taker, best) /\ FinishPlacing
      \/ NeverEnds
      \/ /\ call' = [call EXCEPT !.phase = "trade", !.queue = list[best].orders]
         /\ UNCHANGED <<tokenVars, orderVars, saved>>
  BY <1>4 DEF MatchLevel
<1> HIDE DEF list, best
<1>6. CASE NothingToMatch(Taker, best) /\ FinishPlacing
  BY <1>1, <1>6, RestInBook, CommitInBook DEF list, best
<1>7. CASE NeverEnds
  <2>1. /\ call'.order = call.order /\ call'.market = call.market /\ InProgress'
        /\ UNCHANGED <<orders, ledger, saved>>
    BY <1>7 DEF NeverEnds, IInv, Calls, InProgress, orderVars, tokenVars
  <2> QED BY <1>1, <2>1, UnseenPhase
<1>8. CASE /\ call' = [call EXCEPT !.phase = "trade", !.queue = list[best].orders]
           /\ UNCHANGED <<tokenVars, orderVars, saved>>
  <2>1. /\ call'.order = call.order /\ call'.market = call.market /\ InProgress'
        /\ UNCHANGED <<orders, ledger, saved>>
    BY <1>8 DEF IInv, Calls, InProgress, orderVars, tokenVars
  <2> QED BY <1>1, <2>1, UnseenPhase
<1> QED BY <1>5, <1>6, <1>7, <1>8

-----------------------------------------------------------------------------
(* A round of the loop over the orders of a level *)

(* Unfreezing an amount leaves what an account owns as it is. *)
LEMMA UnfreezingOwns ==
  ASSUME NEW r, TP!Sound(r.ledger), NEW a, NEW t, NEW n
  PROVE  /\ Unfreezing(r, a, t, n).ledger.balance = r.ledger.balance
         /\ Releasing(r, a, t, n).ledger.balance = r.ledger.balance
<1>1. Unfreezing(r, a, t, n).ledger.balance = r.ledger.balance
  BY DEF Unfreezing, T!DoUnfreeze, TP!Sound, TP!Good, TP!Ledgers
<1> QED BY <1>1 DEF Releasing

(* A payment within order_match is one of OrderBook. *)
LEMMA TransferringOwns ==
  ASSUME NEW r, TP!Whole(r.ledger), NEW a \in Accounts, NEW b \in Accounts, a # b,
         NEW t \in TokensThereCanBe, NEW n \in Amount, SuppliesFit, Transferring(r, a, b, t, n).ok
  PROVE  Transferring(r, a, b, t, n).ledger.balance = Book!Moved(r.ledger.balance, a, b, t, n)
<1> DEFINE l == r.ledger
<1>1. T!CanTransfer(l, a, b, t, n)
  BY DEF Transferring
<1>2. Transferring(r, a, b, t, n).ledger = T!DoTransfer(l, a, b, t, n)
  BY DEF Transferring
<1> HIDE DEF l
<1>3. T!DoTransfer(l, a, b, t, n).balance = Book!Moved(l.balance, a, b, t, n)
  BY <1>1, TransferMoves DEF l
<1> QED BY <1>2, <1>3 DEF l

(* The two payments of a trade, in either order. *)
LEMMA PaymentsCommute ==
  ASSUME NEW w \in [T!Holdings -> Int], NEW a \in Accounts, NEW b \in Accounts, a # b,
         NEW s \in TokensThereCanBe, NEW t \in TokensThereCanBe, NEW m \in Nat, NEW n \in Nat
  PROVE  Book!Moved(Book!Moved(w, a, b, s, m), b, a, t, n)
           = Book!Moved(Book!Moved(w, b, a, t, n), a, b, s, m)
<1> DEFINE u == Book!Moved(w, a, b, s, m)
           v == Book!Moved(w, b, a, t, n)
           x == Book!Moved(u, b, a, t, n)
           y == Book!Moved(v, a, b, s, m)
<1>1. /\ u \in [T!Holdings -> Int]
      /\ \A k \in T!Holdings : u[k] = w[k] + Change(k, a, b, s, m)
  BY MovedInBook
<1>2. /\ v \in [T!Holdings -> Int]
      /\ \A k \in T!Holdings : v[k] = w[k] + Change(k, b, a, t, n)
  BY MovedInBook
<1> HIDE DEF u, v
<1>3. /\ x \in [T!Holdings -> Int]
      /\ \A k \in T!Holdings : x[k] = u[k] + Change(k, b, a, t, n)
  BY <1>1, MovedInBook
<1>4. /\ y \in [T!Holdings -> Int]
      /\ \A k \in T!Holdings : y[k] = v[k] + Change(k, a, b, s, m)
  BY <1>2, MovedInBook
<1> HIDE DEF x, y
<1>5. ASSUME NEW k \in T!Holdings PROVE x[k] = y[k]
  <2>1. Change(k, a, b, s, m) \in Int /\ Change(k, b, a, t, n) \in Int /\ w[k] \in Int
    BY DEF Change, Drawn
  <2> QED BY <1>1, <1>2, <1>3, <1>4, <2>1
<1>6. x = y
  BY <1>3, <1>4, <1>5
<1> QED BY <1>6 DEF x, y, u, v

(* order_match pays both orders what they exchange. *)
LEMMA SettlementPays ==
  ASSUME NEW taker, NEW maker, NEW give \in Amount, NEW have \in Amount,
         taker.owner \in Accounts, maker.owner \in Accounts, taker.owner # maker.owner,
         Sells(taker) \in TokensThereCanBe, Buys(taker) \in TokensThereCanBe,
         Leftover(taker, give, have) \in Amount, Leftover(maker, have, give) \in Amount,
         TP!Whole(ledger), SuppliesFit, Settlement(taker, maker, give, have).ok
  PROVE  Settlement(taker, maker, give, have).ledger.balance
           = Book!Moved(Book!Moved(ledger.balance, taker.owner, maker.owner, Sells(taker), give),
                        maker.owner, taker.owner, Buys(taker), have)
<1> DEFINE a == taker.owner
           b == maker.owner
           sold == Sells(taker)
           bought == Buys(taker)
           x == Leftover(taker, give, have)
           y == Leftover(maker, have, give)
           r0 == [ok |-> TRUE, ledger |-> ledger]
           r1 == Unfreezing(r0, a, sold, give)
           r2 == Unfreezing(r1, b, bought, have)
           r3 == Transferring(r2, a, b, sold, give)
           r4 == Transferring(r3, b, a, bought, have)
           r5 == Releasing(r4, a, sold, x)
           r6 == Releasing(r5, b, bought, y)
<1>1. Settlement(taker, maker, give, have) = r6 /\ r0.ledger = ledger
  BY DEF Settlement
<1> HIDE DEF r0, r1, r2, r3, r4, r5, r6, a, b, sold, bought, x, y
<1>2. /\ a \in Accounts /\ b \in Accounts /\ a # b /\ sold \in TokensThereCanBe
      /\ bought \in TokensThereCanBe /\ x \in Amount /\ y \in Amount /\ r6.ok
  BY <1>1 DEF a, b, sold, bought, x, y
<1>3. r5.ok
  BY <1>2, ReleasingKeeps DEF r6
<1>4. r4.ok
  BY <1>2, <1>3, ReleasingKeeps DEF r5
<1>5. r3.ok
  BY <1>2, <1>4, TransferringKeeps DEF r4
<1>6. r2.ok
  BY <1>2, <1>5, TransferringKeeps DEF r3
<1>7. r1.ok
  BY <1>2, <1>6, UnfreezingKeeps DEF r2
<1>8. \A l : TP!Whole(l) => TP!Sound(l)
  BY WholeIsTyped
<1>9. TP!Whole(r0.ledger)
  BY <1>1
<1>10. TP!Whole(r1.ledger) /\ r1.ledger.balance = ledger.balance
  <2>1. TP!Whole(r1.ledger)
    BY <1>2, <1>7, <1>8, <1>9, UnfreezingKeeps DEF r1
  <2>2. r1.ledger.balance = r0.ledger.balance
    BY <1>8, <1>9, UnfreezingOwns DEF r1
  <2> QED BY <1>1, <2>1, <2>2
<1>11. TP!Whole(r2.ledger) /\ r2.ledger.balance = ledger.balance
  <2>1. TP!Whole(r2.ledger)
    BY <1>2, <1>6, <1>8, <1>10, UnfreezingKeeps DEF r2
  <2>2. r2.ledger.balance = r1.ledger.balance
    BY <1>8, <1>10, UnfreezingOwns DEF r2
  <2> QED BY <1>10, <2>1, <2>2
<1>12. /\ TP!Whole(r3.ledger)
       /\ r3.ledger.balance = Book!Moved(ledger.balance, a, b, sold, give)
  <2>1. TP!Whole(r3.ledger)
    BY <1>2, <1>5, <1>8, <1>11, TransferringKeeps DEF r3
  <2>2. r3.ledger.balance = Book!Moved(r2.ledger.balance, a, b, sold, give)
    BY <1>2, <1>5, <1>11, TransferringOwns DEF r3
  <2> QED BY <1>11, <2>1, <2>2
<1>13. /\ TP!Whole(r4.ledger)
       /\ r4.ledger.balance = Book!Moved(r3.ledger.balance, b, a, bought, have)
  <2>1. TP!Whole(r4.ledger)
    BY <1>2, <1>4, <1>8, <1>12, TransferringKeeps DEF r4
  <2>2. r4.ledger.balance = Book!Moved(r3.ledger.balance, b, a, bought, have)
    BY <1>2, <1>4, <1>12, TransferringOwns DEF r4
  <2> QED BY <2>1, <2>2
<1>14. TP!Whole(r5.ledger) /\ r5.ledger.balance = r4.ledger.balance
  <2>1. TP!Whole(r5.ledger)
    BY <1>2, <1>3, <1>8, <1>13, ReleasingKeeps DEF r5
  <2>2. r5.ledger.balance = r4.ledger.balance
    BY <1>8, <1>13, UnfreezingOwns DEF r5
  <2> QED BY <2>1, <2>2
<1>15. r6.ledger.balance = r5.ledger.balance
  BY <1>8, <1>14, UnfreezingOwns DEF r6
<1> QED BY <1>1, <1>12, <1>13, <1>14, <1>15 DEF a, b, sold, bought

(* The order the next trade is with, as OrderBook sees it. *)
LEMMA MakerInBook ==
  ASSUME IInv, PInv, call.phase = "trade"
  PROVE  LET hash == Head(call.queue) IN
         /\ call.order \in LiveOf(orders) /\ hash \in LiveOf(orders) /\ hash # call.order
         /\ orders[hash].otype = Opposite(Taker.otype)
         /\ Sells(orders[hash]) = Buys(Taker) /\ Buys(orders[hash]) = Sells(Taker)
         /\ PriceMatched(Taker.price, Taker.otype, orders[hash].price)
<1> DEFINE hash == Head(call.queue)
           maker == orders[hash]
<1>1. /\ call.order \in DOMAIN orders /\ Taker \in OrderSet /\ Taker.otype \in OrderTypes
      /\ Taker.status # "Filled" => ~IsFinished(Taker)
      /\ StorageOK(pairs, pairAt, orders, lists, nonce, {call.order})
      /\ PairIn(pairAt, Taker) = call.pair
  BY TheTaker DEF InProgress
<1>2. Taker.status # "Filled" /\ call.queue # <<>> /\ call.queue \in Seq(Nat)
  BY DEF IInv, Trading, Calls
<1>3. /\ hash \in DOMAIN orders /\ hash # call.order /\ maker \in OrderSet /\ ~IsFinished(maker)
      /\ PairIn(pairAt, maker) = call.pair /\ maker.otype = Opposite(Taker.otype)
  BY TheMaker
<1>4. 1 \in DOMAIN call.queue /\ hash = call.queue[1]
  BY <1>2
<1>5. PriceMatched(Taker.price, Taker.otype, maker.price)
  BY <1>4 DEF PInv, QueuePriced
<1>6. call.order \in LiveOf(orders) /\ hash \in LiveOf(orders)
  BY <1>1, <1>2, <1>3 DEF LiveOf, Taker
<1>7. maker.otype \in OrderTypes /\ Taker.otype = Opposite(maker.otype)
  BY <1>1, <1>3 DEF Opposite, OrderTypes
<1>8. /\ <<Taker.base, Taker.quote>> \in DOMAIN pairAt
      /\ <<maker.base, maker.quote>> \in DOMAIN pairAt
      /\ PairsOK(pairs, pairAt, nonce)
  BY <1>1, <1>3 DEF StorageOK, OrderOK, Taker
<1> HIDE DEF hash, maker
<1>9. Sells(maker) = Buys(Taker)
  BY <1>1, <1>3, <1>7, <1>8, MakerSells
<1>10. Sells(Taker) = Buys(maker)
  BY <1>1, <1>3, <1>7, <1>8, MakerSells
<1> QED BY <1>3, <1>5, <1>6, <1>9, <1>10 DEF hash, maker

(* No order of the other side comes before it. *)
LEMMA BestInBook ==
  ASSUME IInv, PInv, call.phase = "trade"
  PROVE  Book!BestFor(call.order, Head(call.queue))
<1> DEFINE b == BookOf(orders)
           t == call.order
           hash == Head(call.queue)
           maker == orders[hash]
<1>1. /\ t \in LiveOf(orders) /\ hash \in LiveOf(orders) /\ hash # t
      /\ maker.otype = Opposite(Taker.otype)
      /\ Sells(maker) = Buys(Taker) /\ Buys(maker) = Sells(Taker)
      /\ PriceMatched(Taker.price, Taker.otype, maker.price)
  BY MakerInBook
<1>2. /\ Taker.otype \in OrderTypes /\ PairIn(pairAt, Taker) = call.pair
      /\ StorageOK(pairs, pairAt, orders, lists, nonce, {t})
      /\ call.pair \in DOMAIN lists
  BY TheTaker DEF InProgress
<1>3. /\ DOMAIN b = LiveOf(orders) /\ b[t] = Entry(Taker)
      /\ \A h \in LiveOf(orders) : b[h] = Entry(orders[h])
  BY <1>1, BookOfOrders DEF Taker
<1>4. Taker.otype = Opposite(maker.otype)
  BY <1>1, <1>2 DEF Opposite, OrderTypes
<1> HIDE DEF hash, maker, t
<1>5. maker = orders[hash]
  BY DEF maker
<1>6. Book!Opposed(t, hash) /\ Book!Accepts(t, hash)
  <2>1. /\ b[t].otype = Taker.otype /\ b[t].price = Taker.price
        /\ b[t].sells = Sells(Taker) /\ b[t].buys = Buys(Taker)
    BY <1>3, EntryFields
  <2>2. /\ b[hash].otype = maker.otype /\ b[hash].price = maker.price
        /\ b[hash].sells = Sells(maker) /\ b[hash].buys = Buys(maker)
    BY <1>1, <1>3, <1>5, EntryFields
  <2> HIDE DEF b
  <2>3. /\ b[t].otype = Book!Opposite(b[hash].otype)
        /\ b[t].sells = b[hash].buys /\ b[t].buys = b[hash].sells
        /\ Book!PriceMatched(b[t].price, b[t].otype, b[hash].price)
    BY <1>1, <1>4, <2>1, <2>2, SameOrderMath
  <2> QED BY <2>3 DEF Book!Opposed, Book!Accepts, b
<1>7. ASSUME NEW h \in LiveOf(orders) \ {hash}, Book!Opposed(t, h)
      PROVE  Book!Before(hash, h)
  <2>1. /\ h \in DOMAIN orders /\ ~IsFinished(orders[h])
        /\ orders[h] \in OrderSet /\ maker \in OrderSet
    BY <1>1, <1>2, <1>5, <1>7 DEF StorageOK, OrderOK, LiveOf
  <2>2. /\ Taker.otype = Opposite(orders[h].otype)
        /\ Sells(Taker) = Buys(orders[h]) /\ Buys(Taker) = Sells(orders[h])
    BY <1>3, <1>7, EntryFields, SameOrderMath DEF Book!Opposed, b
  <2>3. orders[h].otype \in OrderTypes
    BY <2>1 DEF OrderSet
  <2>4. orders[h].otype = maker.otype /\ orders[h].otype = Opposite(Taker.otype)
    BY <1>1, <2>2, <2>3 DEF Opposite, OrderTypes
  <2>5. PairIn(pairAt, orders[h]) = call.pair /\ h # t
    <3>1. PairIn(pairAt, orders[h]) = PairIn(pairAt, Taker)
      BY <1>2, <2>2, <2>4, OpposedPair
    <3>2. Taker.otype # orders[h].otype
      BY <2>2, <2>3 DEF Opposite, OrderTypes
    <3> QED BY <1>2, <3>1, <3>2 DEF Taker, t
  <2>6. call.pair \in DOMAIN pairs
    BY <1>2 DEF StorageOK
  <2>7. h \in LiveIn(call.pair) \ {Head(call.queue), call.order}
    BY <1>2, <1>7, <2>1, <2>5, <2>6, LiveInPair DEF hash, t
  <2>8. Before(hash, h)
    BY <1>5, <2>4, <2>7, InvPriority DEF hash
  <2>9. maker.price \in Int /\ orders[h].price \in Int
    BY <2>1, MathAssumption DEF OrderSet
  <2>10. /\ b[hash].price = maker.price /\ b[hash].otype = maker.otype
         /\ b[h].price = orders[h].price
    BY <1>1, <1>3, <1>5, <1>7, EntryFields
  <2>11. IF maker.otype = "Buy" THEN \/ maker.price > orders[h].price
                                     \/ maker.price = orders[h].price /\ hash < h
         ELSE \/ maker.price < orders[h].price
              \/ maker.price = orders[h].price /\ hash < h
    BY <1>5, <2>8 DEF Before
  <2>12. \/ maker.price = orders[h].price /\ hash < h
         \/ /\ maker.price # orders[h].price
            /\ maker.otype = "Buy" <=> maker.price > orders[h].price
    BY ONLY <2>9, <2>11
  <2> QED BY <2>10, <2>12 DEF Book!Before, b
<1>8. Book!OtherSide(t) = {h \in LiveOf(orders) : Book!Opposed(t, h)}
  BY <1>3 DEF Book!OtherSide
<1> QED BY <1>1, <1>6, <1>7, <1>8 DEF Book!BestFor, hash, t

(* What a trade leaves of an order that is not filled by it. *)
LEMMA AfterTradeFields ==
  ASSUME NEW o \in OrderSet, NEW give, NEW have
  PROVE  LET new == AfterTrade(o, give, have) IN
         /\ new.owner = o.owner /\ new.otype = o.otype /\ new.price = o.price
         /\ new.base = o.base /\ new.quote = o.quote
         /\ new.remainedBuy = o.remainedBuy - have
         /\ new.remainedSell = IF o.remainedBuy = have THEN 0 ELSE o.remainedSell - give
         /\ new.status = IF o.remainedBuy = have THEN "Filled"
                         ELSE IF o.remainedSell = o.sellAmount THEN "PartialFilled" ELSE o.status
BY DEF AfterTrade, OrderSet

(* An order of OrderBook that gave and had. *)
LEMMA ReducedFields ==
  ASSUME NEW o, NEW give, NEW have
  PROVE  LET r == Book!Reduced(Entry(o), give, have) IN
         /\ r.owner = o.owner /\ r.otype = o.otype /\ r.price = o.price
         /\ r.sells = Sells(o) /\ r.buys = Buys(o)
         /\ r.remainedSell = o.remainedSell - give /\ r.remainedBuy = o.remainedBuy - have
BY DEF Book!Reduced, Entry

LEMMA ReducedEntry ==
  ASSUME NEW o, NEW give, NEW have, NEW n,
         n.owner = o.owner, n.otype = o.otype, n.price = o.price, Sells(n) = Sells(o),
         Buys(n) = Buys(o), n.remainedSell = o.remainedSell - give,
         n.remainedBuy = o.remainedBuy - have
  PROVE  Entry(n) = Book!Reduced(Entry(o), give, have)
<1> DEFINE e == Entry(o)
           r == [e EXCEPT !.remainedSell = n.remainedSell, !.remainedBuy = n.remainedBuy]
<1>1. /\ e.remainedSell = o.remainedSell /\ e.remainedBuy = o.remainedBuy
      /\ e = [owner |-> n.owner, otype |-> n.otype, price |-> n.price, sells |-> Sells(n),
              buys |-> Buys(n), remainedSell |-> o.remainedSell, remainedBuy |-> o.remainedBuy]
  BY DEF Entry
<1> HIDE DEF e
<1>2. Entry(n) = r
  <2> DEFINE d == [e EXCEPT !.remainedSell = n.remainedSell]
  <2>1. d = [owner |-> n.owner, otype |-> n.otype, price |-> n.price, sells |-> Sells(n),
             buys |-> Buys(n), remainedSell |-> n.remainedSell, remainedBuy |-> o.remainedBuy]
    BY <1>1
  <2>2. r = [d EXCEPT !.remainedBuy = n.remainedBuy]
    OBVIOUS
  <2> HIDE DEF d
  <2>3. [d EXCEPT !.remainedBuy = n.remainedBuy] = Entry(n)
    BY <2>1 DEF Entry
  <2> QED BY <2>2, <2>3
<1>3. Book!Reduced(e, give, have) = r
  BY <1>1 DEF Book!Reduced
<1> QED BY <1>2, <1>3 DEF e

(* What is left of an order, in Orders and in OrderBook. *)
LEMMA LeftOfOrder ==
  ASSUME NEW o \in OrderSet, Priced(o), ~IsFinished(o), o.status # "Filled",
         NEW give, NEW have, EP!Suits(Terms(o), give, have)
  PROVE  LET r == Book!Reduced(Entry(o), give, have)
             new == AfterTrade(o, give, have)
         IN /\ give \in 0 .. o.remainedSell /\ have \in 0 .. o.remainedBuy
            /\ r.remainedBuy > 0 => Book!OffersItsPrice(r)
            /\ IsFinished(new) <=> r.remainedBuy = 0
            /\ r.remainedBuy # 0 => Entry(new) = r
<1> DEFINE r == Book!Reduced(Entry(o), give, have)
           new == AfterTrade(o, give, have)
<1>1. /\ o.remainedSell \in Nat /\ o.remainedBuy \in Nat
      /\ Terms(o).remainedSell = o.remainedSell /\ Terms(o).remainedBuy = o.remainedBuy
  BY TermsOf
<1>2. give \in Nat /\ have \in Nat /\ give <= o.remainedSell /\ have <= o.remainedBuy
  BY <1>1 DEF EP!Suits
<1>3. /\ new.owner = o.owner /\ new.otype = o.otype /\ new.price = o.price
      /\ new.base = o.base /\ new.quote = o.quote
      /\ new.remainedBuy = o.remainedBuy - have
      /\ new.remainedSell = IF o.remainedBuy = have THEN 0 ELSE o.remainedSell - give
      /\ new.status = IF o.remainedBuy = have THEN "Filled"
                      ELSE IF o.remainedSell = o.sellAmount THEN "PartialFilled" ELSE o.status
  BY AfterTradeFields
<1>4. /\ r.otype = o.otype /\ r.price = o.price
      /\ r.remainedSell = o.remainedSell - give /\ r.remainedBuy = o.remainedBuy - have
  BY ReducedFields
<1>5. Terms(new) = EP!AfterTrade(Terms(o), give, have)
  BY SameMath
<1>6. EP!OffersItsPrice(Terms(new))
  <2>1. EP!Sound(EP!AfterTrade(Terms(o), give, have))
    BY AssumptionsOfExchange, EP!SoundAfterTrade DEF Priced
  <2> QED BY <1>5, <2>1 DEF EP!Sound
<1>7. /\ Terms(new).otype = new.otype /\ Terms(new).price = new.price
      /\ Terms(new).remainedSell = new.remainedSell /\ Terms(new).remainedBuy = new.remainedBuy
  BY DEF Terms, TermRecord
<1> HIDE DEF r, new
<1>8. r.remainedBuy = 0 <=> o.remainedBuy = have
  <2>1. o.remainedBuy \in Nat /\ have \in Nat
    BY <1>1, <1>2
  <2>2. r.remainedBuy = o.remainedBuy - have
    BY <1>4
  <2> QED BY ONLY <2>1, <2>2
<1>9. IsFinished(new) <=> r.remainedBuy = 0
  BY <1>3, <1>8, <1>4 DEF IsFinished
<1>10. ASSUME r.remainedBuy # 0 PROVE new.remainedSell = o.remainedSell - give
  BY <1>3, <1>8, <1>10
<1>11. ASSUME r.remainedBuy > 0 PROVE Book!OffersItsPrice(r)
  <2>1. r.remainedBuy # 0
    BY <1>11, <1>1, <1>2, <1>4
  <2>2. /\ Terms(new).otype = r.otype /\ Terms(new).price = r.price
        /\ Terms(new).remainedSell = r.remainedSell /\ Terms(new).remainedBuy = r.remainedBuy
    BY <1>3, <1>4, <1>7, <1>10, <2>1
  <2> QED BY <1>6, <2>2 DEF EP!OffersItsPrice, Book!OffersItsPrice
<1>12. ASSUME r.remainedBuy # 0 PROVE Entry(new) = r
  <2>1. Sells(new) = Sells(o) /\ Buys(new) = Buys(o)
    BY <1>3 DEF Sells, Buys
  <2> QED BY <1>3, <1>10, <1>12, <2>1, ReducedEntry DEF r
<1>13. give \in 0 .. o.remainedSell /\ have \in 0 .. o.remainedBuy
  BY <1>1, <1>2
<1> QED BY <1>9, <1>11, <1>12, <1>13 DEF r, new

(* What a trade leaves of the orders t and hash, rt and rm, in os and in   *)
(* the book, c; the others are as they were.                               *)
Leaves(os, c, t, rt, hash, rm, give, have) ==
  /\ rt = Book!Reduced(Entry(orders[t]), give, have)
  /\ rm = Book!Reduced(Entry(orders[hash]), have, give)
  /\ c = [BookOf(orders) EXCEPT ![t] = rt, ![hash] = rm]
  /\ DOMAIN os = DOMAIN orders
  /\ \A x \in DOMAIN orders \ {t, hash} : os[x] = orders[x]
  /\ IsFinished(os[t]) <=> rt.remainedBuy = 0
  /\ rt.remainedBuy # 0 => Entry(os[t]) = rt
  /\ IsFinished(os[hash]) <=> rm.remainedBuy = 0
  /\ rm.remainedBuy # 0 => Entry(os[hash]) = rm

(* The book once a trade has reduced two orders, of which the filled leave.*)
LEMMA BookWhenTraded ==
  ASSUME NEW t \in LiveOf(orders), NEW hash \in LiveOf(orders), t # hash,
         NEW give, NEW have, NEW rt, NEW rm, NEW os1, NEW c,
         Leaves(os1, c, t, rt, hash, rm, give, have),
         \A x \in LiveOf(orders) : orders[x].remainedBuy # 0
  PROVE  /\ Book!Without(c, Book!Filled(c)) = BookOf(os1)
         /\ c = Book!Traded(t, hash, give, have)
         /\ c = Book!Traded(hash, t, have, give)
<1> USE DEF Leaves
<1> DEFINE b == BookOf(orders)
<1>1. /\ DOMAIN b = LiveOf(orders) /\ b = [x \in LiveOf(orders) |-> b[x]]
      /\ \A x \in LiveOf(orders) : b[x] = Entry(orders[x])
  BY BookOfOrders
<1> HIDE DEF b
<1>2. /\ DOMAIN c = LiveOf(orders) /\ c[t] = rt /\ c[hash] = rm
      /\ \A x \in LiveOf(orders) \ {t, hash} : c[x] = b[x]
  BY <1>1 DEF b
<1>3. c = Book!Traded(t, hash, give, have)
  <2>1. Book!Traded(t, hash, give, have)
          = [b EXCEPT ![t] = Book!Reduced(b[t], give, have),
                      ![hash] = Book!Reduced(b[hash], have, give)]
    BY <1>1 DEF Book!Traded, b
  <2> QED BY <1>1, <2>1 DEF b
<1>4. c = Book!Traded(hash, t, have, give)
  <2>1. Book!Traded(hash, t, have, give)
          = [b EXCEPT ![hash] = Book!Reduced(b[hash], have, give),
                      ![t] = Book!Reduced(b[t], give, have)]
    BY <1>1 DEF Book!Traded, b
  <2>2. [b EXCEPT ![hash] = rm, ![t] = rt] = [b EXCEPT ![t] = rt, ![hash] = rm]
    BY <1>1
  <2> QED BY <1>1, <2>1, <2>2 DEF b
<1>5. Book!Filled(c) = {x \in LiveOf(orders) : c[x].remainedBuy = 0}
  BY <1>2 DEF Book!Filled
<1>6. LiveOf(os1) = LiveOf(orders) \ Book!Filled(c)
  <2>1. \A x \in LiveOf(orders) \ {t, hash} : c[x].remainedBuy # 0
    BY <1>1, <1>2, EntryFields
  <2> QED BY <1>2, <1>5, <2>1 DEF LiveOf
<1>7. Book!Without(c, Book!Filled(c)) = [x \in LiveOf(os1) |-> c[x]]
  BY <1>2, <1>6, SameFunctions DEF Book!Without
<1>8. ASSUME NEW x \in LiveOf(os1) PROVE c[x] = Entry(os1[x])
  <2>1. x \in LiveOf(orders) /\ c[x].remainedBuy # 0 /\ x \in DOMAIN orders
    BY <1>5, <1>6, <1>8 DEF LiveOf
  <2>2. CASE x \notin {t, hash}
    BY <1>1, <1>2, <2>1, <2>2
  <2>3. CASE x \in {t, hash}
    BY <1>2, <2>1, <2>3
  <2> QED BY <2>2, <2>3
<1>9. BookOf(os1) = [x \in LiveOf(os1) |-> Entry(os1[x])]
  BY BookOfOrders
<1> QED BY <1>3, <1>4, <1>7, <1>8, <1>9

(* A trade is at the price of the order that was there, up to a unit. *)
LEMMA FairTrade ==
  ASSUME NEW buyer, NEW seller, NEW m, NEW ex, m.price \in Nat,
         ex.base \in Nat \ {0}, ex.quote \in Nat \ {0}, EP!OneAtMakersPrice(m, ex),
         NEW b, b = Book!Reduced(buyer, ex.base, ex.quote),
         NEW s, s = Book!Reduced(seller, ex.quote, ex.base),
         b.remainedBuy = 0 \/ s.remainedBuy = 0,
         b.remainedBuy > 0 => Book!OffersItsPrice(b), s.remainedBuy > 0 => Book!OffersItsPrice(s)
  PROVE  Book!Fair(buyer, seller, m.price, ex.base, ex.quote)
<1> DEFINE margin == IF m.price > PriceFactor THEN m.price ELSE PriceFactor
           x == ex.quote * m.price
           y == ex.base * PriceFactor
<1>1. PriceFactor \in Nat /\ margin \in Nat /\ margin \in {m.price, PriceFactor}
  BY MathAssumption
<1>2. x \in Nat /\ y \in Nat
  BY <1>1
<1>3. x - y <= margin /\ y - x <= margin
  BY DEF EP!OneAtMakersPrice
<1> HIDE DEF margin, x, y
<1>4. x - y \in -margin .. margin
  BY ONLY <1>1, <1>2, <1>3
<1>5. \E unit \in {m.price, PriceFactor} : x - y \in -unit .. unit
  BY <1>1, <1>4
<1>6. Book!AtPrice(m.price, ex.base, ex.quote)
  BY <1>5 DEF Book!AtPrice, x, y
<1>7. ex.base > 0 /\ ex.quote > 0
  OBVIOUS
<1> QED BY <1>6, <1>7 DEF Book!Fair

(* What order_match does of a trade, before it looks whose turn it is. *)
Exchanges ==
  LET hash == Head(call.queue)
      ex == CalculateExAmount(orders[hash], Taker)
      give == IF Taker.otype = "Buy" THEN ex.base ELSE ex.quote
      have == IF Taker.otype = "Buy" THEN ex.quote ELSE ex.base
  IN /\ orders' = TradedOrders(orders, call.order, hash, give, have)
     /\ ledger' = Settlement(Taker, orders[hash], give, have).ledger

LEMMA ExchangedInBook ==
  ASSUME IInv, FInv, EInv, PInv, NoSelfMatch, call.phase = "trade", Exchanges
  PROVE  LET hash == Head(call.queue)
             maker == orders[hash]
         IN IF maker.otype = "Sell" THEN Book!Exchanged(call.order, hash, maker.price)
                                    ELSE Book!Exchanged(hash, call.order, maker.price)
<1> DEFINE t == call.order
           hash == Head(call.queue)
           maker == orders[hash]
           ex == CalculateExAmount(maker, Taker)
           give == IF Taker.otype = "Buy" THEN ex.base ELSE ex.quote
           have == IF Taker.otype = "Buy" THEN ex.quote ELSE ex.base
           rt == Book!Reduced(Entry(Taker), give, have)
           rm == Book!Reduced(Entry(maker), have, give)
           b == BookOf(orders)
           c == [b EXCEPT ![t] = rt, ![hash] = rm]
           w == ledger.balance
<1>1. /\ t \in LiveOf(orders) /\ hash \in LiveOf(orders) /\ hash # t
      /\ maker.otype = Opposite(Taker.otype)
      /\ Sells(maker) = Buys(Taker) /\ Buys(maker) = Sells(Taker)
  BY MakerInBook
<1>2. /\ Taker \in OrderSet /\ Taker.otype \in OrderTypes /\ Taker = orders[t]
      /\ StorageOK(pairs, pairAt, orders, lists, nonce, {t})
  BY TheTaker DEF InProgress, Taker
<1>3. /\ EP!Suits(Terms(Taker), give, have) /\ EP!Suits(Terms(maker), have, give)
      /\ ex.base \in Nat \ {0} /\ ex.quote \in Nat \ {0}
      /\ EP!OneAtMakersPrice(Terms(maker), ex)
  BY TradeFits, Zenon
<1>4. /\ give <= Taker.remainedSell /\ have <= Taker.remainedBuy
      /\ have <= maker.remainedSell /\ give <= maker.remainedBuy
      /\ Settlement(Taker, maker, give, have).ok
      /\ give \in Amount /\ have \in Amount
      /\ Leftover(Taker, give, have) \in Amount /\ Leftover(maker, have, give) \in Amount
      /\ Sells(Taker) \in TokensThereCanBe /\ Buys(Taker) \in TokensThereCanBe
  BY TradeIsPaid, Zenon
<1>5. /\ maker \in OrderSet /\ ~IsFinished(maker) /\ ~IsFinished(Taker)
      /\ maker.status # "Filled" /\ Taker.status # "Filled"
      /\ Priced(Taker) /\ Priced(maker) /\ Taker.owner # maker.owner
      /\ maker.owner \in Accounts /\ Taker.owner \in Accounts
  <2>1. /\ t \in DOMAIN orders /\ hash \in DOMAIN orders /\ ~IsFinished(maker) /\ ~IsFinished(Taker)
    BY <1>1, <1>2 DEF LiveOf
  <2>2. OrderOK(pairAt, t, Taker, nonce) /\ OrderOK(pairAt, hash, maker, nonce)
    BY <1>2, <2>1 DEF StorageOK
  <2>3. maker.status # "Filled" /\ Taker.status # "Filled"
    BY <2>1, <2>2, FinishedMeans
  <2>4. Priced(Taker) /\ Priced(maker)
    BY <1>2, <2>1 DEF PInv, Accounted, OrderAccounted
  <2>5. maker \in OrderSet /\ maker.owner \in Accounts /\ Taker.owner \in Accounts
    BY <1>2, <2>2 DEF OrderOK, OrderSet
  <2> QED BY <2>1, <2>3, <2>4, <2>5 DEF NoSelfMatch
<1>6. Taker.remainedBuy = have \/ maker.remainedBuy = give
  BY <1>2, <1>5, ExchangeFills
<1>7. /\ orders' = TradedOrders(orders, t, hash, give, have)
      /\ ledger' = Settlement(Taker, maker, give, have).ledger
  BY DEF Exchanges
<1>8. /\ DOMAIN b = LiveOf(orders) /\ b[t] = Entry(Taker) /\ b[hash] = Entry(maker)
  BY <1>1, <1>2, BookOfOrders
<1>9. /\ Terms(maker).price = maker.price /\ maker.price \in Nat
      /\ maker.remainedBuy \in Nat /\ Taker.remainedBuy \in Nat
      /\ maker.remainedSell \in Nat /\ Taker.remainedSell \in Nat
  BY <1>2, <1>5, TermsOf
<1>10. give \in Nat /\ have \in Nat
  <2>1. give \in Amount /\ have \in Amount
    BY <1>4
  <2>2. Amount \subseteq Nat
    BY AssumptionsOfTokens DEF Amount
  <2> QED BY ONLY <2>1, <2>2
<1>11. maker = orders[hash]
  OBVIOUS
<1>12. /\ Taker.otype = "Buy" => give = ex.base /\ have = ex.quote
       /\ Taker.otype # "Buy" => have = ex.base /\ give = ex.quote
  OBVIOUS
<1> HIDE DEF t, hash, maker, ex, give, have, b
<1>13. /\ rt.remainedBuy > 0 => Book!OffersItsPrice(rt)
       /\ IsFinished(AfterTrade(Taker, give, have)) <=> rt.remainedBuy = 0
       /\ rt.remainedBuy # 0 => Entry(AfterTrade(Taker, give, have)) = rt
  BY <1>2, <1>3, <1>5, LeftOfOrder
<1>14. /\ rm.remainedBuy > 0 => Book!OffersItsPrice(rm)
       /\ IsFinished(AfterTrade(maker, have, give)) <=> rm.remainedBuy = 0
       /\ rm.remainedBuy # 0 => Entry(AfterTrade(maker, have, give)) = rm
  BY <1>3, <1>5, LeftOfOrder
<1>15. /\ rt.remainedBuy = Taker.remainedBuy - have /\ rm.remainedBuy = maker.remainedBuy - give
  BY ReducedFields
<1>16. rt = Book!Reduced(b[t], give, have) /\ rm = Book!Reduced(b[hash], have, give)
  BY <1>8
<1> HIDE DEF rt, rm
<1>17. rt.remainedBuy = 0 \/ rm.remainedBuy = 0
  BY ONLY <1>6, <1>9, <1>10, <1>15
<1>18. /\ Book!Without(c, Book!Filled(c)) = BookOf(orders')
       /\ c = Book!Traded(t, hash, give, have)
       /\ c = Book!Traded(hash, t, have, give)
  <2>1. /\ DOMAIN orders' = DOMAIN orders
        /\ \A x \in DOMAIN orders \ {t, hash} : orders'[x] = orders[x]
        /\ orders'[t] = AfterTrade(Taker, give, have)
        /\ orders'[hash] = AfterTrade(maker, have, give)
    BY <1>1, <1>2, <1>7, <1>11 DEF TradedOrders, TradedTaker, LiveOf
  <2>2. \A x \in LiveOf(orders) : orders[x].remainedBuy # 0
    BY DEF LiveOf, PInv, Accounted, OrderAccounted, Priced
  <2>3. /\ rt = Book!Reduced(Entry(orders[t]), give, have)
        /\ rm = Book!Reduced(Entry(orders[hash]), have, give)
    BY <1>2, <1>11 DEF rt, rm
  <2> DEFINE d == c
  <2>4. d = [BookOf(orders) EXCEPT ![t] = rt, ![hash] = rm]
    BY DEF b
  <2> HIDE DEF d
  <2>5. /\ IsFinished(orders'[t]) <=> rt.remainedBuy = 0
        /\ rt.remainedBuy # 0 => Entry(orders'[t]) = rt
        /\ IsFinished(orders'[hash]) <=> rm.remainedBuy = 0
        /\ rm.remainedBuy # 0 => Entry(orders'[hash]) = rm
    BY <1>13, <1>14, <2>1
  <2>6. /\ Book!Without(d, Book!Filled(d)) = BookOf(orders')
        /\ d = Book!Traded(t, hash, give, have)
        /\ d = Book!Traded(hash, t, have, give)
    <3> DEFINE os1 == orders'
    <3> USE DEF os1
    <3>1. Leaves(os1, d, t, rt, hash, rm, give, have)
      BY <2>1, <2>3, <2>4, <2>5 DEF Leaves
    <3> HIDE DEF os1
    <3>3. /\ Book!Without(d, Book!Filled(d)) = BookOf(os1)
          /\ d = Book!Traded(t, hash, give, have)
          /\ d = Book!Traded(hash, t, have, give)
      <4>1. t \in LiveOf(orders) /\ hash \in LiveOf(orders) /\ t # hash
        BY <1>1
      <4> QED BY ONLY <4>1, <2>2, <3>1, BookWhenTraded
    <3> QED BY <3>3 DEF os1
  <2> QED BY <2>6, Zenon DEF d
<1> HIDE DEF c
<1>19. /\ ledger'.balance = Book!Moved(Book!Moved(w, Taker.owner, maker.owner, Sells(Taker), give),
                                       maker.owner, Taker.owner, Buys(Taker), have)
       /\ ledger'.balance = Book!Moved(Book!Moved(w, maker.owner, Taker.owner, Buys(Taker), have),
                                       Taker.owner, maker.owner, Sells(Taker), give)
  <2>1. /\ TP!Whole(ledger) /\ SuppliesFit
    BY WhatInvSays DEF EInv, Exactly
  <2>2. ledger'.balance = Book!Moved(Book!Moved(w, Taker.owner, maker.owner, Sells(Taker), give),
                                    maker.owner, Taker.owner, Buys(Taker), have)
    <3>1. Settlement(Taker, maker, give, have).ledger.balance
            = Book!Moved(Book!Moved(ledger.balance, Taker.owner, maker.owner, Sells(Taker), give),
                         maker.owner, Taker.owner, Buys(Taker), have)
      BY ONLY <1>4, <1>5, <2>1, SettlementPays
    <3> QED BY <1>7, <3>1, Zenon
  <2>3. w \in [T!Holdings -> Int]
    <3>1. ledger.balance \in [T!Holdings -> Amount]
      BY <2>1, WholeIsTyped, SameTokens, SameSets DEF TP!Sound, TP!Good, TP!Ledgers
    <3>2. Amount \subseteq Int
      BY AssumptionsOfTokens DEF Amount
    <3> QED BY <3>1, <3>2
  <2>4. Book!Moved(Book!Moved(w, Taker.owner, maker.owner, Sells(Taker), give),
                   maker.owner, Taker.owner, Buys(Taker), have)
          = Book!Moved(Book!Moved(w, maker.owner, Taker.owner, Buys(Taker), have),
                       Taker.owner, maker.owner, Sells(Taker), give)
    BY <1>4, <1>5, <1>10, <2>3, PaymentsCommute
  <2> QED BY <2>2, <2>4, Zenon
<1> HIDE DEF w
<1>20. /\ b[t].owner = Taker.owner /\ b[t].sells = Sells(Taker)
       /\ b[t].remainedSell = Taker.remainedSell /\ b[t].remainedBuy = Taker.remainedBuy
       /\ b[hash].owner = maker.owner /\ b[hash].sells = Buys(Taker)
       /\ b[hash].remainedSell = maker.remainedSell /\ b[hash].remainedBuy = maker.remainedBuy
  BY <1>1, <1>8, EntryFields
<1>21. CASE Taker.otype = "Buy"
  <2>1. maker.otype = "Sell" /\ give = ex.base /\ have = ex.quote
    BY <1>1, <1>12, <1>21 DEF Opposite
  <2>2. Book!Fair(b[t], b[hash], maker.price, give, have)
    <3>1. rt = Book!Reduced(b[t], ex.base, ex.quote) /\ rm = Book!Reduced(b[hash], ex.quote, ex.base)
      BY <1>16, <2>1
    <3>2. EP!OneAtMakersPrice(maker, ex)
      BY <1>3, <1>9 DEF EP!OneAtMakersPrice
    <3>3. Book!Fair(b[t], b[hash], maker.price, ex.base, ex.quote)
      BY <1>3, <1>9, <1>13, <1>14, <1>17, <3>1, <3>2, FairTrade
    <3> QED BY <2>1, <3>3
  <2>3. give \in 0 .. b[t].remainedSell /\ have \in 0 .. b[t].remainedBuy
    BY <1>4, <1>9, <1>10, <1>20
  <2>4. have <= b[hash].remainedSell /\ give <= b[hash].remainedBuy
    BY <1>4, <1>20
  <2>5. ledger'.balance = Book!Moved(Book!Moved(w, b[t].owner, b[hash].owner, b[t].sells, give),
                                    b[hash].owner, b[t].owner, b[hash].sells, have)
    BY <1>19, <1>20, Zenon
  <2>6. BookOf(orders') = Book!Without(Book!Traded(t, hash, give, have),
                                       Book!Filled(Book!Traded(t, hash, give, have)))
    BY <1>18
  <2>7. Book!Exchanged(t, hash, maker.price)
    BY <2>2, <2>3, <2>4, <2>5, <2>6, Zenon DEF Book!Exchanged, b, w
  <2> QED BY <2>1, <2>7 DEF t, hash, maker
<1>22. CASE Taker.otype # "Buy"
  <2>1. maker.otype # "Sell" /\ have = ex.base /\ give = ex.quote
    BY <1>1, <1>2, <1>12, <1>22 DEF Opposite, OrderTypes
  <2>2. Book!Fair(b[hash], b[t], maker.price, have, give)
    <3>1. rt = Book!Reduced(b[t], ex.quote, ex.base) /\ rm = Book!Reduced(b[hash], ex.base, ex.quote)
      BY <1>16, <2>1
    <3>2. EP!OneAtMakersPrice(maker, ex)
      BY <1>3, <1>9 DEF EP!OneAtMakersPrice
    <3>3. Book!Fair(b[hash], b[t], maker.price, ex.base, ex.quote)
      BY <1>3, <1>9, <1>13, <1>14, <1>17, <3>1, <3>2, FairTrade
    <3> QED BY <2>1, <3>3
  <2>3. have \in 0 .. b[hash].remainedSell /\ give \in 0 .. b[hash].remainedBuy
    BY <1>4, <1>9, <1>10, <1>20
  <2>4. give <= b[t].remainedSell /\ have <= b[t].remainedBuy
    BY <1>4, <1>20
  <2>5. ledger'.balance = Book!Moved(Book!Moved(w, b[hash].owner, b[t].owner, b[hash].sells, have),
                                    b[t].owner, b[hash].owner, b[t].sells, give)
    BY <1>19, <1>20, Zenon
  <2>6. BookOf(orders') = Book!Without(Book!Traded(hash, t, have, give),
                                       Book!Filled(Book!Traded(hash, t, have, give)))
    BY <1>18
  <2>7. Book!Exchanged(hash, t, maker.price)
    BY <2>2, <2>3, <2>4, <2>5, <2>6, Zenon DEF Book!Exchanged, b, w
  <2> QED BY <2>1, <2>7 DEF t, hash, maker
<1> QED BY <1>21, <1>22

(* A round of the loop over the orders of a level is a trade of OrderBook. *)
LEMMA TradeInBook ==
  ASSUME IInv, FInv, EInv, PInv, NoneStranded, NoneStranded', NoSelfMatch, MatchOrder
  PROVE  Book!Trade \/ UNCHANGED Book!bookVars
<1> DEFINE hash == Head(call.queue)
           maker == orders[hash]
           ex == CalculateExAmount(maker, Taker)
           give == IF Taker.otype = "Buy" THEN ex.base ELSE ex.quote
           have == IF Taker.otype = "Buy" THEN ex.quote ELSE ex.base
           Goes == /\ orders' = TradedOrders(orders, call.order, hash, give, have)
                   /\ ledger' = Settlement(Taker, maker, give, have).ledger
                   /\ saved' = saved
                   /\ \/ call' = [call EXCEPT !.phase = "match", !.queue = <<>>]
                      \/ call' = [call EXCEPT !.queue = Tail(@)]
<1>1. call.phase = "trade" /\ InProgress
  BY DEF MatchOrder, InProgress
<1>2. NeverEnds \/ Goes
  BY MatchOrderTrades
<1>3. CASE NeverEnds
  <2>1. /\ call'.order = call.order /\ call'.market = call.market /\ InProgress'
        /\ UNCHANGED <<orders, ledger, saved>>
    BY <1>1, <1>3 DEF NeverEnds, IInv, Calls, InProgress, orderVars, tokenVars
  <2> QED BY <1>1, <2>1, UnseenPhase
<1>4. CASE Goes
  <2> DEFINE b == BookOf(orders)
             tk == IF Matching THEN [order |-> call.order, rests |-> ~call.market]
                               ELSE [order |-> -1, rests |-> FALSE]
             bf == IF Quiet THEN <<>>
                   ELSE [wealth |-> saved.ledger.balance, book |-> BookOf(saved.orders),
                         stranded |-> Stranded(saved.ledger, saved.orders)]
  <2>1. /\ call.order \in LiveOf(orders) /\ hash \in LiveOf(orders)
        /\ maker.otype = Opposite(Taker.otype)
    BY <1>1, MakerInBook
  <2>2. call.order \in Nat /\ ~call.market /\ ~Quiet /\ Matching
    BY <1>1, <2>1, TakerInBook
  <2>3. tk = [order |-> call.order, rests |-> ~call.market] /\ tk # Book!NoTaker
    BY <2>2, TakerIsNotNobody
  <2>4. Book!BestFor(call.order, hash)
    BY <1>1, BestInBook
  <2>5. IF maker.otype = "Sell" THEN Book!Exchanged(call.order, hash, maker.price)
                                ELSE Book!Exchanged(hash, call.order, maker.price)
    <3>1. Exchanges
      BY <1>4 DEF Exchanges
    <3> QED BY <1>1, <3>1, ExchangedInBook
  <2>6. hash \in DOMAIN b /\ b[hash].otype = maker.otype /\ b[hash].price = maker.price
    BY <2>1, BookOfOrders, EntryFields
  <2>7. /\ call'.order = call.order /\ call'.market = call.market
        /\ call'.phase \in {"match", "trade"}
    BY <1>1, <1>4 DEF IInv, Calls
  <2>8. ~Quiet' /\ (Matching' <=> call.order \in LiveOf(orders'))
    BY <2>7 DEF Quiet, Matching, Live, LiveOf
  <2>9. bf' = bf
    BY <1>4, <2>2, <2>8
  <2>10. tk' = IF call.order \in DOMAIN BookOf(orders') THEN tk ELSE Book!NoTaker
    <3>1. DOMAIN BookOf(orders') = LiveOf(orders')
      BY BookOfOrders
    <3>2. tk' = IF Matching' THEN [order |-> call.order, rests |-> ~call.market]
                            ELSE [order |-> -1, rests |-> FALSE]
      BY <2>7
    <3> QED BY <2>3, <2>8, <3>1, <3>2 DEF Book!NoTaker
  <2>11. tk.order = call.order
    BY <2>3
  <2> HIDE DEF hash, maker, Goes, b, tk, bf
  <2>12. Book!Trade
    BY <2>3, <2>4, <2>5, <2>6, <2>9, <2>10, <2>11 DEF Book!Trade, b, tk, bf, NoneStranded
  <2> QED BY <2>12
<1> QED BY <1>2, <1>3, <1>4

-----------------------------------------------------------------------------
(* Every step is one of OrderBook, or one it does not see.                 *)

(* The genesis storage is an empty book. *)
LEMMA BookInit ==
  ASSUME Init, NoneStranded
  PROVE  Book!Init
<1>1. /\ call.phase = "idle" /\ orders = EmptyMap
      /\ ledger.balance = [h \in T!Holdings |-> 0]
  BY IdleIsACall DEF Init, T!Init, T!EmptyLedger
<1>2. ledger.balance \in [Book!Holdings -> Nat]
  BY <1>1 DEF Book!Holdings, T!Holdings
<1>3. BookOf(orders) = [h \in {} |-> h]
  BY <1>1 DEF BookOf, EmptyMap
<1>4. ~Matching /\ Quiet
  BY <1>1 DEF Matching, Quiet
<1>5. T!Holdings = Book!Holdings
  BY DEF Book!Holdings, T!Holdings
<1> QED BY <1>2, <1>3, <1>4, <1>5 DEF Book!Init, Book!NoTaker, Book!Nothing, NoneStranded

(* The actions of Trade, one by one. *)
LEMMA RefinesStep ==
  ASSUME Regular, ProductsFit, IInv, FInv, EInv, PInv, NoneStranded, NoneStranded',
         PairsListed, NoSelfMatch, [Next]_vars
  PROVE  Book!Next \/ UNCHANGED Book!bookVars
<1>1. CASE MatchOrder
  BY <1>1, TradeInBook DEF Book!Next
<1>2. CASE MatchLevel
  BY <1>2, MatchLevelInBook DEF Book!Next
<1>3. ASSUME NEW o \in LimitOrders, NEW p \in DOMAIN pairs,
             CreateLimitOrder(o[1], p, o[2], o[3], o[4])
      PROVE  Book!Next
  BY <1>3, PlaceInBook DEF Book!Next
<1>4. ASSUME NEW a, NEW h, CancelLimitOrder(a, h)
      PROVE  Book!Next
  BY <1>4, CancelInBook DEF Book!Next
<1>5. ASSUME NEW a \in Accounts, NEW n \in Supplies, Issue(a, n)
      PROVE  Book!Next
  BY <1>5, IssueInBook DEF Book!Next
<1>6. ASSUME NEW a \in Accounts, NEW b \in Accounts, NEW t \in DOMAIN tokens, NEW n \in Transfers,
             Transfer(a, b, t, n)
      PROVE  Book!Next
  BY <1>6, TransferInBook DEF Book!Next
<1>7. ASSUME \/ OnInitialize \/ OnFinalize \/ UNCHANGED vars
             \/ \E a, b, q : CreateTradePair(a, b, q)
      PROVE  UNCHANGED Book!bookVars
  <2>1. UNCHANGED <<orders, ledger, saved, call>>
    BY <1>7 DEF OnInitialize, OnFinalize, vars, CreateTradePair, orderVars, callVars, tokenVars
  <2> QED BY <2>1, UnseenCall
<1>8. MarketOrders = {} /\ ~PlaceMarketOrder /\ ~SettleMarketOrder
  BY DEF Regular, IInv, Calls, PlaceMarketOrder, SettleMarketOrder
<1> QED BY <1>1, <1>2, <1>3, <1>4, <1>5, <1>6, <1>7, <1>8 DEF Next, CallStep

(* While callers do what Regular says (so no market orders), and where no  *)
(* order meets one of its owner, the three balances, the price list and    *)
(* the storage transactions of every call keep what OrderBook promises:    *)
(* who trades next, at which price, what each is paid, that what no order  *)
(* offers is free to be spent (nothing is ever stranded), and that nothing *)
(* fails after it was placed.                                              *)
THEOREM TradeImplementsOrderBook ==
  ASSUME Regular, ProductsFit
  PROVE  Spec /\ []NoSelfMatch => ImplementsOrderBook
<1>1. Init /\ NoneStranded => Book!Init
  BY BookInit
<1>2. Init => PairsListed
  BY DEF Init, PairsListed, EmptyMap
<1>3. IInv /\ FInv /\ PairsListed /\ [Next]_vars => PairsListed'
  BY PairsListedStep
<1>4. IInv /\ FInv /\ EInv => NoneStranded
  BY AllIsOffered
<1>5. IInv /\ FInv /\ EInv /\ PInv /\ PairsListed /\ NoSelfMatch /\ NoneStranded
        /\ NoneStranded' /\ [Next]_vars
        => [Book!Next]_(Book!bookVars)
  BY RefinesStep
<1> QED BY <1>1, <1>2, <1>3, <1>4, <1>5, FundsInvariant, ExactInvariant, PricesInvariant, PTL
        DEF Spec, ImplementsOrderBook, Book!Spec
==========================================================================
