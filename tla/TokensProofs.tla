-------------------------- MODULE TokensProofs --------------------------
(***************************************************************************)
(* Proofs about Tokens, for every set of accounts, number of tokens, width *)
(* of a balance and set of amounts, and whether or not an account settles  *)
(* with itself.                                                            *)
(*                                                                         *)
(* A ledger is good when it has its type and every balance is the sum of   *)
(* its two parts.  The lemmas say that each helper of pallet_tokens, given *)
(* what its checks establish, makes a good ledger of a good one; they      *)
(* speak of ledger values, since one extrinsic makes several such steps.   *)
(***************************************************************************)
EXTENDS Tokens, SumProofs, TLAPS

Split(l) == \A h \in Holdings : l.balance[h] = WrapAdd(l.free[h], l.freezed[h])

Good(l) == l \in Ledgers /\ Split(l)

LEMMA WrapAddInRange ==
  ASSUME NEW x \in Balances, NEW y \in Balances
  PROVE  WrapAdd(x, y) \in Balances
BY BoundsAssumption DEF Balances, WrapAdd

(* What the additions and subtractions of a helper do to a split balance.  *)
LEMMA SplitArithmetic ==
  ASSUME NEW f \in Balances, NEW z \in Balances, NEW n \in Balances
  PROVE  /\ n <= f => WrapAdd(f - n, WrapAdd(z, n)) = WrapAdd(f, z)
         /\ n <= z => WrapAdd(WrapAdd(f, n), z - n) = WrapAdd(f, z)
         /\ n <= f /\ n <= WrapAdd(f, z) => WrapAdd(f - n, z) = WrapAdd(f, z) - n
         /\ WrapAdd(WrapAdd(f, n), z) = WrapAdd(WrapAdd(f, z), n)
BY BoundsAssumption DEF Balances, WrapAdd

(* do_freeze moves an amount from the free part to the frozen part. *)
LEMMA FreezeKeepsGood ==
  ASSUME NEW l, Good(l), NEW a \in Accounts, NEW t \in TokenHashes, NEW n \in Balances,
         CanFreeze(l, a, t, n)
  PROVE  Good(DoFreeze(l, a, t, n))
<1> DEFINE k == <<a, t>>
           m == DoFreeze(l, a, t, n)
<1>1. k \in Holdings
  BY DEF Holdings
<1>2. n <= l.free[k]
  BY <1>1, BoundsAssumption DEF CanFreeze, Enough, Good, Ledgers, Balances
<1>3. /\ m.balance = l.balance
      /\ m.held = l.held
      /\ m.free = [l.free EXCEPT ![k] = @ - n]
      /\ m.freezed = [l.freezed EXCEPT ![k] = WrapAdd(@, n)]
  BY <1>1 DEF DoFreeze, Good, Ledgers
<1>4. m \in Ledgers
  <2>1. l.free[k] - n \in Balances
    BY <1>1, <1>2, BoundsAssumption DEF Good, Ledgers, Balances
  <2>2. WrapAdd(l.freezed[k], n) \in Balances
    BY <1>1, WrapAddInRange DEF Good, Ledgers
  <2> QED
    BY <1>1, <2>1, <2>2 DEF DoFreeze, Good, Ledgers
<1>5. ASSUME NEW h \in Holdings
      PROVE  m.balance[h] = WrapAdd(m.free[h], m.freezed[h])
  <2>1. CASE h = k
    <3>1. /\ m.free[h] = l.free[k] - n
          /\ m.freezed[h] = WrapAdd(l.freezed[k], n)
      BY <1>1, <1>3, <2>1 DEF Good, Ledgers
    <3> QED
      BY <1>1, <1>2, <1>3, <2>1, <3>1, SplitArithmetic DEF Good, Ledgers, Split
  <2>2. CASE h # k
    BY <1>3, <2>2 DEF Good, Ledgers, Split
  <2> QED
    BY <2>1, <2>2
<1> QED
  BY <1>4, <1>5 DEF Good, Split

(* do_unfreeze moves an amount back. *)
LEMMA UnfreezeKeepsGood ==
  ASSUME NEW l, Good(l), NEW a \in Accounts, NEW t \in TokenHashes, NEW n \in Balances,
         CanUnfreeze(l, a, t, n)
  PROVE  Good(DoUnfreeze(l, a, t, n))
<1> DEFINE k == <<a, t>>
           m == DoUnfreeze(l, a, t, n)
<1>1. k \in Holdings
  BY DEF Holdings
<1>2. n <= l.freezed[k]
  BY <1>1, BoundsAssumption DEF CanUnfreeze, Enough, Good, Ledgers, Balances
<1>3. /\ m.balance = l.balance
      /\ m.held = l.held
      /\ m.free = [l.free EXCEPT ![k] = WrapAdd(@, n)]
      /\ m.freezed = [l.freezed EXCEPT ![k] = @ - n]
  BY <1>1 DEF DoUnfreeze, Good, Ledgers
<1>4. m \in Ledgers
  <2>1. l.freezed[k] - n \in Balances
    BY <1>1, <1>2, BoundsAssumption DEF Good, Ledgers, Balances
  <2>2. WrapAdd(l.free[k], n) \in Balances
    BY <1>1, WrapAddInRange DEF Good, Ledgers
  <2> QED
    BY <1>1, <2>1, <2>2 DEF DoUnfreeze, Good, Ledgers
<1>5. ASSUME NEW h \in Holdings
      PROVE  m.balance[h] = WrapAdd(m.free[h], m.freezed[h])
  <2>1. CASE h = k
    <3>1. /\ m.free[h] = WrapAdd(l.free[k], n)
          /\ m.freezed[h] = l.freezed[k] - n
      BY <1>1, <1>3, <2>1 DEF Good, Ledgers
    <3> QED
      BY <1>1, <1>2, <1>3, <2>1, <3>1, SplitArithmetic DEF Good, Ledgers, Split
  <2>2. CASE h # k
    BY <1>3, <2>2 DEF Good, Ledgers, Split
  <2> QED
    BY <2>1, <2>2
<1> QED
  BY <1>4, <1>5 DEF Good, Split

(* What a transfer makes of one part of the ledger. *)
LEMMA MovedType ==
  ASSUME NEW part \in [Holdings -> Balances],
         NEW j \in Holdings, NEW k \in Holdings, NEW n \in Balances, n <= part[j]
  PROVE  /\ Moved(part, j, k, n) \in [Holdings -> Balances]
         /\ Moved(part, j, k, n)[k] = WrapAdd(part[k], n)
         /\ j # k => Moved(part, j, k, n)[j] = part[j] - n
         /\ \A h \in Holdings \ {j, k} : Moved(part, j, k, n)[h] = part[h]
<1>1. part[j] - n \in Balances
  BY BoundsAssumption DEF Balances
<1>2. WrapAdd(part[k], n) \in Balances
  BY WrapAddInRange
<1> QED
  BY <1>1, <1>2 DEF Moved

(* do_transfer changes the balance and its free part alike, also for an    *)
(* account that pays itself.                                               *)
LEMMA TransferKeepsGood ==
  ASSUME NEW l, Good(l), NEW a \in Accounts, NEW b \in Accounts,
         NEW t \in TokenHashes, NEW n \in Balances,
         CanTransfer(l, a, b, t, n)
  PROVE  Good(DoTransfer(l, a, b, t, n))
<1> DEFINE j == <<a, t>>
           k == <<b, t>>
           m == DoTransfer(l, a, b, t, n)
<1>1. j \in Holdings /\ k \in Holdings
  BY DEF Holdings
<1>2. n <= l.balance[j] /\ n <= l.free[j]
  BY <1>1, BoundsAssumption DEF CanTransfer, Enough, Good, Ledgers, Balances
<1>3. /\ m.balance = Moved(l.balance, j, k, n)
      /\ m.free = Moved(l.free, j, k, n)
      /\ m.freezed = l.freezed
      /\ m.held = l.held \cup {j, k}
  BY DEF DoTransfer, Good, Ledgers
<1>4. /\ l.balance \in [Holdings -> Balances]
      /\ l.free \in [Holdings -> Balances]
      /\ l.freezed \in [Holdings -> Balances]
  BY DEF Good, Ledgers
<1>5. ASSUME NEW part \in {l.balance, l.free}
      PROVE  /\ Moved(part, j, k, n) \in [Holdings -> Balances]
             /\ Moved(part, j, k, n)[k] = WrapAdd(part[k], n)
             /\ j # k => Moved(part, j, k, n)[j] = part[j] - n
             /\ \A h \in Holdings \ {j, k} : Moved(part, j, k, n)[h] = part[h]
  <2>1. part \in [Holdings -> Balances] /\ n <= part[j]
    BY <1>2, <1>4
  <2> HIDE DEF j, k
  <2> QED
    BY <1>1, <2>1, MovedType
<1>6. m \in Ledgers
  BY <1>1, <1>5 DEF DoTransfer, Good, Ledgers
<1>7. ASSUME NEW h \in Holdings
      PROVE  m.balance[h] = WrapAdd(m.free[h], m.freezed[h])
  <2>1. l.balance[h] = WrapAdd(l.free[h], l.freezed[h])
    BY DEF Good, Split
  <2>2. l.free[h] \in Balances /\ l.freezed[h] \in Balances
    BY <1>4
  <2> HIDE DEF j, k, m
  <2>3. CASE h = k
    <3>1. /\ m.balance[h] = WrapAdd(l.balance[h], n)
          /\ m.free[h] = WrapAdd(l.free[h], n)
      BY <1>3, <1>5, <2>3
    <3> QED
      BY <1>3, <2>1, <2>2, <3>1, SplitArithmetic
  <2>4. CASE h # k /\ h = j
    <3>1. /\ m.balance[h] = l.balance[h] - n
          /\ m.free[h] = l.free[h] - n
      BY <1>3, <1>5, <2>4
    <3> QED
      BY <1>2, <1>3, <2>1, <2>2, <2>4, <3>1, SplitArithmetic
  <2>5. CASE h # k /\ h # j
    BY <1>3, <1>5, <2>1, <2>5
  <2> QED
    BY <2>3, <2>4, <2>5
<1> QED
  BY <1>6, <1>7 DEF Good, Split

-----------------------------------------------------------------------------
(* do_issue writes the key of a token that had no balance yet. *)
LEMMA IssueKeepsGood ==
  ASSUME NEW l, Good(l), NEW a \in Accounts, NEW t \in TokenHashes, NEW n \in Balances,
         l.freezed[<<a, t>>] = 0,
         NEW m,
         m = [l EXCEPT !.balance[<<a, t>>] = n,
                       !.free[<<a, t>>] = n,
                       !.held = @ \cup {<<a, t>>}]
  PROVE  Good(m)
<1> DEFINE k == <<a, t>>
<1>1. k \in Holdings
  BY DEF Holdings
<1>2. /\ m.balance = [l.balance EXCEPT ![k] = n]
      /\ m.free = [l.free EXCEPT ![k] = n]
      /\ m.freezed = l.freezed
  BY DEF Good, Ledgers
<1>3. m \in Ledgers
  BY <1>1 DEF Good, Ledgers
<1>4. WrapAdd(n, 0) = n
  BY BoundsAssumption DEF WrapAdd, Balances
<1>5. ASSUME NEW h \in Holdings
      PROVE  m.balance[h] = WrapAdd(m.free[h], m.freezed[h])
  <2>1. CASE h = k
    BY <1>1, <1>2, <1>4, <2>1 DEF Good, Ledgers
  <2>2. CASE h # k
    BY <1>2, <2>2 DEF Good, Ledgers, Split
  <2> QED
    BY <2>1, <2>2
<1> QED
  BY <1>3, <1>5 DEF Good, Split

-----------------------------------------------------------------------------
(* The inductive invariant.  SplitConsistent is not inductive by itself:   *)
(* do_issue writes the balance and its free part of a new token, whose     *)
(* frozen part has to be zero, and it is because do_freeze refuses a token *)
(* that does not exist.                                                    *)
NothingFrozenUnissued ==
  \A a \in Accounts, t \in TokenHashes \ DOMAIN tokens : ledger.freezed[<<a, t>>] = 0

IInv == TypeOK /\ SplitConsistent /\ FundsSpendable /\ NothingFrozenUnissued

(* What an account owns is listed, of a ledger value. *)
Listed(l) == \A h \in Holdings : l.balance[h] > 0 => h \in l.held

LEMMA LedgerInvariant == IInv => Good(ledger) /\ Listed(ledger)
BY DEF IInv, TypeOK, SplitConsistent, FundsSpendable, Good, Split, Listed

LEMMA InitHolds == Init => IInv
<1> SUFFICES ASSUME Init PROVE IInv
  OBVIOUS
<1>1. /\ ledger.balance = [h \in Holdings |-> 0]
      /\ ledger.free = [h \in Holdings |-> 0]
      /\ ledger.freezed = [h \in Holdings |-> 0]
  BY DEF Init, EmptyLedger
<1>2. 0 \in Balances /\ WrapAdd(0, 0) = 0
  BY BoundsAssumption DEF Balances, WrapAdd
<1>3. TypeOK
  <2>1. DOMAIN tokens = {} /\ DOMAIN owners = {}
    BY DEF Init, EmptyMap
  <2>2. tokenNonce \in 0 .. MaxTokens /\ 0 .. (tokenNonce - 1) = {}
    BY BoundsAssumption DEF Init
  <2>3. ledger \in Ledgers
    BY <1>2 DEF Init, EmptyLedger, Ledgers
  <2>4. ownedTokens \in [Accounts -> Seq(TokenHashes)]
    BY DEF Init
  <2> QED
    BY <2>1, <2>2, <2>3, <2>4 DEF TypeOK
<1>4. SplitConsistent /\ FundsSpendable
  BY <1>1, <1>2 DEF SplitConsistent, FundsSpendable
<1>5. NothingFrozenUnissued
  BY <1>1 DEF NothingFrozenUnissued, Holdings
<1> QED
  BY <1>3, <1>4, <1>5 DEF IInv

(* A step that writes the ledger alone keeps the invariant, if the ledger  *)
(* stays good and listed and freezes no token that was not issued.         *)
LEMMA LedgerStep ==
  ASSUME IInv, UNCHANGED <<tokens, owners, ownedTokens, tokenNonce>>,
         Good(ledger'), Listed(ledger'),
         \A a \in Accounts, t \in TokenHashes \ DOMAIN tokens : ledger'.freezed[<<a, t>>] = 0
  PROVE  IInv'
<1>1. TypeOK'
  BY DEF IInv, TypeOK, Good, Ledgers, Holdings, TokenHashes, Balances
<1>2. SplitConsistent' /\ FundsSpendable'
  BY DEF SplitConsistent, FundsSpendable, Good, Split, Listed, WrapAdd, Holdings, TokenHashes
<1>3. NothingFrozenUnissued'
  BY DEF NothingFrozenUnissued, TokenHashes
<1> QED
  BY <1>1, <1>2, <1>3 DEF IInv

LEMMA IssueStep ==
  ASSUME IInv, NEW a \in Accounts, NEW n \in Amounts, Issue(a, n)
  PROVE  IInv'
<1> DEFINE k == <<a, tokenNonce>>
<1>1. /\ tokenNonce \in TokenHashes
      /\ tokenNonce \notin DOMAIN tokens
      /\ k \in Holdings
      /\ n \in Balances
  BY BoundsAssumption DEF IInv, TypeOK, Issue, TokenHashes, Holdings, Balances
<1>2. Good(ledger) /\ Listed(ledger)
  BY LedgerInvariant
<1>3. ledger.freezed[k] = 0
  BY <1>1 DEF IInv, NothingFrozenUnissued
<1>4. ledger' = [ledger EXCEPT !.balance[k] = n, !.free[k] = n, !.held = @ \cup {k}]
  BY DEF Issue
<1>5. Good(ledger')
  BY <1>1, <1>2, <1>3, <1>4, IssueKeepsGood
<1>6. /\ ledger'.balance = [ledger.balance EXCEPT ![k] = n]
      /\ ledger'.freezed = ledger.freezed
      /\ ledger'.held = ledger.held \cup {k}
  BY <1>2, <1>4 DEF Good, Ledgers
<1>7. Listed(ledger')
  BY <1>2, <1>6 DEF Listed, Good, Ledgers
<1>8. /\ DOMAIN tokens' = DOMAIN tokens \cup {tokenNonce}
      /\ \A t \in DOMAIN tokens' : tokens'[t] \in Balances
      /\ DOMAIN owners' = DOMAIN owners \cup {tokenNonce}
      /\ \A t \in DOMAIN owners' : owners'[t] \in Accounts
  BY <1>1 DEF Issue, Put, IInv, TypeOK
<1>9. TypeOK'
  <2>1. /\ tokenNonce' \in 0 .. MaxTokens
        /\ DOMAIN tokens' = 0 .. (tokenNonce' - 1)
    BY <1>8, BoundsAssumption DEF Issue, IInv, TypeOK
  <2>2. DOMAIN owners' = DOMAIN tokens'
    BY <1>8 DEF IInv, TypeOK
  <2>3. ownedTokens' \in [Accounts -> Seq(TokenHashes)]
    BY <1>1 DEF Issue, IInv, TypeOK
  <2> QED
    BY <1>5, <1>8, <2>1, <2>2, <2>3 DEF TypeOK, Good, Ledgers, Holdings, TokenHashes, Balances
<1>10. SplitConsistent' /\ FundsSpendable'
  BY <1>5, <1>7 DEF SplitConsistent, FundsSpendable, Good, Split, Listed, WrapAdd, Holdings,
                    TokenHashes
<1>11. NothingFrozenUnissued'
  BY <1>6, <1>8 DEF NothingFrozenUnissued, IInv, TokenHashes
<1> QED
  BY <1>9, <1>10, <1>11 DEF IInv

(* What the steps of pallet_trade leave of a good and listed ledger l in   *)
(* which no token that was not issued is frozen.                           *)
Sound(l) ==
  /\ Good(l) /\ Listed(l)
  /\ \A a \in Accounts, t \in TokenHashes \ DOMAIN tokens : l.freezed[<<a, t>>] = 0

LEMMA FreezeKeepsSound ==
  ASSUME NEW l, Sound(l), NEW a \in Accounts, NEW t \in TokenHashes, NEW n \in Balances,
         CanFreeze(l, a, t, n)
  PROVE  Sound(DoFreeze(l, a, t, n))
<1>1. Good(DoFreeze(l, a, t, n))
  BY FreezeKeepsGood DEF Sound
<1>2. t \in DOMAIN tokens
  BY DEF CanFreeze, Holds
<1>3. /\ DoFreeze(l, a, t, n).balance = l.balance
      /\ DoFreeze(l, a, t, n).held = l.held
      /\ DoFreeze(l, a, t, n).freezed = [l.freezed EXCEPT ![<<a, t>>] = WrapAdd(@, n)]
  BY DEF DoFreeze, Sound, Good, Ledgers
<1> QED
  BY <1>1, <1>2, <1>3 DEF Sound, Listed, Good, Ledgers, Holdings

LEMMA UnfreezeKeepsSound ==
  ASSUME NEW l, Sound(l), NEW a \in Accounts, NEW t \in TokenHashes, NEW n \in Balances,
         CanUnfreeze(l, a, t, n)
  PROVE  Sound(DoUnfreeze(l, a, t, n))
<1>1. Good(DoUnfreeze(l, a, t, n))
  BY UnfreezeKeepsGood DEF Sound
<1>2. t \in DOMAIN tokens
  BY DEF CanUnfreeze, Holds
<1>3. /\ DoUnfreeze(l, a, t, n).balance = l.balance
      /\ DoUnfreeze(l, a, t, n).held = l.held
      /\ DoUnfreeze(l, a, t, n).freezed = [l.freezed EXCEPT ![<<a, t>>] = @ - n]
  BY DEF DoUnfreeze, Sound, Good, Ledgers
<1> QED
  BY <1>1, <1>2, <1>3 DEF Sound, Listed, Good, Ledgers, Holdings

LEMMA TransferKeepsSound ==
  ASSUME NEW l, Sound(l), NEW a \in Accounts, NEW b \in Accounts,
         NEW t \in TokenHashes, NEW n \in Balances, CanTransfer(l, a, b, t, n)
  PROVE  Sound(DoTransfer(l, a, b, t, n))
<1> DEFINE m == DoTransfer(l, a, b, t, n)
<1>1. Good(m)
  BY TransferKeepsGood DEF Sound
<1>2. /\ m.balance = Moved(l.balance, <<a, t>>, <<b, t>>, n)
      /\ m.freezed = l.freezed
      /\ m.held = l.held \cup {<<a, t>>, <<b, t>>}
  BY DEF DoTransfer, Sound, Good, Ledgers
<1>3. Listed(m)
  <2> SUFFICES ASSUME NEW h \in Holdings, m.balance[h] > 0
               PROVE  h \in m.held
    BY DEF Listed
  <2>1. CASE h \in {<<a, t>>, <<b, t>>}
    BY <1>2, <2>1
  <2>2. CASE h \notin {<<a, t>>, <<b, t>>}
    <3>1. m.balance[h] = l.balance[h]
      BY <1>2, <2>2 DEF Moved, Sound, Good, Ledgers
    <3> QED
      BY <1>2, <3>1 DEF Sound, Listed
  <2> QED
    BY <2>1, <2>2
<1> QED
  BY <1>1, <1>2, <1>3 DEF Sound

LEMMA StepKeepsInvariant == IInv /\ [Next]_tokenVars => IInv'
<1> SUFFICES ASSUME IInv, [Next]_tokenVars PROVE IInv'
  OBVIOUS
<1>1. Sound(ledger)
  BY LedgerInvariant DEF Sound, IInv, NothingFrozenUnissued
<1>2. Amounts \subseteq Balances
  BY BoundsAssumption DEF Balances
<1>3. ASSUME UNCHANGED <<tokens, owners, ownedTokens, tokenNonce>>, Sound(ledger')
      PROVE  IInv'
  BY <1>3, LedgerStep DEF Sound
<1>4. CASE \E a \in Accounts, n \in Amounts : Issue(a, n)
  BY <1>4, IssueStep
<1>5. CASE \E a \in Accounts, n \in Amounts, t \in TokenHashes : Freeze(a, t, n)
  <2>1. Sound(ledger')
    BY <1>1, <1>2, <1>5, FreezeKeepsSound DEF Freeze
  <2> QED
    BY <1>3, <1>5, <2>1 DEF Freeze
<1>6. CASE \E a \in Accounts, n \in Amounts, t \in TokenHashes : Unfreeze(a, t, n)
  <2>1. Sound(ledger')
    BY <1>1, <1>2, <1>6, UnfreezeKeepsSound DEF Unfreeze
  <2> QED
    BY <1>3, <1>6, <2>1 DEF Unfreeze
<1>7. CASE \E a, b \in Accounts, n \in Amounts, t \in TokenHashes : Transfer(a, b, t, n)
  <2>1. Sound(ledger')
    BY <1>1, <1>2, <1>7, TransferKeepsSound DEF Transfer
  <2> QED
    BY <1>3, <1>7, <2>1 DEF Transfer
<1>8. CASE \E a, b \in Accounts, n \in Amounts, t \in TokenHashes : Settle(a, b, t, n)
  <2>1. PICK a, b \in Accounts, n \in Amounts, t \in TokenHashes : Settle(a, b, t, n)
    BY <1>8
  <2>2. Sound(DoUnfreeze(ledger, a, t, n))
    BY <1>1, <1>2, <2>1, UnfreezeKeepsSound DEF Settle
  <2>3. Sound(ledger')
    BY <1>2, <2>1, <2>2, TransferKeepsSound DEF Settle
  <2> QED
    BY <1>3, <2>1, <2>3 DEF Settle
<1>9. CASE UNCHANGED tokenVars
  <2>1. Sound(ledger')
    BY <1>1, <1>9 DEF tokenVars
  <2> QED
    BY <1>3, <1>9, <2>1 DEF tokenVars
<1> QED
  BY <1>4, <1>5, <1>6, <1>7, <1>8, <1>9 DEF Next

-----------------------------------------------------------------------------
(* The invariant of pallet_tokens. *)
THEOREM InvariantHolds == Spec => []IInv
<1>1. Init => IInv
  BY InitHolds
<1>2. IInv /\ [Next]_tokenVars => IInv'
  BY StepKeepsInvariant
<1> QED
  BY <1>1, <1>2, PTL DEF Spec

(* The storage of pallet_tokens keeps its types: in particular no helper   *)
(* leaves a balance below zero or above its width.                         *)
THEOREM TypesHold == Spec => []TypeOK
<1>1. IInv => TypeOK
  BY DEF IInv
<1> QED
  BY <1>1, InvariantHolds, PTL

(* BalanceOf is the sum, modulo its width, of FreeBalanceOf and            *)
(* FreezedBalanceOf, whatever issue, transfer, do_freeze, do_unfreeze and  *)
(* the settlements of pallet_trade do, between any two accounts.           *)
THEOREM BalanceIsSplit == Spec => []SplitConsistent
<1>1. IInv => SplitConsistent
  BY DEF IInv
<1> QED
  BY <1>1, InvariantHolds, PTL

(* An account that owns some of a token has the key of FreeBalanceOf that  *)
(* do_transfer, do_freeze and do_unfreeze look for.                        *)
THEOREM OwnedIsSpendable == Spec => []FundsSpendable
<1>1. IInv => FundsSpendable
  BY DEF IInv
<1> QED
  BY <1>1, InvariantHolds, PTL

-----------------------------------------------------------------------------
(* The supply.  Where no account is settled with itself, no addition to a  *)
(* balance wraps: the accounts together own no more than the supply.       *)

OwnedIn(balance, token) == SumFunctionOnSet([a \in Accounts |-> balance[<<a, token>>]], Accounts)

Conserved(l) == \A t \in TokenHashes : OwnedIn(l.balance, t) = GetOr(tokens, t, 0)

LEMMA SupplyInLedger == SupplyConserved <=> Conserved(ledger)
  BY DEF SupplyConserved, Owned, Conserved, OwnedIn

(* No two accounts own more than all of them. *)
LEMMA OwnedCovers ==
  ASSUME NEW balance \in [Holdings -> Balances], NEW t \in TokenHashes,
         NEW a \in Accounts, NEW b \in Accounts
  PROVE  /\ OwnedIn(balance, t) \in Nat
         /\ balance[<<a, t>>] <= OwnedIn(balance, t)
         /\ a # b => balance[<<a, t>>] + balance[<<b, t>>] <= OwnedIn(balance, t)
<1> DEFINE f == [c \in Accounts |-> balance[<<c, t>>]]
<1>1. \A c \in Accounts : f[c] \in Nat
  BY BoundsAssumption DEF Holdings, Balances
<1>2. IsFiniteSet(Accounts)
  BY AccountsAssumption
<1>3. SumFunctionOnSet(f, Accounts) \in Nat
  <2> HIDE DEF f
  <2> QED BY <1>1, <1>2, SumType
<1>4. /\ f[a] <= SumFunctionOnSet(f, Accounts)
      /\ a # b => f[a] + f[b] <= SumFunctionOnSet(f, Accounts)
  <2> HIDE DEF f
  <2> QED BY <1>1, <1>2, SumCovers
<1> QED
  BY <1>3, <1>4 DEF OwnedIn

(* The sum over the accounts when one balance is written. *)
BalanceMaps == [Holdings -> Balances]
Write(balance, a, t, n) == [balance EXCEPT ![<<a, t>>] = n]

LEMMA OwnedAfterWrite ==
  ASSUME NEW balance \in BalanceMaps, NEW t \in TokenHashes,
         NEW a \in Accounts, NEW n \in Balances, NEW u \in TokenHashes
  PROVE  OwnedIn(Write(balance, a, t, n), u)
           = OwnedIn(balance, u) + (IF u = t THEN n - balance[<<a, t>>] ELSE 0)
<1> DEFINE f == [c \in Accounts |-> balance[<<c, u>>]]
           g == [c \in Accounts |-> Write(balance, a, t, n)[<<c, u>>]]
<1>1. IsFiniteSet(Accounts)
  BY AccountsAssumption
<1>2. \A c \in Accounts : f[c] \in Int /\ g[c] \in Int
  BY BoundsAssumption DEF Holdings, Balances, BalanceMaps, Write
<1>3. \A c \in Accounts \ {a} : f[c] = g[c]
  BY DEF Holdings, BalanceMaps, Write
<1>4. g[a] - f[a] = IF u = t THEN n - balance[<<a, t>>] ELSE 0
  BY BoundsAssumption DEF Holdings, Balances, BalanceMaps, Write
<1>5. SumFunctionOnSet(g, Accounts) = SumFunctionOnSet(f, Accounts) + (g[a] - f[a])
  <2> HIDE DEF f, g
  <2> QED BY <1>1, <1>2, <1>3, SumChangeOne
<1> QED
  BY <1>4, <1>5 DEF OwnedIn

(* do_transfer between two accounts moves an amount and makes none. *)
LEMMA MovedConserves ==
  ASSUME NEW balance \in BalanceMaps, NEW t \in TokenHashes,
         NEW a \in Accounts, NEW b \in Accounts, a # b,
         NEW n \in Balances, n <= balance[<<a, t>>],
         OwnedIn(balance, t) <= MaxBalance
  PROVE  /\ WrapAdd(balance[<<b, t>>], n) = balance[<<b, t>>] + n
         /\ \A u \in TokenHashes :
              OwnedIn(Moved(balance, <<a, t>>, <<b, t>>, n), u) = OwnedIn(balance, u)
<1>1. /\ <<a, t>> \in Holdings /\ <<b, t>> \in Holdings
      /\ balance[<<a, t>>] \in Nat /\ balance[<<b, t>>] \in Nat /\ n \in Nat
  BY BoundsAssumption DEF Holdings, Balances, BalanceMaps
<1>2. /\ balance[<<a, t>>] + balance[<<b, t>>] <= OwnedIn(balance, t)
      /\ \A u \in TokenHashes : OwnedIn(balance, u) \in Nat
  BY OwnedCovers DEF BalanceMaps
<1>3. balance[<<b, t>>] + n <= MaxBalance
  BY <1>1, <1>2, BoundsAssumption
<1>4. WrapAdd(balance[<<b, t>>], n) = balance[<<b, t>>] + n
  BY <1>3 DEF WrapAdd
<1>5. PICK x \in Balances, y \in Balances :
        x = balance[<<a, t>>] - n /\ y = balance[<<b, t>>] + n
  <2>1. balance[<<a, t>>] - n \in Balances /\ balance[<<b, t>>] + n \in Balances
    BY <1>1, <1>3, BoundsAssumption DEF Balances, BalanceMaps
  <2> QED BY <2>1
<1> DEFINE paid == Write(balance, a, t, x)
<1>6. Moved(balance, <<a, t>>, <<b, t>>, n) = Write(paid, b, t, y)
  BY <1>4, <1>5 DEF Moved, Write
<1>7. paid \in BalanceMaps /\ paid[<<b, t>>] = balance[<<b, t>>]
  BY <1>1 DEF Write, BalanceMaps
<1>8. ASSUME NEW u \in TokenHashes
      PROVE  OwnedIn(Write(paid, b, t, y), u) = OwnedIn(balance, u)
  <2>1. OwnedIn(paid, u)
          = OwnedIn(balance, u) + (IF u = t THEN x - balance[<<a, t>>] ELSE 0)
    BY OwnedAfterWrite
  <2> HIDE DEF paid
  <2>2. OwnedIn(Write(paid, b, t, y), u)
          = OwnedIn(paid, u) + (IF u = t THEN y - paid[<<b, t>>] ELSE 0)
    BY <1>7, OwnedAfterWrite
  <2> QED BY <1>1, <1>2, <1>5, <1>7, <2>1, <2>2
<1> QED
  BY <1>4, <1>6, <1>8

(* What no step of pallet_trade takes away from a ledger l, as long as no  *)
(* account is settled with itself.                                         *)
Supplied(l) == Sound(l) /\ Conserved(l)

LEMMA TransferKeepsSupplied ==
  ASSUME NEW l, Supplied(l), NEW a \in Accounts, NEW b \in Accounts, a # b,
         NEW t \in TokenHashes, NEW n \in Balances, CanTransfer(l, a, b, t, n),
         \A u \in DOMAIN tokens : tokens[u] \in Balances
  PROVE  /\ Supplied(DoTransfer(l, a, b, t, n))
         /\ WrapAdd(l.balance[<<b, t>>], n) = l.balance[<<b, t>>] + n
<1>1. /\ l.balance \in BalanceMaps /\ t \in DOMAIN tokens /\ n <= l.balance[<<a, t>>]
      /\ DoTransfer(l, a, b, t, n).balance = Moved(l.balance, <<a, t>>, <<b, t>>, n)
  BY BoundsAssumption DEF Supplied, Sound, Good, Ledgers, CanTransfer, Holds, Enough, DoTransfer,
     BalanceMaps, Holdings, Balances
<1>2. OwnedIn(l.balance, t) <= MaxBalance
  BY <1>1, BoundsAssumption DEF Supplied, Conserved, GetOr, Balances
<1>3. Sound(DoTransfer(l, a, b, t, n))
  BY TransferKeepsSound DEF Supplied
<1>4. /\ WrapAdd(l.balance[<<b, t>>], n) = l.balance[<<b, t>>] + n
      /\ \A u \in TokenHashes :
           OwnedIn(Moved(l.balance, <<a, t>>, <<b, t>>, n), u) = OwnedIn(l.balance, u)
  BY <1>1, <1>2, MovedConserves
<1> QED
  BY <1>1, <1>3, <1>4 DEF Supplied, Conserved

LEMMA FreezeKeepsSupplied ==
  ASSUME NEW l, Supplied(l), NEW a \in Accounts, NEW t \in TokenHashes, NEW n \in Balances,
         CanFreeze(l, a, t, n)
  PROVE  Supplied(DoFreeze(l, a, t, n))
<1>1. DoFreeze(l, a, t, n).balance = l.balance
  BY DEF DoFreeze, Supplied, Sound, Good, Ledgers
<1> QED
  BY <1>1, FreezeKeepsSound DEF Supplied, Conserved

LEMMA UnfreezeKeepsSupplied ==
  ASSUME NEW l, Supplied(l), NEW a \in Accounts, NEW t \in TokenHashes, NEW n \in Balances,
         CanUnfreeze(l, a, t, n)
  PROVE  Supplied(DoUnfreeze(l, a, t, n))
<1>1. DoUnfreeze(l, a, t, n).balance = l.balance
  BY DEF DoUnfreeze, Supplied, Sound, Good, Ledgers
<1> QED
  BY <1>1, UnfreezeKeepsSound DEF Supplied, Conserved

(* do_issue adds to what its caller owns of a token as much as it adds to  *)
(* the supply: nobody owned any of the token before.                       *)
LEMMA IssueKeepsSupply ==
  ASSUME IInv, SupplyConserved, NEW a \in Accounts, NEW n \in Amounts, Issue(a, n)
  PROVE  SupplyConserved'
<1> DEFINE t == tokenNonce
<1>1. t \in TokenHashes /\ t \notin DOMAIN tokens /\ n \in Balances
  BY BoundsAssumption DEF IInv, TypeOK, Issue, TokenHashes, Balances
<1>2. /\ ledger.balance \in BalanceMaps
      /\ ledger'.balance = Write(ledger.balance, a, t, n)
  BY DEF IInv, TypeOK, Ledgers, Issue, BalanceMaps, Write
<1>3. \A u \in TokenHashes : OwnedIn(ledger.balance, u) = GetOr(tokens, u, 0)
  BY DEF SupplyConserved, Owned, OwnedIn
<1>4. ledger.balance[<<a, t>>] = 0
  <2>1. OwnedIn(ledger.balance, t) = 0
    BY <1>1, <1>3 DEF GetOr
  <2>2. ledger.balance[<<a, t>>] <= OwnedIn(ledger.balance, t)
    BY <1>1, <1>2, OwnedCovers DEF BalanceMaps
  <2>3. ledger.balance[<<a, t>>] \in Nat
    BY <1>1, <1>2, BoundsAssumption DEF BalanceMaps, Balances, Holdings
  <2> QED BY <2>1, <2>2, <2>3
<1>5. ASSUME NEW u \in TokenHashes
      PROVE  OwnedIn(ledger'.balance, u) = GetOr(tokens', u, 0)
  <2>1. OwnedIn(ledger'.balance, u)
          = OwnedIn(ledger.balance, u) + (IF u = t THEN n - ledger.balance[<<a, t>>] ELSE 0)
    BY <1>1, <1>2, OwnedAfterWrite
  <2>2. tokens' = Put(tokens, t, n)
    BY DEF Issue
  <2>3. OwnedIn(ledger.balance, u) \in Nat
    BY <1>2, OwnedCovers DEF BalanceMaps
  <2>4. CASE u = t
    BY <1>1, <1>3, <1>4, <2>1, <2>2, <2>4, BoundsAssumption DEF Put, GetOr, Balances
  <2>5. CASE u # t
    BY <1>3, <2>1, <2>2, <2>3, <2>5 DEF Put, GetOr
  <2> QED BY <2>4, <2>5
<1> QED
  BY <1>5 DEF SupplyConserved, Owned, OwnedIn

LEMMA StepKeepsSupply ==
  ASSUME ~SelfSettle, IInv, SupplyConserved, [Next]_tokenVars
  PROVE  SupplyConserved'
<1>1. Supplied(ledger) /\ \A u \in DOMAIN tokens : tokens[u] \in Balances
  BY LedgerInvariant, SupplyInLedger DEF Supplied, Sound, IInv, NothingFrozenUnissued, TypeOK
<1>2. Amounts \subseteq Balances
  BY BoundsAssumption DEF Balances
<1>3. ASSUME UNCHANGED tokens, Supplied(ledger')
      PROVE  SupplyConserved'
  BY <1>3 DEF Supplied, Conserved, SupplyConserved, Owned, OwnedIn
<1>4. CASE \E a \in Accounts, n \in Amounts : Issue(a, n)
  BY <1>4, IssueKeepsSupply
<1>5. CASE \E a \in Accounts, n \in Amounts, t \in TokenHashes : Freeze(a, t, n)
  BY <1>1, <1>2, <1>3, <1>5, FreezeKeepsSupplied DEF Freeze
<1>6. CASE \E a \in Accounts, n \in Amounts, t \in TokenHashes : Unfreeze(a, t, n)
  BY <1>1, <1>2, <1>3, <1>6, UnfreezeKeepsSupplied DEF Unfreeze
<1>7. CASE \E a, b \in Accounts, n \in Amounts, t \in TokenHashes : Transfer(a, b, t, n)
  <2>1. PICK a, b \in Accounts, n \in Amounts, t \in TokenHashes : Transfer(a, b, t, n)
    BY <1>7
  <2>2. Supplied(ledger') /\ UNCHANGED tokens
    BY <1>1, <1>2, <2>1, TransferKeepsSupplied DEF Transfer
  <2> QED BY <1>3, <2>2
<1>8. CASE \E a, b \in Accounts, n \in Amounts, t \in TokenHashes : Settle(a, b, t, n)
  <2>1. PICK a, b \in Accounts, n \in Amounts, t \in TokenHashes : Settle(a, b, t, n)
    BY <1>8
  <2>2. a # b
    BY <2>1 DEF Settle
  <2>3. Supplied(DoUnfreeze(ledger, a, t, n))
    BY <1>1, <1>2, <2>1, UnfreezeKeepsSupplied DEF Settle
  <2>4. Supplied(ledger') /\ UNCHANGED tokens
    BY <1>1, <1>2, <2>1, <2>2, <2>3, TransferKeepsSupplied DEF Settle
  <2> QED BY <1>3, <2>4
<1>9. CASE UNCHANGED tokenVars
  BY <1>9 DEF tokenVars, SupplyConserved, Owned
<1> QED
  BY <1>4, <1>5, <1>6, <1>7, <1>8, <1>9 DEF Next

LEMMA NothingAtFirst == Init => SupplyConserved
<1> SUFFICES ASSUME Init, NEW t \in TokenHashes
             PROVE  OwnedIn(ledger.balance, t) = GetOr(tokens, t, 0)
  BY DEF SupplyConserved, Owned, OwnedIn
<1> DEFINE f == [a \in Accounts |-> ledger.balance[<<a, t>>]]
<1>1. \A a \in Accounts : f[a] = 0
  BY DEF Init, EmptyLedger, Holdings
<1>2. SumFunctionOnSet(f, Accounts) = 0
  <2> HIDE DEF f
  <2> QED BY <1>1, SumOfZeros, AccountsAssumption
<1> QED
  BY <1>2 DEF OwnedIn, Init, EmptyMap, GetOr

(* The accounts together own the supply of every token, whatever the       *)
(* helpers of pallet_tokens are called for, unless an order is settled with*)
(* its own owner.                                                          *)
THEOREM SupplyIsConserved ==
  ASSUME ~SelfSettle
  PROVE  Spec => []SupplyConserved
<1>1. Init => SupplyConserved
  BY NothingAtFirst
<1>2. IInv /\ SupplyConserved /\ [Next]_tokenVars => SupplyConserved'
  BY StepKeepsSupply
<1> QED
  BY <1>1, <1>2, InvariantHolds, PTL DEF Spec

-----------------------------------------------------------------------------
(* What leaves an account was free, in terms of the ledgers l before and m *)
(* after a step.                                                           *)
Paid(l, m) ==
  \A h \in Holdings :
    l.balance[h] - m.balance[h] <= l.free[h] + (l.freezed[h] - m.freezed[h])

LEMMA Amounts3 ==
  ASSUME NEW l, Good(l), NEW h \in Holdings
  PROVE  /\ l.balance[h] \in Nat /\ l.free[h] \in Nat /\ l.freezed[h] \in Nat
         /\ l.balance[h] <= MaxBalance /\ l.free[h] <= MaxBalance
         /\ l.freezed[h] <= MaxBalance
  BY BoundsAssumption DEF Good, Ledgers, Balances

LEMMA NothingIsPaid ==
  ASSUME NEW l, Good(l), NEW m, Good(m), m.balance = l.balance,
         \A h \in Holdings : m.freezed[h] <= l.freezed[h] + l.free[h]
  PROVE  Paid(l, m)
<1> SUFFICES ASSUME NEW h \in Holdings
             PROVE  l.balance[h] - m.balance[h] <= l.free[h] + (l.freezed[h] - m.freezed[h])
  BY DEF Paid
<1> QED BY Amounts3

LEMMA FreezePays ==
  ASSUME NEW l, Good(l), NEW a \in Accounts, NEW t \in TokenHashes, NEW n \in Balances,
         CanFreeze(l, a, t, n)
  PROVE  Paid(l, DoFreeze(l, a, t, n))
<1> DEFINE k == <<a, t>>
           m == DoFreeze(l, a, t, n)
<1>1. k \in Holdings /\ n \in Nat
  BY BoundsAssumption DEF Holdings, Balances
<1>2. n <= l.free[k]
  BY <1>1, BoundsAssumption DEF CanFreeze, Enough, Good, Ledgers, Balances
<1>3. Good(m)
  BY FreezeKeepsGood
<1>4. /\ m.balance = l.balance
      /\ m.freezed = [l.freezed EXCEPT ![k] = WrapAdd(@, n)]
  BY DEF DoFreeze, Good, Ledgers
<1>5. ASSUME NEW h \in Holdings PROVE m.freezed[h] <= l.freezed[h] + l.free[h]
  <2>1. l.freezed[h] \in Nat /\ l.free[h] \in Nat
    BY Amounts3
  <2>2. CASE h = k
    <3>1. m.freezed[h] = WrapAdd(l.freezed[h], n)
      BY <1>1, <1>4, <2>2 DEF Good, Ledgers
    <3> QED BY <1>1, <1>2, <2>1, <2>2, <3>1, BoundsAssumption DEF WrapAdd
  <2>3. CASE h # k
    <3>1. m.freezed[h] = l.freezed[h]
      BY <1>4, <2>3 DEF Good, Ledgers
    <3> QED BY <2>1, <3>1
  <2> QED BY <2>2, <2>3
<1>6. Paid(l, m)
  <2> HIDE DEF m
  <2> QED BY <1>3, <1>4, <1>5, NothingIsPaid
<1> QED BY <1>6

LEMMA UnfreezePays ==
  ASSUME NEW l, Good(l), NEW a \in Accounts, NEW t \in TokenHashes, NEW n \in Balances,
         CanUnfreeze(l, a, t, n)
  PROVE  Paid(l, DoUnfreeze(l, a, t, n))
<1> DEFINE k == <<a, t>>
           m == DoUnfreeze(l, a, t, n)
<1>1. k \in Holdings /\ Good(m) /\ n \in Nat
  BY UnfreezeKeepsGood, BoundsAssumption DEF Holdings, Balances
<1>2. /\ m.balance = l.balance
      /\ m.freezed = [l.freezed EXCEPT ![k] = @ - n]
  BY DEF DoUnfreeze, Good, Ledgers
<1>3. ASSUME NEW h \in Holdings PROVE m.freezed[h] <= l.freezed[h] + l.free[h]
  <2>1. l.freezed[h] \in Nat /\ l.free[h] \in Nat
    BY Amounts3
  <2>2. m.freezed[h] = IF h = k THEN l.freezed[h] - n ELSE l.freezed[h]
    BY <1>2 DEF Good, Ledgers
  <2> QED BY <1>1, <2>1, <2>2
<1>4. Paid(l, m)
  <2> HIDE DEF m
  <2> QED BY <1>1, <1>2, <1>3, NothingIsPaid
<1> QED BY <1>4

(* A transfer pays with the free part, and what it adds does not wrap.     *)
LEMMA TransferPays ==
  ASSUME NEW l, Supplied(l), NEW a \in Accounts, NEW b \in Accounts, a # b,
         NEW t \in TokenHashes, NEW n \in Balances, CanTransfer(l, a, b, t, n),
         \A u \in DOMAIN tokens : tokens[u] \in Balances
  PROVE  Paid(l, DoTransfer(l, a, b, t, n))
<1> DEFINE j == <<a, t>>
           k == <<b, t>>
           m == DoTransfer(l, a, b, t, n)
<1>1. /\ j \in Holdings /\ k \in Holdings /\ j # k
      /\ n <= l.balance[j] /\ n <= l.free[j] /\ n \in Nat
  BY BoundsAssumption DEF Holdings, CanTransfer, Enough, Supplied, Sound, Good, Ledgers, Balances
<1>2. l.balance \in [Holdings -> Balances]
  BY DEF Supplied, Sound, Good, Ledgers
<1>3. m.balance = Moved(l.balance, j, k, n) /\ m.freezed = l.freezed
  BY DEF DoTransfer, Supplied, Sound, Good, Ledgers
<1>4. WrapAdd(l.balance[k], n) = l.balance[k] + n
  BY TransferKeepsSupplied
<1>5. ASSUME NEW h \in Holdings
      PROVE  l.balance[h] - m.balance[h] <= l.free[h] + (l.freezed[h] - m.freezed[h])
  <2>1. l.balance[h] \in Nat /\ l.free[h] \in Nat /\ l.freezed[h] \in Nat
    BY Amounts3 DEF Supplied, Sound
  <2>2. Moved(l.balance, j, k, n)[h] = IF h = k THEN l.balance[h] + n
                                       ELSE IF h = j THEN l.balance[h] - n ELSE l.balance[h]
    BY <1>1, <1>2, <1>4 DEF Moved
  <2> QED BY <1>1, <1>3, <2>1, <2>2
<1> QED BY <1>5 DEF Paid

(* What is released before it is paid was frozen, and is paid at once.     *)
LEMMA SettlePays ==
  ASSUME NEW l, Good(l), NEW a \in Accounts, NEW t \in TokenHashes, NEW n \in Balances,
         CanUnfreeze(l, a, t, n),
         NEW m, Paid(DoUnfreeze(l, a, t, n), m), Good(m)
  PROVE  Paid(l, m)
<1> DEFINE k == <<a, t>>
           r == DoUnfreeze(l, a, t, n)
<1>1. k \in Holdings /\ Good(r) /\ n \in Nat
  BY UnfreezeKeepsGood, BoundsAssumption DEF Holdings, Balances
<1>2. /\ r.balance = l.balance
      /\ r.freezed = [l.freezed EXCEPT ![k] = @ - n]
      /\ r.free = [l.free EXCEPT ![k] = WrapAdd(@, n)]
  BY DEF DoUnfreeze, Good, Ledgers
<1>3. ASSUME NEW h \in Holdings
      PROVE  l.balance[h] - m.balance[h] <= l.free[h] + (l.freezed[h] - m.freezed[h])
  <2>1. /\ l.balance[h] \in Nat /\ l.free[h] \in Nat /\ l.freezed[h] \in Nat
        /\ m.balance[h] \in Nat /\ m.freezed[h] \in Nat
    BY Amounts3
  <2>2. r.balance[h] - m.balance[h] <= r.free[h] + (r.freezed[h] - m.freezed[h])
    BY DEF Paid
  <2>3. CASE h = k
    <3>1. r.balance[h] = l.balance[h] /\ r.freezed[h] = l.freezed[h] - n
          /\ r.free[h] = WrapAdd(l.free[h], n)
      BY <1>1, <1>2, <2>3 DEF Good, Ledgers
    <3>2. WrapAdd(l.free[h], n) <= l.free[h] + n /\ WrapAdd(l.free[h], n) \in Int
      BY <1>1, <2>1, BoundsAssumption DEF WrapAdd
    <3> HIDE DEF r
    <3> QED BY <1>1, <2>1, <2>2, <3>1, <3>2
  <2>4. CASE h # k
    <3>1. r.balance[h] = l.balance[h] /\ r.freezed[h] = l.freezed[h] /\ r.free[h] = l.free[h]
      BY <1>2, <2>4 DEF Good, Ledgers
    <3> QED BY <2>2, <3>1
  <2> QED BY <2>3, <2>4
<1> QED BY <1>3 DEF Paid

(* A token is new to its issuer: what it had of it was all free. *)
LEMMA IssuePays ==
  ASSUME IInv, NEW a \in Accounts, NEW n \in Amounts, Issue(a, n)
  PROVE  Paid(ledger, ledger')
<1> DEFINE k == <<a, tokenNonce>>
<1>1. k \in Holdings /\ n \in Nat /\ ledger.freezed[k] = 0 /\ Good(ledger)
  BY LedgerInvariant, BoundsAssumption
     DEF IInv, TypeOK, Issue, TokenHashes, Holdings, NothingFrozenUnissued
<1>2. ledger'.balance = [ledger.balance EXCEPT ![k] = n] /\ ledger'.freezed = ledger.freezed
  BY DEF Issue, IInv, TypeOK, Ledgers
<1>3. ASSUME NEW h \in Holdings
      PROVE  ledger.balance[h] - ledger'.balance[h]
               <= ledger.free[h] + (ledger.freezed[h] - ledger'.freezed[h])
  <2>1. ledger.balance[h] \in Nat /\ ledger.free[h] \in Nat /\ ledger.freezed[h] \in Nat
        /\ ledger.free[h] <= MaxBalance
    BY <1>1, Amounts3
  <2>2. ledger'.balance[h] = IF h = k THEN n ELSE ledger.balance[h]
    BY <1>1, <1>2 DEF Good, Ledgers
  <2>3. h = k => ledger.balance[h] = ledger.free[h]
    BY <1>1, <2>1, BoundsAssumption DEF Good, Split, WrapAdd
  <2> QED BY <1>1, <1>2, <2>1, <2>2, <2>3
<1> QED BY <1>3 DEF Paid

LEMMA StepPays ==
  ASSUME ~SelfSettle, IInv, SupplyConserved, Next
  PROVE  Paid(ledger, ledger')
<1>1. Supplied(ledger) /\ \A u \in DOMAIN tokens : tokens[u] \in Balances
  BY LedgerInvariant, SupplyInLedger DEF Supplied, Sound, IInv, NothingFrozenUnissued, TypeOK
<1>2. Amounts \subseteq Balances /\ Good(ledger)
  BY <1>1, BoundsAssumption DEF Balances, Supplied, Sound
<1>3. CASE \E a \in Accounts, n \in Amounts : Issue(a, n)
  BY <1>3, IssuePays
<1>4. CASE \E a \in Accounts, n \in Amounts, t \in TokenHashes : Freeze(a, t, n)
  BY <1>2, <1>4, FreezePays DEF Freeze
<1>5. CASE \E a \in Accounts, n \in Amounts, t \in TokenHashes : Unfreeze(a, t, n)
  BY <1>2, <1>5, UnfreezePays DEF Unfreeze
<1>6. CASE \E a, b \in Accounts, n \in Amounts, t \in TokenHashes : Transfer(a, b, t, n)
  <2>1. PICK a, b \in Accounts, n \in Amounts, t \in TokenHashes : Transfer(a, b, t, n)
    BY <1>6
  <2> QED BY <1>1, <1>2, <2>1, TransferPays DEF Transfer
<1>7. CASE \E a, b \in Accounts, n \in Amounts, t \in TokenHashes : Settle(a, b, t, n)
  <2>1. PICK a, b \in Accounts, n \in Amounts, t \in TokenHashes : Settle(a, b, t, n)
    BY <1>7
  <2>2. n \in Balances /\ a # b
    BY <1>2, <2>1 DEF Settle
  <2>3. Supplied(DoUnfreeze(ledger, a, t, n))
    BY <1>1, <2>1, <2>2, UnfreezeKeepsSupplied DEF Settle
  <2>4. Paid(DoUnfreeze(ledger, a, t, n), ledger')
    BY <1>1, <2>1, <2>2, <2>3, TransferPays DEF Settle
  <2>5. Good(ledger')
    BY <1>1, <2>1, <2>2, <2>3, TransferKeepsSupplied DEF Settle, Supplied, Sound
  <2> QED BY <1>2, <2>1, <2>2, <2>4, <2>5, SettlePays DEF Settle
<1> QED
  BY <1>3, <1>4, <1>5, <1>6, <1>7 DEF Next

(* do_transfer never pays with tokens that are frozen for an order: what   *)
(* leaves an account in a step was free before, or was released in it.     *)
THEOREM PaymentsAreFree ==
  ASSUME ~SelfSettle
  PROVE  Spec => PaidFromFree
<1>1. IInv /\ SupplyConserved /\ [Next]_tokenVars
        => [\A h \in Holdings :
              ledger.balance[h] - ledger'.balance[h]
                <= ledger.free[h] + (ledger.freezed[h] - ledger'.freezed[h])]_tokenVars
  BY StepPays DEF Paid
<1>2. Spec => []SupplyConserved
  BY SupplyIsConserved
<1> QED
  BY <1>1, <1>2, InvariantHolds, PTL DEF Spec, PaidFromFree

-----------------------------------------------------------------------------
(* Where nothing wraps, a balance is the very sum of its two parts. *)
Exact(l) == \A h \in Holdings : l.balance[h] = l.free[h] + l.freezed[h]

(* A ledger of which nothing has wrapped. *)
Whole(l) == Supplied(l) /\ Exact(l)

LEMMA WholeAmounts ==
  ASSUME NEW l, Whole(l), NEW a \in Accounts, NEW t \in TokenHashes
  PROVE  /\ <<a, t>> \in Holdings
         /\ l.free[<<a, t>>] \in Nat /\ l.freezed[<<a, t>>] \in Nat
         /\ l.balance[<<a, t>>] = l.free[<<a, t>>] + l.freezed[<<a, t>>]
         /\ l.balance[<<a, t>>] <= MaxBalance
<1>1. <<a, t>> \in Holdings
  BY DEF Holdings
<1> QED BY <1>1, Amounts3 DEF Whole, Exact, Supplied, Sound

LEMMA FreezeKeepsWhole ==
  ASSUME NEW l, Whole(l), NEW a \in Accounts, NEW t \in TokenHashes, NEW n \in Balances,
         CanFreeze(l, a, t, n)
  PROVE  /\ Whole(DoFreeze(l, a, t, n))
         /\ WrapAdd(l.freezed[<<a, t>>], n) = l.freezed[<<a, t>>] + n
<1> DEFINE k == <<a, t>>
           m == DoFreeze(l, a, t, n)
<1>1. /\ k \in Holdings /\ l.free[k] \in Nat /\ l.freezed[k] \in Nat
      /\ l.balance[k] = l.free[k] + l.freezed[k] /\ l.balance[k] <= MaxBalance
  BY WholeAmounts
<1>2. n \in Nat /\ n <= l.free[k]
  BY <1>1, BoundsAssumption DEF CanFreeze, Enough, Balances
<1>3. WrapAdd(l.freezed[k], n) = l.freezed[k] + n
  BY <1>1, <1>2, BoundsAssumption DEF WrapAdd
<1>4. /\ m.balance = l.balance
      /\ m.free = [l.free EXCEPT ![k] = @ - n]
      /\ m.freezed = [l.freezed EXCEPT ![k] = WrapAdd(@, n)]
      /\ l.free \in [Holdings -> Balances] /\ l.freezed \in [Holdings -> Balances]
  BY DEF DoFreeze, Whole, Supplied, Sound, Good, Ledgers
<1>5. Supplied(m)
  BY FreezeKeepsSupplied DEF Whole
<1> HIDE DEF m, k
<1>6. ASSUME NEW h \in Holdings PROVE m.balance[h] = m.free[h] + m.freezed[h]
  <2>1. l.balance[h] = l.free[h] + l.freezed[h]
    BY DEF Whole, Exact
  <2>2. CASE h = k
    <3>1. m.free[h] = l.free[k] - n /\ m.freezed[h] = l.freezed[k] + n
      BY <1>1, <1>3, <1>4, <2>2
    <3> QED BY <1>1, <1>2, <1>4, <2>2, <3>1
  <2>3. CASE h # k
    BY <1>4, <2>1, <2>3
  <2> QED BY <2>2, <2>3
<1> QED BY <1>3, <1>5, <1>6 DEF Whole, Exact, m, k

LEMMA UnfreezeKeepsWhole ==
  ASSUME NEW l, Whole(l), NEW a \in Accounts, NEW t \in TokenHashes, NEW n \in Balances,
         CanUnfreeze(l, a, t, n)
  PROVE  Whole(DoUnfreeze(l, a, t, n))
<1> DEFINE k == <<a, t>>
           m == DoUnfreeze(l, a, t, n)
<1>1. /\ k \in Holdings /\ l.free[k] \in Nat /\ l.freezed[k] \in Nat
      /\ l.balance[k] = l.free[k] + l.freezed[k] /\ l.balance[k] <= MaxBalance
  BY WholeAmounts
<1>2. n \in Nat /\ n <= l.freezed[k]
  BY <1>1, BoundsAssumption DEF CanUnfreeze, Enough, Balances
<1>3. WrapAdd(l.free[k], n) = l.free[k] + n
  BY <1>1, <1>2, BoundsAssumption DEF WrapAdd
<1>4. /\ m.balance = l.balance
      /\ m.free = [l.free EXCEPT ![k] = WrapAdd(@, n)]
      /\ m.freezed = [l.freezed EXCEPT ![k] = @ - n]
      /\ l.free \in [Holdings -> Balances] /\ l.freezed \in [Holdings -> Balances]
  BY DEF DoUnfreeze, Whole, Supplied, Sound, Good, Ledgers
<1>5. Supplied(m)
  BY UnfreezeKeepsSupplied DEF Whole
<1> HIDE DEF m, k
<1>6. ASSUME NEW h \in Holdings PROVE m.balance[h] = m.free[h] + m.freezed[h]
  <2>1. l.balance[h] = l.free[h] + l.freezed[h]
    BY DEF Whole, Exact
  <2>2. CASE h = k
    <3>1. m.free[h] = l.free[k] + n /\ m.freezed[h] = l.freezed[k] - n
      BY <1>1, <1>3, <1>4, <2>2
    <3> QED BY <1>1, <1>2, <1>4, <2>2, <3>1
  <2>3. CASE h # k
    BY <1>4, <2>1, <2>3
  <2> QED BY <2>2, <2>3
<1> QED BY <1>5, <1>6 DEF Whole, Exact, m

LEMMA TransferKeepsWhole ==
  ASSUME NEW l, Whole(l), NEW a \in Accounts, NEW b \in Accounts, a # b,
         NEW t \in TokenHashes, NEW n \in Balances, CanTransfer(l, a, b, t, n),
         \A u \in DOMAIN tokens : tokens[u] \in Balances
  PROVE  Whole(DoTransfer(l, a, b, t, n))
<1> DEFINE j == <<a, t>>
           k == <<b, t>>
           m == DoTransfer(l, a, b, t, n)
<1>1. /\ j \in Holdings /\ k \in Holdings /\ j # k
      /\ l.free[j] \in Nat /\ l.freezed[j] \in Nat
      /\ l.balance[j] = l.free[j] + l.freezed[j] /\ l.balance[j] <= MaxBalance
      /\ l.free[k] \in Nat /\ l.freezed[k] \in Nat
      /\ l.balance[k] = l.free[k] + l.freezed[k] /\ l.balance[k] <= MaxBalance
  BY WholeAmounts
<1>2. n \in Nat /\ n <= l.free[j]
  BY <1>1, BoundsAssumption DEF CanTransfer, Enough, Balances
<1>3. Supplied(m) /\ WrapAdd(l.balance[k], n) = l.balance[k] + n
  BY TransferKeepsSupplied DEF Whole
<1>4. WrapAdd(l.free[k], n) = l.free[k] + n
  BY <1>1, <1>2, <1>3, BoundsAssumption DEF WrapAdd
<1>5. /\ m.balance = Moved(l.balance, j, k, n)
      /\ m.free = Moved(l.free, j, k, n)
      /\ m.freezed = l.freezed
      /\ l.balance \in [Holdings -> Balances] /\ l.free \in [Holdings -> Balances]
  BY DEF DoTransfer, Whole, Supplied, Sound, Good, Ledgers
<1> HIDE DEF m, j, k
<1>6. ASSUME NEW h \in Holdings PROVE m.balance[h] = m.free[h] + m.freezed[h]
  <2>1. l.balance[h] = l.free[h] + l.freezed[h]
    BY DEF Whole, Exact
  <2>2. CASE h = k
    <3>1. m.balance[h] = l.balance[k] + n /\ m.free[h] = l.free[k] + n
      BY <1>1, <1>3, <1>4, <1>5, <2>2 DEF Moved
    <3> QED BY <1>1, <1>2, <1>5, <2>2, <3>1
  <2>3. CASE h = j
    <3>1. m.balance[h] = l.balance[j] - n /\ m.free[h] = l.free[j] - n
      BY <1>1, <1>5, <2>3 DEF Moved
    <3> QED BY <1>1, <1>2, <1>5, <2>3, <3>1
  <2>4. CASE h # j /\ h # k
    BY <1>5, <2>1, <2>4 DEF Moved
  <2> QED BY <2>2, <2>3, <2>4
<1> QED BY <1>3, <1>6 DEF Whole, Exact, m

(* Of a token that was not issued nobody owns any, nor has any frozen. *)
LEMMA IssueKeepsExact ==
  ASSUME IInv, Exact(ledger), NEW a \in Accounts, NEW n \in Amounts, Issue(a, n)
  PROVE  Exact(ledger')
<1> DEFINE k == <<a, tokenNonce>>
<1>1. k \in Holdings /\ n \in Nat /\ ledger.freezed[k] = 0 /\ ledger \in Ledgers
  <2>1. /\ tokenNonce \in 0 .. MaxTokens /\ DOMAIN tokens = 0 .. (tokenNonce - 1)
        /\ ledger \in Ledgers /\ tokenNonce < MaxTokens /\ MaxTokens \in Nat
    BY BoundsAssumption DEF IInv, TypeOK, Issue
  <2>2. tokenNonce \in TokenHashes \ DOMAIN tokens
    BY ONLY <2>1 DEF TokenHashes
  <2>3. n \in Nat
    BY BoundsAssumption
  <2> QED BY <2>1, <2>2, <2>3 DEF IInv, Holdings, NothingFrozenUnissued
<1>2. /\ ledger'.balance = [ledger.balance EXCEPT ![k] = n]
      /\ ledger'.free = [ledger.free EXCEPT ![k] = n]
      /\ ledger'.freezed = ledger.freezed
  BY <1>1 DEF Issue, Ledgers
<1>3. ASSUME NEW h \in Holdings PROVE ledger'.balance[h] = ledger'.free[h] + ledger'.freezed[h]
  <2>1. CASE h = k
    <3>1. k \in DOMAIN ledger.balance /\ k \in DOMAIN ledger.free
      BY <1>1 DEF Ledgers
    <3>2. ledger'.balance[k] = n /\ ledger'.free[k] = n /\ ledger'.freezed[k] = 0
      BY ONLY <1>1, <1>2, <3>1
    <3> QED BY <1>1, <2>1, <3>2
  <2>2. CASE h # k
    BY <1>1, <1>2, <2>2 DEF Ledgers, Exact
  <2> QED BY <2>1, <2>2
<1> QED BY <1>3 DEF Exact
==========================================================================
