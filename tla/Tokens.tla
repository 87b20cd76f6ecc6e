----------------------------- MODULE Tokens -----------------------------
(***************************************************************************)
(* pallet_tokens (pallets/tokens/src/lib.rs): tokens are issued by an      *)
(* account, moved between accounts, and frozen and released by pallet_trade*)
(* while an order is open.                                                 *)
(*                                                                         *)
(* The helpers do_transfer, do_freeze and do_unfreeze are operators on a   *)
(* ledger value, since pallet_trade makes several of these calls inside    *)
(* one extrinsic: CanX is the conjunction of the checks of do_x (a check   *)
(* that fails is an Err, and the extrinsic is rolled back), X the ledger   *)
(* that it writes.                                                         *)
(***************************************************************************)
EXTENDS StorageMaps, FiniteSets, Functions

CONSTANTS
  Accounts,      \* T::AccountId
  MaxTokens,     \* bound: how many tokens are ever issued
  MaxBalance,    \* <Balance<T>>::max_value()
  Amounts,       \* the amounts the callers use
  SelfSettle     \* whether pallet_trade settles an order against its owner

ASSUME AccountsAssumption == Accounts # {} /\ IsFiniteSet(Accounts)
ASSUME BoundsAssumption ==
  /\ MaxTokens \in Nat
  /\ MaxBalance \in Nat
  /\ Amounts \subseteq 0 .. MaxBalance
  /\ SelfSettle \in BOOLEAN

VARIABLES
  tokens,        \* Tokens: token hash -> total supply
  owners,        \* Owners: token hash -> issuer
  ledger,        \* BalanceOf, FreeBalanceOf, FreezedBalanceOf
  ownedTokens,   \* OwnedTokensIndex with OwnedTokensTotal
  tokenNonce     \* Nonce

tokenVars == <<tokens, owners, ledger, ownedTokens, tokenNonce>>

(* A token hash is a hash of the nonce among others, and the nonce grows   *)
(* with each token: the nonce stands for the hash.                         *)
TokenHashes == 0 .. (MaxTokens - 1)
Holdings == Accounts \X TokenHashes
Balances == 0 .. MaxBalance

(* A ledger maps an account and a token to the three balances; held is the *)
(* set of keys of FreeBalanceOf.                                           *)
Ledgers ==
  [balance : [Holdings -> Balances],
   free    : [Holdings -> Balances],
   freezed : [Holdings -> Balances],
   held    : SUBSET Holdings]

(* u128 addition in a release build: it wraps. *)
WrapAdd(x, y) ==
  IF x + y <= MaxBalance THEN x + y ELSE x + y - (MaxBalance + 1)

-----------------------------------------------------------------------------
(* The checked helpers, on one balance. *)

Enough(balance, amount) == balance >= amount

(* The sum wraps before it is compared, so the comparison never fails. *)
NoOverflow(balance, amount) == WrapAdd(balance, amount) <= MaxBalance

(* Both checks of every helper: the token exists, the key was written. *)
Holds(l, account, token) ==
  /\ token \in DOMAIN tokens
  /\ <<account, token>> \in l.held

(* Mutant: do_transfer looks at the balance alone, not at its free part. *)
CanTransferOfBalance(l, from, to, token, amount) ==
  /\ Holds(l, from, token)
  /\ Enough(l.balance[<<from, token>>], amount)

CanTransfer(l, from, to, token, amount) ==
  /\ Holds(l, from, token)
  /\ Enough(l.balance[<<from, token>>], amount)
  /\ Enough(l.free[<<from, token>>], amount)
  /\ NoOverflow(l.balance[<<to, token>>], amount)
  /\ NoOverflow(l.free[<<to, token>>], amount)

(* Both new balances of a part are computed before the first one is        *)
(* written, and that of the sender is written first.                       *)
Moved(part, payer, payee, amount) ==
  [part EXCEPT ![payer] = part[payer] - amount,
               ![payee] = WrapAdd(part[payee], amount)]

(* Mutants: the free part of the receiver is not written; the key of the   *)
(* receiver is not; the sender keeps what it pays.                         *)
DoTransferBalanceOnly(l, from, to, token, amount) ==
  [l EXCEPT
     !.balance = Moved(@, <<from, token>>, <<to, token>>, amount),
     !.free[<<from, token>>] = @ - amount,
     !.held    = @ \cup {<<from, token>>, <<to, token>>}]

DoTransferKeepsSender(l, from, to, token, amount) ==
  [l EXCEPT
     !.balance[<<to, token>>] = WrapAdd(@, amount),
     !.free[<<to, token>>]    = WrapAdd(@, amount),
     !.held = @ \cup {<<from, token>>, <<to, token>>}]

DoTransferUnlisted(l, from, to, token, amount) ==
  [l EXCEPT
     !.balance = Moved(@, <<from, token>>, <<to, token>>, amount),
     !.free    = Moved(@, <<from, token>>, <<to, token>>, amount)]

DoTransfer(l, from, to, token, amount) ==
  [l EXCEPT
     !.balance = Moved(@, <<from, token>>, <<to, token>>, amount),
     !.free    = Moved(@, <<from, token>>, <<to, token>>, amount),
     !.held    = @ \cup {<<from, token>>, <<to, token>>}]

(* Mutant: do_freeze looks at the balance, frozen or not. *)
CanFreezeOfBalance(l, owner, token, amount) ==
  /\ Holds(l, owner, token)
  /\ Enough(l.balance[<<owner, token>>], amount)
  /\ NoOverflow(l.freezed[<<owner, token>>], amount)

CanFreeze(l, owner, token, amount) ==
  /\ Holds(l, owner, token)
  /\ Enough(l.free[<<owner, token>>], amount)
  /\ NoOverflow(l.freezed[<<owner, token>>], amount)

DoFreeze(l, owner, token, amount) ==
  [l EXCEPT
     !.free[<<owner, token>>]    = @ - amount,
     !.freezed[<<owner, token>>] = WrapAdd(@, amount)]

CanUnfreeze(l, owner, token, amount) ==
  /\ Holds(l, owner, token)
  /\ NoOverflow(l.free[<<owner, token>>], amount)
  /\ Enough(l.freezed[<<owner, token>>], amount)

DoUnfreeze(l, owner, token, amount) ==
  [l EXCEPT
     !.free[<<owner, token>>]    = WrapAdd(@, amount),
     !.freezed[<<owner, token>>] = @ - amount]

-----------------------------------------------------------------------------
EmptyLedger ==
  [balance |-> [h \in Holdings |-> 0],
   free    |-> [h \in Holdings |-> 0],
   freezed |-> [h \in Holdings |-> 0],
   held    |-> {}]

Init ==
  /\ tokens = EmptyMap
  /\ owners = EmptyMap
  /\ ledger = EmptyLedger
  /\ ownedTokens = [a \in Accounts |-> <<>>]
  /\ tokenNonce = 0

(* The issue extrinsic. *)
Issue(sender, supply) ==
  /\ tokenNonce < MaxTokens
  /\ tokens' = Put(tokens, tokenNonce, supply)
  /\ owners' = Put(owners, tokenNonce, sender)
  /\ ledger' = [ledger EXCEPT
                  !.balance[<<sender, tokenNonce>>] = supply,
                  !.free[<<sender, tokenNonce>>] = supply,
                  !.held = @ \cup {<<sender, tokenNonce>>}]
  /\ ownedTokens' = [ownedTokens EXCEPT ![sender] = Append(@, tokenNonce)]
  /\ tokenNonce' = tokenNonce + 1

(* The transfer extrinsic. *)
Transfer(from, to, token, amount) ==
  /\ from # to
  /\ CanTransfer(ledger, from, to, token, amount)
  /\ ledger' = DoTransfer(ledger, from, to, token, amount)
  /\ UNCHANGED <<tokens, owners, ownedTokens, tokenNonce>>

(* The calls of pallet_trade: an order is opened, it is closed, or a part  *)
(* of it is released and paid to the other side of the trade.              *)
Freeze(owner, token, amount) ==
  /\ CanFreeze(ledger, owner, token, amount)
  /\ ledger' = DoFreeze(ledger, owner, token, amount)
  /\ UNCHANGED <<tokens, owners, ownedTokens, tokenNonce>>

Unfreeze(owner, token, amount) ==
  /\ CanUnfreeze(ledger, owner, token, amount)
  /\ ledger' = DoUnfreeze(ledger, owner, token, amount)
  /\ UNCHANGED <<tokens, owners, ownedTokens, tokenNonce>>

Settle(from, to, token, amount) ==
  LET released == DoUnfreeze(ledger, from, token, amount) IN
  /\ from = to => SelfSettle
  /\ CanUnfreeze(ledger, from, token, amount)
  /\ CanTransfer(released, from, to, token, amount)
  /\ ledger' = DoTransfer(released, from, to, token, amount)
  /\ UNCHANGED <<tokens, owners, ownedTokens, tokenNonce>>

Next ==
  \E a \in Accounts, n \in Amounts :
    \/ Issue(a, n)
    \/ \E t \in TokenHashes :
         \/ Freeze(a, t, n)
         \/ Unfreeze(a, t, n)
         \/ \E b \in Accounts :
              \/ Transfer(a, b, t, n)
              \/ Settle(a, b, t, n)

Spec == Init /\ [][Next]_tokenVars

-----------------------------------------------------------------------------
(* Properties *)

TypeOK ==
  /\ tokenNonce \in 0 .. MaxTokens
  /\ DOMAIN tokens = 0 .. (tokenNonce - 1)
  /\ \A t \in DOMAIN tokens : tokens[t] \in Balances
  /\ DOMAIN owners = DOMAIN tokens
  /\ \A t \in DOMAIN owners : owners[t] \in Accounts
  /\ ledger \in Ledgers
  /\ ownedTokens \in [Accounts -> Seq(TokenHashes)]

(* BalanceOf, FreeBalanceOf and FreezedBalanceOf are written separately by *)
(* update_balance, by four helpers; the balance of an account must remain  *)
(* the sum of its two parts, modulo the width of a balance.                *)
SplitConsistent ==
  \A h \in Holdings :
    ledger.balance[h] = WrapAdd(ledger.free[h], ledger.freezed[h])

(* do_transfer, do_freeze, do_unfreeze and the settlement of a trade move  *)
(* tokens and make none: the accounts together own the supply do_issue     *)
(* recorded.                                                               *)
Owned(token) == SumFunctionOnSet([a \in Accounts |-> ledger.balance[<<a, token>>]], Accounts)
SupplyConserved == \A t \in TokenHashes : Owned(t) = GetOr(tokens, t, 0)

(* Every helper first looks for the key of FreeBalanceOf; tokens an account*)
(* owns without it could never be moved again.                             *)
FundsSpendable ==
  \A h \in Holdings : ledger.balance[h] > 0 => h \in ledger.held

(* What leaves an account was free before the step, or was released by it: *)
(* do_transfer never pays with tokens that are frozen for an order.        *)
PaidFromFree ==
  [][\A h \in Holdings :
       ledger.balance[h] - ledger'.balance[h]
         <= ledger.free[h] + (ledger.freezed[h] - ledger'.freezed[h])]_tokenVars
=========================================================================
