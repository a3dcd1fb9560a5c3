-------------------------------- MODULE Vault --------------------------------
(***************************************************************************)
(* A single asset vault (XLS-65) holding an MPT: VaultCreate, VaultSet,    *)
(* VaultDelete, VaultDeposit, VaultWithdraw and VaultClawback, with the    *)
(* share conversions of View.cpp and the vault clauses of the transaction  *)
(* invariant checker, which undoes a transaction that fails them.          *)
(*                                                                         *)
(* An action is a transaction that succeeds; one that returns a tec or tef *)
(* code leaves everything modelled here as it was.  Freezes, authorization *)
(* and XRP reserves can only refuse a transaction and are left out, so the *)
(* model allows more than the code.  The MPT's issuer is outside the model.*)
(***************************************************************************)
EXTENDS LendingHelpers

CONSTANTS Accounts,       \* accounts of lenders, borrowers and the vault owner
          Owners,         \* accounts that may create the vault and its brokers
          Lenders,        \* accounts that may deposit
          Destinations,   \* accounts that others may send a withdrawal to
          VaultAccount,   \* the vault's pseudo-account
          Brokers,        \* loan brokers, named by their pseudo-accounts
          None,           \* an object that is not in the ledger
          Funds,          \* what each account starts with
          AssetAmounts,   \* amounts of the asset in vault transactions
          ShareAmounts,   \* amounts of shares in withdrawals
          ClawAmounts,    \* amounts in the issuer's clawbacks; 0 is everything
          AssetMaximums   \* values of sfAssetsMaximum; 0 is no limit

VARIABLES
    vault,       \* the vault object with its share issuance, or None
    shares,      \* vault shares of each account
    holders,     \* accounts that have an MPToken for the shares
    balance,     \* the asset held by each account and pseudo-account
    ownerCount   \* sfOwnerCount, counting only what is modelled

vaultVars == <<vault, shares, holders, balance, ownerCount>>

Holdings == Accounts \cup Brokers \cup {VaultAccount}

VaultInit ==
    /\ vault = None
    /\ shares = [a \in Accounts |-> 0]
    /\ holders = {}
    /\ balance = [h \in Holdings |-> IF h \in Accounts THEN Funds[h] ELSE 0]
    /\ ownerCount = [a \in Accounts |-> 0]

-----------------------------------------------------------------------------
(* View.cpp: shares for assets and assets for shares.  Deposits go by the  *)
(* total; withdrawals by what is left of it after the unrealized loss.     *)

Proportion(whole, part, of) ==
    Mul(Nearest, Num(whole), Div(Nearest, Num(part), Num(of)))

assetsToSharesDeposit(v, assets) ==
    IF v.assetsTotal = 0 THEN assets
    ELSE ToInt(Nearest, Truncate(Proportion(v.sharesTotal, assets, v.assetsTotal)))

(* Mutant: the price of new shares is truncated. *)
sharesToAssetsTruncated(v, s) ==
    IF v.assetsTotal = 0 THEN s
    ELSE roundToAsset(Proportion(v.assetsTotal, s, v.sharesTotal), "downward")

sharesToAssetsDeposit(v, s) ==
    IF v.assetsTotal = 0 THEN s
    ELSE roundToAsset(Proportion(v.assetsTotal, s, v.sharesTotal), Nearest)

AssetsLeft(v) == v.assetsTotal - v.lossUnrealized

WholeShares(s, truncate) == roundToAsset(IF truncate THEN Truncate(s) ELSE s, Nearest)

assetsToSharesWithdraw(v, assets, truncate) ==
    IF AssetsLeft(v) = 0 THEN 0
    ELSE WholeShares(Proportion(v.sharesTotal, assets, AssetsLeft(v)), truncate)

sharesToAssetsWithdraw(v, s) ==
    IF AssetsLeft(v) = 0 THEN 0
    ELSE roundToAsset(Proportion(AssetsLeft(v), s, v.sharesTotal), Nearest)

-----------------------------------------------------------------------------
(* accountSend, without a transfer fee. *)
Send(bal, from, to, amount) ==
    [bal EXCEPT ![from] = @ - amount, ![to] = @ + amount]

(* ValidVault of InvariantCheck.cpp: the clauses on the updated vault that *)
(* hold for every type of transaction.                                     *)
ValidVault(v) ==
    /\ v.sharesTotal = 0 => v.assetsTotal = 0 /\ v.assetsAvailable = 0
    /\ v.assetsAvailable >= 0 /\ v.assetsTotal >= 0
    /\ v.assetsAvailable <= v.assetsTotal
    /\ v.lossUnrealized <= v.assetsTotal - v.assetsAvailable

VaultCreate(a, maximum) ==
    /\ vault = None
    /\ vault' = [owner |-> a, assetsTotal |-> 0, assetsAvailable |-> 0,
                 lossUnrealized |-> 0, assetsMaximum |-> maximum, sharesTotal |-> 0]
    /\ holders' = {a}
    /\ ownerCount' = [ownerCount EXCEPT ![a] = @ + 2]
    /\ UNCHANGED <<shares, balance>>

VaultSet(maximum) ==
    /\ vault # None
    /\ maximum # 0 => maximum >= vault.assetsTotal
    /\ vault' = [vault EXCEPT !.assetsMaximum = maximum]
    /\ UNCHANGED <<shares, holders, balance, ownerCount>>

(* linked: a broker object still hangs in the pseudo-account's directory. *)
VaultDelete(linked) ==
    /\ vault # None
    /\ vault.assetsAvailable = 0 /\ vault.assetsTotal = 0 /\ vault.sharesTotal = 0
    /\ balance[VaultAccount] = 0
    /\ ~linked
    /\ vault' = None
    /\ holders' = holders \ {vault.owner}
    /\ ownerCount' = [ownerCount EXCEPT
          ![vault.owner] = @ - (IF vault.owner \in holders THEN 2 ELSE 1)]
    /\ UNCHANGED <<shares, balance>>

(* The end of a deposit that mints created shares for deposited assets. *)
Mint(a, amount, created, deposited) ==
    LET v == [vault EXCEPT !.assetsTotal = @ + deposited,
                           !.assetsAvailable = @ + deposited,
                           !.sharesTotal = @ + created]
    IN  /\ created # 0 /\ deposited <= amount
        /\ vault.assetsMaximum # 0 => v.assetsTotal <= vault.assetsMaximum
        /\ deposited > 0 /\ ValidVault(v)
        /\ vault' = v
        /\ shares' = [shares EXCEPT ![a] = @ + created]
        /\ holders' = holders \cup {a}
        /\ ownerCount' = [ownerCount EXCEPT ![a] = @ + (IF a \in holders THEN 0 ELSE 1)]
        /\ balance' = Send(balance, a, VaultAccount, deposited)

DepositFor(a, amount, created) ==
    Mint(a, amount, created, sharesToAssetsDeposit(vault, created))

VaultDeposit(a, amount) ==
    /\ vault # None
    /\ amount > 0 /\ balance[a] >= amount
    /\ DepositFor(a, amount, assetsToSharesDeposit(vault, amount))

(* Mutant: the empty MPToken stays. *)
NeverEmptied(a, s) == FALSE

(* An account that is not the owner loses its empty MPToken. *)
Emptied(a, s) == a # vault.owner /\ a \in holders /\ shares[a] = s

(* What withdrawal and clawback share: account a gives up s shares for     *)
(* assets that leave the vault.                                            *)
Redeem(a, s, assets) ==
    LET v == [vault EXCEPT !.assetsTotal = @ - assets,
                           !.assetsAvailable = @ - assets,
                           !.sharesTotal = @ - s]
    IN  /\ s # 0 /\ shares[a] >= s
        /\ assets <= vault.assetsAvailable
        /\ assets > 0 /\ ValidVault(v)
        /\ vault' = v
        /\ shares' = [shares EXCEPT ![a] = @ - s]
        /\ holders' = IF Emptied(a, s) THEN holders \ {a} ELSE holders
        /\ ownerCount' = [ownerCount EXCEPT ![a] = @ - (IF Emptied(a, s) THEN 1 ELSE 0)]

Withdraw(a, destination, redeemed, withdrawn) ==
    /\ Redeem(a, redeemed, withdrawn)
    /\ balance' = Send(balance, VaultAccount, destination, withdrawn)

(* Mutant: the unrealized loss is ignored. *)
WithdrawAtFullPrice(a, destination, redeemed) ==
    Withdraw(a, destination, redeemed, sharesToAssetsDeposit(vault, redeemed))

WithdrawShares(a, destination, redeemed) ==
    Withdraw(a, destination, redeemed, sharesToAssetsWithdraw(vault, redeemed))

(* unit says whether the amount is one of assets or one of shares. *)
VaultWithdraw(a, destination, amount, unit) ==
    /\ vault # None
    /\ amount > 0
    /\ WithdrawShares(a, destination,
                      IF unit = "shares" THEN amount
                      ELSE assetsToSharesWithdraw(vault, amount, FALSE))

Recover(holder, destroyed, recovered) ==
    /\ Redeem(holder, destroyed, recovered)
    /\ balance' = [balance EXCEPT ![VaultAccount] = @ - recovered]

RecoverShares(holder, destroyed) ==
    Recover(holder, destroyed, sharesToAssetsWithdraw(vault, destroyed))

(* As many of the wanted shares as the available assets pay for. *)
Recoverable(wanted) ==
    IF sharesToAssetsWithdraw(vault, wanted) <= vault.assetsAvailable THEN wanted
    ELSE assetsToSharesWithdraw(vault, vault.assetsAvailable, TRUE)

(* The issuer takes amount, or with 0 everything, off a holder. *)
VaultClawback(holder, amount) ==
    /\ vault # None
    /\ RecoverShares(holder,
          Recoverable(IF amount = 0 THEN shares[holder]
                      ELSE assetsToSharesWithdraw(vault, amount, FALSE)))

(* The vault transactions, given whether a broker is linked to the vault. *)
VaultNext(linked) ==
    \/ \E a \in Owners, maximum \in AssetMaximums : VaultCreate(a, maximum)
    \/ \E maximum \in AssetMaximums : VaultSet(maximum)
    \/ VaultDelete(linked)
    \/ \E a \in Lenders, amount \in AssetAmounts : VaultDeposit(a, amount)
    \/ \E a \in Lenders, amount \in AssetAmounts :
          \E destination \in {a} \cup Destinations :
             VaultWithdraw(a, destination, amount, "assets")
    \/ \E a \in Lenders, amount \in ShareAmounts :
          \E destination \in {a} \cup Destinations :
             VaultWithdraw(a, destination, amount, "shares")
    \/ \E a \in Lenders, amount \in ClawAmounts : VaultClawback(a, amount)
=============================================================================
