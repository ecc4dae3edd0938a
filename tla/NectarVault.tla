---------------------------- MODULE NectarVault -----------------------------
(***************************************************************************)
(* contracts/nectar-vault together with the two contracts it calls, the    *)
(* USDC token and the keeper registry.  Depositors buy and redeem shares,  *)
(* registered keepers draw capital for a liquidation and return it with a  *)
(* profit.  A call and the calls it makes to other contracts are one       *)
(* transaction, hence one action.                                          *)
(***************************************************************************)
EXTENDS KeeperRegistry, ShareMath

CONSTANTS
  Users,           \* the addresses that may deposit
  InitialBalance,  \* what each account holds when the contracts are deployed
  VaultConfigs,    \* the configurations the admin may set
  Amounts,         \* the amounts and numbers of shares a call may name
  ResponseTimes,   \* the response_time_ms a keeper may report
  Routes,          \* <<from, to>>: the token transfers made outside the
                   \* contracts, such as a keeper paying an auction's bid
  MaxProfit        \* bound of the model: the largest total_profit

ASSUME VaultAssumption ==
  /\ Users \subseteq Accounts
  /\ RegistryAddr \notin Users /\ VaultAddr \notin Users
  /\ InitialBalance \in [Accounts -> Nat]
  /\ VaultConfigs \subseteq
       [deposit_cap : Int, withdraw_cooldown : Nat, max_draw_per_keeper : Int]
  /\ NoConfig \notin VaultConfigs
  /\ Amounts \subseteq Int
  /\ ResponseTimes \subseteq Nat
  /\ Routes \subseteq (Accounts \ {RegistryAddr, VaultAddr}) \X Accounts
  /\ MaxProfit \in Nat

ASSUME FiniteUsers == IsFiniteSet(Users)

VARIABLES
  vconfig,     \* VaultKey::VaultConfig, NoConfig until initialize has run
  total_usdc, total_shares, total_profit, active_liq,  \* VaultKey::State
  depositors,  \* VaultKey::Depositor(u), for the users that have deposited
  keeperDraw   \* VaultKey::KeeperDraw(k), 0 when there is no entry

state == <<total_usdc, total_shares, total_profit, active_liq>>

vaultVars == <<vconfig, state, depositors, keeperDraw>>

(* History variables, written by the actions and read by no guard.         *)
VARIABLES
  windfall,    \* USDC that reached the vault's account outside deposit and
               \* return_proceeds: slashed stakes and plain transfers
  writtenOff,  \* principal of draws whose record a short return removed
  slashed      \* keepers slashed since they last drew

history == <<windfall, writtenOff, slashed>>

vars == <<usdc, now, registryVars, vaultVars, history>>

-----------------------------------------------------------------------------
VaultInit ==
  /\ vconfig = NoConfig
  /\ total_usdc = 0 /\ total_shares = 0 /\ total_profit = 0 /\ active_liq = 0
  /\ depositors = EmptyStore
  /\ keeperDraw = [k \in Keepers |-> 0]
  /\ windfall = 0
  /\ writtenOff = 0
  /\ slashed = {}

\* Mistake: initialize may run again.
VaultInitializeAgain(config) ==
  /\ vconfig' = config
  /\ total_usdc' = 0 /\ total_shares' = 0 /\ total_profit' = 0
  /\ active_liq' = 0
  /\ UNCHANGED <<usdc, now, registryVars, depositors, keeperDraw, history>>

VaultInitialize(config) ==
  /\ vconfig = NoConfig
  /\ vconfig' = config
  /\ total_usdc' = 0 /\ total_shares' = 0 /\ total_profit' = 0
  /\ active_liq' = 0
  /\ UNCHANGED <<usdc, now, registryVars, depositors, keeperDraw, history>>

\* unwrap_or(Depositor { shares: 0, .. })
DepositorOf(u) ==
  IF u \in DOMAIN depositors THEN depositors[u]
  ELSE [shares |-> 0, last_deposit_time |-> now]

\* deposit returns Ok.
DepositAllowed(u, amount) ==
  /\ vconfig # NoConfig
  /\ ~(vconfig.deposit_cap > 0
       /\ total_usdc + amount > vconfig.deposit_cap)
  /\ CanTransfer(usdc, u, amount)
  /\ total_shares # 0 => total_usdc # 0   \* else `/` panics

Deposit(u, amount) ==
  /\ DepositAllowed(u, amount)
  /\ LET shares == SharesFor(amount, total_usdc, total_shares)
     IN  /\ usdc' = Transfer(usdc, u, VaultAddr, amount)
         /\ depositors' =
              Put(depositors, u, [shares |-> DepositorOf(u).shares + shares,
                                  last_deposit_time |-> now])
         /\ total_usdc' = total_usdc + amount
         /\ total_shares' = total_shares + shares
  /\ UNCHANGED <<now, registryVars, vconfig, total_profit, active_liq,
                 keeperDraw, history>>

\* withdraw returns Ok.
WithdrawAllowed(u, shares) ==
  /\ vconfig # NoConfig
  /\ u \in DOMAIN depositors
  /\ shares <= depositors[u].shares
  /\ SaturatingSub(now, depositors[u].last_deposit_time)
       >= vconfig.withdraw_cooldown
  /\ total_shares # 0
  /\ CanTransfer(usdc, VaultAddr, UsdcFor(shares, total_usdc, total_shares))

Withdraw(u, shares) ==
  /\ WithdrawAllowed(u, shares)
  /\ LET usdc_out == UsdcFor(shares, total_usdc, total_shares)
     IN  /\ usdc' = Transfer(usdc, VaultAddr, u, usdc_out)
         /\ total_usdc' = total_usdc - usdc_out
         /\ total_shares' = total_shares - shares
  /\ depositors' = [depositors EXCEPT ![u].shares = @ - shares]
  /\ UNCHANGED <<now, registryVars, vconfig, total_profit, active_liq,
                 keeperDraw, history>>

\* available: what draw takes the vault to hold.
Available == total_usdc - active_liq

\* draw returns Ok.  It calls the registry's get_keeper, which traps on an
\* unknown keeper.
DrawAllowed(k, amount) ==
  /\ vconfig # NoConfig
  /\ ~(vconfig.max_draw_per_keeper > 0
       /\ amount > vconfig.max_draw_per_keeper)
  /\ amount <= Available
  /\ k \in DOMAIN info
  /\ CanTransfer(usdc, VaultAddr, amount)

\* The registry's mark_draw is a part of it.
Draw(k, amount) ==
  /\ DrawAllowed(k, amount)
  /\ usdc' = Transfer(usdc, VaultAddr, k, amount)
  /\ keeperDraw' = [keeperDraw EXCEPT ![k] = @ + amount]
  /\ active_liq' = active_liq + amount
  /\ IF amount > 0
     THEN /\ info' = [info EXCEPT ![k] = Marked(@)]
          /\ slashed' = slashed \ {k}
     ELSE UNCHANGED <<info, slashed>>
  /\ UNCHANGED <<now, rconfig, paused, keeperList, keeperCount,
                 vconfig, total_usdc, total_shares, total_profit, depositors,
                 windfall, writtenOff>>

\* Mistake: a return smaller than what is out repays nothing.
RepayOfAllOrNothing(amount, out) ==
  IF amount < out THEN 0 ELSE out

\* The part of a return of amount that lowers active_liq, now at out.
RepayOf(amount, out) ==
  IF amount < out THEN amount ELSE out

\* Mistake: a short return counts as a negative profit.
ProfitOfSigned(amount, drawn) == amount - drawn

\* Mistake: the principal of a draw counts as profit, too.
ProfitOfWhole(amount, drawn) == amount

\* The profit that a return of amount against an open draw of drawn counts as.
ProfitOf(amount, drawn) ==
  IF drawn > 0 /\ amount > drawn THEN amount - drawn
  ELSE IF drawn = 0 THEN amount
  ELSE 0

\* return_proceeds returns Ok.  With a draw to close, it calls the registry's
\* clear_draw and record_execution, which trap on an unknown keeper.
ReturnAllowed(k, amount) ==
  /\ vconfig # NoConfig
  /\ CanTransfer(usdc, k, amount)
  /\ keeperDraw[k] > 0 => k \in DOMAIN info

ReturnProceeds(k, amount, ms) ==
  /\ ReturnAllowed(k, amount)
  /\ usdc' = Transfer(usdc, k, VaultAddr, amount)
  /\ LET drawn == keeperDraw[k]
         repay == RepayOf(amount, active_liq)
         profit == ProfitOf(amount, drawn)
     IN  /\ total_profit + profit <= MaxProfit
         /\ active_liq' = active_liq - repay
         /\ total_usdc' = total_usdc + profit
         /\ total_profit' = total_profit + profit
         /\ IF drawn > 0
            THEN /\ keeperDraw' = [keeperDraw EXCEPT ![k] = 0]
                 /\ info' = [info EXCEPT ![k] =
                               Executed(Cleared(@), TRUE, profit, ms)]
                 /\ slashed' = slashed \ {k}
                 /\ writtenOff' = writtenOff
                      + (IF amount < drawn THEN drawn - amount ELSE 0)
            ELSE UNCHANGED <<keeperDraw, info, slashed, writtenOff>>
  /\ UNCHANGED <<now, rconfig, paused, keeperList, keeperCount,
                 vconfig, total_shares, depositors, windfall>>

VaultSetConfig(config) ==
  /\ vconfig # NoConfig
  /\ vconfig' = config
  /\ UNCHANGED <<usdc, now, registryVars, state, depositors, keeperDraw,
                 history>>

-----------------------------------------------------------------------------
(* The environment of the contracts.                                       *)

\* A keeper is slashed: the registry's action, and the stake that reaches
\* the vault is USDC the vault does not count.
SlashKeeper(k) ==
  /\ Slash(k)
  /\ windfall' = windfall + (usdc'[VaultAddr] - usdc[VaultAddr])
  /\ slashed' = slashed \cup {k}
  /\ UNCHANGED <<vaultVars, writtenOff>>

\* USDC moves without the contracts taking part.
PlainTransfer(from, to, amount) ==
  /\ CanTransfer(usdc, from, amount)
  /\ usdc' = Transfer(usdc, from, to, amount)
  /\ windfall' = windfall + (IF to = VaultAddr THEN amount ELSE 0)
  /\ UNCHANGED <<now, registryVars, vaultVars, writtenOff, slashed>>

\* A ledger closes and the next one has a later timestamp.
Tick ==
  /\ now < MaxTime
  /\ now' = now + 1
  /\ UNCHANGED <<usdc, registryVars, vaultVars, history>>

-----------------------------------------------------------------------------
Init ==
  /\ usdc = [a \in Accounts |->
               IF a \in {RegistryAddr, VaultAddr} THEN 0 ELSE InitialBalance[a]]
  /\ now = 0
  /\ RegistryInit
  /\ VaultInit

\* A call to the registry that the vault has no part in.
RegistryCall ==
  /\ \/ \E c \in RegistryConfigs : RegistryInitialize(c) \/ RegistrySetConfig(c)
     \/ \E k \in Keepers : Register(k) \/ Deregister(k)
     \/ Pause
     \/ Unpause
  /\ UNCHANGED <<vaultVars, history>>

DepositorCall ==
  \E u \in Users, a \in Amounts : Deposit(u, a) \/ Withdraw(u, a)

KeeperCall ==
  \E k \in Keepers, a \in Amounts :
    Draw(k, a) \/ \E ms \in ResponseTimes : ReturnProceeds(k, a, ms)

Next ==
  \/ \E c \in VaultConfigs : VaultInitialize(c) \/ VaultSetConfig(c)
  \/ DepositorCall
  \/ KeeperCall
  \/ RegistryCall
  \/ \E k \in Keepers : SlashKeeper(k)
  \/ \E r \in Routes, a \in Amounts : PlainTransfer(r[1], r[2], a)
  \/ Tick

Spec == Init /\ [][Next]_vars

-----------------------------------------------------------------------------
SharesOf ==
  [u \in Users |-> IF u \in DOMAIN depositors THEN depositors[u].shares ELSE 0]

\* The contracts' state keeps its types: in particular no counter of the
\* vault, and no depositor's shares, ever becomes negative, although i128
\* would let it.
TypeOK ==
  /\ RegistryTypeOK
  /\ vconfig \in VaultConfigs \cup {NoConfig}
  /\ total_usdc \in Nat /\ total_shares \in Nat
  /\ total_profit \in Nat /\ active_liq \in Nat
  /\ DOMAIN depositors \subseteq Users
  /\ depositors \in
       [DOMAIN depositors -> [shares : Nat, last_deposit_time : Nat]]
  /\ keeperDraw \in [Keepers -> Nat]
  /\ windfall \in Nat
  /\ writtenOff \in Nat
  /\ slashed \in SUBSET Keepers

\* deposit, withdraw: the shares the vault has issued are the shares the
\* depositors hold.
SharesAddUp == total_shares = Total(SharesOf)

\* deposit, withdraw, return_proceeds: a share is never worth less than one
\* unit of USDC.  Hence deposit never divides by zero (shares outstanding but
\* no USDC), and a withdrawal of a negative number of shares never rounds to
\* a payment of zero, which the token would let pass.
ShareWorthAtLeastOne == total_usdc >= total_shares

\* All money is somewhere: what the vault holds, what keepers owe and what
\* short returns have written off is what the vault counts plus what reached
\* it unnoticed.
CashConserved ==
  usdc[VaultAddr] + Total(keeperDraw) + writtenOff = total_usdc + windfall

\* draw, return_proceeds: active_liq never exceeds the capital that really is
\* out.  It may be less: a return lowers it by the whole amount returned, also
\* by the part that is profit, as long as other draws keep it above zero.
ActiveLiqIsOut == active_liq <= Total(keeperDraw) + writtenOff

\* draw, return_proceeds, mark_draw, clear_draw, slash, deregister: the two
\* contracts agree on who has a draw open.  The registry's flag is set only
\* for keepers that owe the vault, and a keeper that owes it and has not been
\* slashed since is registered, flagged, and so cannot deregister.
DrawsTracked ==
  \A k \in Keepers :
    /\ (k \in DOMAIN info /\ info[k].has_active_draw) => keeperDraw[k] > 0
    /\ (keeperDraw[k] > 0 /\ k \notin slashed) =>
         k \in DOMAIN info /\ info[k].has_active_draw

\* draw, return_proceeds, withdraw: once every draw has been returned in full,
\* any one depositor can redeem all its shares, and the vault has the USDC to
\* pay for it.
IdleVaultPays ==
  (Total(keeperDraw) = 0 /\ writtenOff = 0 /\ total_shares > 0) =>
    \A u \in Users :
      CanTransfer(usdc, VaultAddr,
                  UsdcFor(SharesOf[u], total_usdc, total_shares))

\* register, deregister, slash: no slash takes more than is left of a stake,
\* and the registry can refund what is left of all of them, whatever the
\* configuration asked for when they were paid.
StakesBacked ==
  /\ \A k \in DOMAIN info : info[k].stake >= 0
  /\ usdc[RegistryAddr] >= Total(StakeOf)

\* register, deregister: the list, the count and the records of the keepers
\* tell the same story, whatever the order of calls.
RosterCoherent ==
  /\ keeperList \in Seq(Keepers)
  /\ {keeperList[i] : i \in DOMAIN keeperList} = DOMAIN info
  /\ Len(keeperList) = Cardinality(DOMAIN info)
  /\ keeperCount = Len(keeperList)

\* return_proceeds, record_execution: the registry credits keepers with no
\* more profit than the vault has booked.
CreditBacked == Total(CreditOf) <= total_profit

\* deposit, withdraw, return_proceeds, slash: no call lowers the price of a
\* share (compared as fractions), so no depositor takes USDC from another by
\* the rounding of either division, nor by any sequence of calls.
SharePriceNeverFalls ==
  [][(total_shares > 0 /\ total_shares' > 0) =>
       total_usdc' * total_shares >= total_usdc * total_shares']_vars

-----------------------------------------------------------------------------
(* What the repository's texts say of the vault, and the code does not do. *)

\* The comment in withdraw: a depositor that redeems all the shares there are
\* gets the full total_usdc.  A draw returned in two parts counts its second
\* part as profit, and then the vault does not hold its total_usdc although
\* nothing is out any more.
EmptyingPaysEverything ==
  (active_liq = 0 /\ Total(keeperDraw) = 0 /\ total_shares > 0) =>
    \A u \in Users :
      SharesOf[u] = total_shares =>
        CanTransfer(usdc, VaultAddr, total_usdc)

-----------------------------------------------------------------------------
Pool == INSTANCE SharePool
          WITH assets <- total_usdc, issued <- total_shares, shares <- SharesOf

\* The vault, the registry, the token and the keepers together are a fair
\* share pool: however keepers draw, return or are slashed, and however the
\* two contracts divide, depositors see only entering, leaving and profit.
IsSharePool == Pool!PoolSpec
=============================================================================
