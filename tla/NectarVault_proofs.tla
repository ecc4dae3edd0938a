------------------------- MODULE NectarVault_proofs -------------------------
(***************************************************************************)
(* The safety of the vault and the registry for every number of users and  *)
(* keepers, every configuration and every amount.                          *)
(***************************************************************************)
EXTENDS NectarVault, VaultMath_proofs, SequenceTheorems

\* Before initialize the vault has counted nothing.
Uninitialized ==
  vconfig = NoConfig =>
    total_usdc = 0 /\ total_shares = 0 /\ total_profit = 0 /\ active_liq = 0

\* At rates within the stake, the stakes are backed.
StakesInv == RatesWithinStake => StakesBacked

\* The inductive invariant.
IInv ==
  /\ TypeOK
  /\ SharesAddUp
  /\ ShareWorthAtLeastOne
  /\ CashConserved
  /\ ActiveLiqIsOut
  /\ DrawsTracked
  /\ StakesInv
  /\ CreditBacked
  /\ Uninitialized

-----------------------------------------------------------------------------
\* A transfer that the token lets pass keeps balances natural, moves the
\* amount and leaves every other account alone.
LEMMA TransferMoves ==
  ASSUME NEW A, NEW bal \in [A -> Nat], NEW from \in A, NEW to \in A,
         NEW amount \in Int, CanTransfer(bal, from, amount)
  PROVE  /\ Transfer(bal, from, to, amount) \in [A -> Nat]
         /\ from # to =>
              /\ Transfer(bal, from, to, amount)[from] = bal[from] - amount
              /\ Transfer(bal, from, to, amount)[to] = bal[to] + amount
         /\ from = to => Transfer(bal, from, to, amount) = bal
         /\ \A a \in A \ {from, to} :
              Transfer(bal, from, to, amount)[a] = bal[a]
<1> DEFINE debited == [bal EXCEPT ![from] = bal[from] - amount]
           moved == [debited EXCEPT ![to] = debited[to] + amount]
<1>1. Transfer(bal, from, to, amount) = moved
  BY DEF Transfer
<1>2. amount \in Nat /\ bal[from] - amount \in Nat
  BY DEF CanTransfer
<1>3. debited \in [A -> Nat] /\ debited[from] = bal[from] - amount
  BY <1>2
<1>4. \A a \in A \ {from} : debited[a] = bal[a]
  OBVIOUS
<1> HIDE DEF debited
<1>5. moved \in [A -> Nat] /\ moved[to] = debited[to] + amount
  BY <1>2, <1>3
<1>6. \A a \in A \ {to} : moved[a] = debited[a]
  BY <1>3
<1>7. from = to => moved = bal
  <2> SUFFICES ASSUME from = to PROVE moved = bal
    OBVIOUS
  <2>1. \A a \in A : moved[a] = bal[a]
    BY <1>2, <1>3, <1>4, <1>5, <1>6
  <2> HIDE DEF moved
  <2> QED
    BY <1>5, <2>1
<1> HIDE DEF moved
<1> QED
  BY <1>1, <1>3, <1>4, <1>5, <1>6, <1>7

\* The sums that the invariant speaks of are natural numbers.
LEMMA SumsAreNat ==
  ASSUME TypeOK
  PROVE  /\ SharesOf \in [Users -> Nat] /\ Total(SharesOf) \in Nat
         /\ CreditOf \in [Keepers -> Nat] /\ Total(CreditOf) \in Nat
         /\ Total(keeperDraw) \in Nat
<1>1. SharesOf \in [Users -> Nat]
  BY DEF TypeOK, SharesOf
<1>2. CreditOf \in [Keepers -> Nat]
  BY DEF TypeOK, RegistryTypeOK, KeeperInfo, CreditOf
<1>3. keeperDraw \in [Keepers -> Nat]
  BY DEF TypeOK
<1> QED
  BY <1>1, <1>2, <1>3, UnitsFinite, FiniteUsers, FiniteKeepers

\* Stakes that are backed have a sum that is a natural number.
LEMMA StakesAreNat ==
  ASSUME RegistryTypeOK, StakesBacked
  PROVE  StakeOf \in [Keepers -> Nat] /\ Total(StakeOf) \in Nat
<1>1. \A k \in DOMAIN info : info[k].stake \in Nat
  <2>1. \A k \in DOMAIN info : info[k].stake \in Int
    BY DEF RegistryTypeOK, KeeperInfo
  <2> QED
    BY <2>1 DEF StakesBacked
<1>2. StakeOf \in [Keepers -> Nat]
  BY <1>1 DEF StakeOf
<1> QED
  BY <1>2, UnitsFinite, FiniteKeepers

\* The stakes stay backed when no keeper's stake changes and the registry
\* holds no less.
LEMMA StakesStand ==
  ASSUME RegistryTypeOK, StakesInv, usdc' \in [Accounts -> Nat],
         DOMAIN info' = DOMAIN info,
         \A k \in DOMAIN info : info'[k].stake = info[k].stake,
         usdc'[RegistryAddr] >= usdc[RegistryAddr]
  PROVE  StakesInv'
<1> SUFFICES ASSUME RatesWithinStake PROVE StakesBacked'
  BY DEF StakesInv, RatesWithinStake
<1>1. StakesBacked
  BY DEF StakesInv
<1>2. StakeOf' = StakeOf
  <2>1. \A k \in Keepers : (IF k \in DOMAIN info' THEN info'[k].stake ELSE 0)
                             = (IF k \in DOMAIN info THEN info[k].stake ELSE 0)
    OBVIOUS
  <2> QED
    BY <2>1, Zenon DEF StakeOf
<1>3. /\ Total(StakeOf) \in Nat /\ usdc[RegistryAddr] \in Nat
      /\ usdc'[RegistryAddr] \in Nat
  BY <1>1, StakesAreNat, RegistryAssumption DEF RegistryTypeOK
<1> DEFINE sum == Total(StakeOf)
<1>4. usdc[RegistryAddr] >= sum /\ Total(StakeOf)' = sum
  BY <1>1, <1>2 DEF StakesBacked
<1> HIDE DEF sum
<1>5. usdc'[RegistryAddr] >= Total(StakeOf)'
  BY <1>3, <1>4 DEF sum
<1> QED
  BY <1>1, <1>5 DEF StakesBacked

\* What deposit hands out, as the arithmetic of shares has it.
LEMMA DepositEffect ==
  ASSUME IInv, NEW u \in Users, NEW amount \in Int, Deposit(u, amount)
  PROVE  LET s == SharesFor(amount, total_usdc, total_shares)
         IN  /\ amount \in Nat
             /\ total_usdc \in Nat /\ total_shares \in Nat
             /\ total_shares <= total_usdc
             /\ s \in Nat /\ s <= amount
             /\ total_shares # 0 =>
                  /\ s * total_usdc <= amount * total_shares
                  /\ (total_usdc + amount) * total_shares
                       >= total_usdc * (total_shares + s)
<1>1. total_usdc \in Nat /\ total_shares \in Nat
  BY DEF IInv, TypeOK
<1>2. total_shares <= total_usdc
  BY <1>1 DEF IInv, ShareWorthAtLeastOne
<1>3. CanTransfer(usdc, u, amount)
  BY DEF Deposit, DepositAllowed
<1>4. amount \in Nat
  BY <1>3, VaultAssumption DEF CanTransfer
<1> QED
  BY <1>1, <1>2, <1>4, DepositFair

\* deposit
LEMMA DepositPreserves ==
  ASSUME IInv, NEW u \in Users, NEW amount \in Int, Deposit(u, amount)
  PROVE  IInv'
<1> DEFINE s == SharesFor(amount, total_usdc, total_shares)
<1>1. /\ u \in Accounts /\ VaultAddr \in Accounts /\ RegistryAddr \in Accounts
      /\ u # VaultAddr /\ u # RegistryAddr /\ VaultAddr # RegistryAddr
  BY VaultAssumption, RegistryAssumption
<1>2. /\ CanTransfer(usdc, u, amount)
      /\ usdc \in [Accounts -> Nat]
  BY DEF IInv, TypeOK, RegistryTypeOK, Deposit, DepositAllowed
<1>3. /\ s \in Nat /\ s <= amount /\ amount \in Nat
      /\ total_usdc \in Nat /\ total_shares \in Nat
      /\ total_shares <= total_usdc
  BY DepositEffect
<1>4. /\ usdc' \in [Accounts -> Nat]
      /\ usdc'[VaultAddr] = usdc[VaultAddr] + amount
      /\ usdc'[RegistryAddr] = usdc[RegistryAddr]
  <2>1. usdc' = Transfer(usdc, u, VaultAddr, amount)
    BY DEF Deposit, DepositAllowed
  <2> QED
    BY <1>1, <1>2, <1>3, <2>1, TransferMoves
<1> HIDE DEF s
<1>5. /\ total_usdc' = total_usdc + amount
      /\ total_shares' = total_shares + s
      /\ depositors' =
           Put(depositors, u, [shares |-> DepositorOf(u).shares + s,
                               last_deposit_time |-> now])
      /\ vconfig # NoConfig
      /\ UNCHANGED <<now, registryVars, vconfig, total_profit, active_liq,
                     keeperDraw, history>>
  BY DEF Deposit, DepositAllowed, s
<1>6. TypeOK'
  <2>1. RegistryTypeOK'
    BY <1>4, <1>5 DEF IInv, TypeOK, RegistryTypeOK, registryVars
  <2>2. /\ DOMAIN depositors' \subseteq Users
        /\ depositors' \in [DOMAIN depositors' ->
                              [shares : Nat, last_deposit_time : Nat]]
    BY <1>3, <1>5 DEF IInv, TypeOK, RegistryTypeOK, Put, DepositorOf
  <2> QED
    BY <1>2, <1>3, <1>5, <2>1, <2>2 DEF IInv, TypeOK, history
<1>7. /\ SharesOf'[u] = SharesOf[u] + s
      /\ \A v \in Users \ {u} : SharesOf'[v] = SharesOf[v]
  BY <1>3, <1>5 DEF IInv, TypeOK, SharesOf, DepositorOf, Put
<1>8. Total(SharesOf)' = Total(SharesOf) + s
  <2> DEFINE f == SharesOf
             g == SharesOf'
  <2>1. f \in [Users -> Nat] /\ g \in [Users -> Nat] /\ Total(f) \in Nat
    BY <1>6, SumsAreNat DEF IInv, TypeOK, SharesOf
  <2>2. g[u] = f[u] + s /\ \A v \in Users \ {u} : g[v] = f[v]
    BY <1>7
  <2> HIDE DEF f, g
  <2>3. Total(g) = Total(f) - f[u] + g[u]
    BY <2>1, <2>2, TotalChange, FiniteUsers
  <2>4. Total(g) = Total(f) + s
    BY <1>3, <2>1, <2>2, <2>3
  <2> QED
    BY <2>4 DEF f, g
<1>9. SharesAddUp' /\ ShareWorthAtLeastOne'
  BY <1>2, <1>3, <1>5, <1>8 DEF IInv, SharesAddUp, ShareWorthAtLeastOne
<1>10. CashConserved' /\ ActiveLiqIsOut'
  <2>1. /\ Total(keeperDraw) \in Nat /\ usdc[VaultAddr] \in Nat
        /\ writtenOff \in Nat /\ windfall \in Nat /\ active_liq \in Nat
    BY <1>1, <1>2, SumsAreNat DEF IInv, TypeOK
  <2> QED
    BY <1>3, <1>4, <1>5, <2>1 DEF IInv, CashConserved, ActiveLiqIsOut, history
<1>11. DrawsTracked' /\ Uninitialized'
  BY <1>5 DEF IInv, DrawsTracked, Uninitialized, registryVars, history
<1>12. StakesInv' /\ CreditBacked'
  <2>1. StakesInv'
    BY <1>1, <1>2, <1>4, <1>5, StakesStand DEF IInv, TypeOK, registryVars
  <2> QED
    BY <1>5, <2>1 DEF IInv, CreditBacked, CreditOf, registryVars
<1> QED
  BY <1>6, <1>9, <1>10, <1>11, <1>12 DEF IInv

\* What withdraw pays, as the arithmetic of shares has it: the depositor
\* redeems a natural number of its shares.
LEMMA WithdrawEffect ==
  ASSUME IInv, NEW u \in Users, NEW s \in Int, Withdraw(u, s)
  PROVE  LET out == UsdcFor(s, total_usdc, total_shares)
         IN  /\ total_usdc \in Nat /\ total_shares \in Nat \ {0}
             /\ s \in Nat /\ s <= total_shares
             /\ out \in Nat /\ out <= total_usdc
             /\ out * total_shares <= s * total_usdc
             /\ (total_usdc - out) * total_shares
                  >= total_usdc * (total_shares - s)
             /\ total_usdc - out >= total_shares - s
<1> DEFINE out == UsdcFor(s, total_usdc, total_shares)
<1>1. /\ u \in DOMAIN depositors /\ s <= depositors[u].shares
      /\ CanTransfer(usdc, VaultAddr, out)
      /\ total_shares # 0
  BY DEF Withdraw, WithdrawAllowed
<1>2. /\ total_usdc \in Nat /\ total_shares \in Nat \ {0}
      /\ total_shares <= total_usdc
      /\ SharesOf[u] = depositors[u].shares
      /\ SharesOf \in [Users -> Nat]
      /\ Total(SharesOf) = total_shares
  BY <1>1 DEF IInv, TypeOK, ShareWorthAtLeastOne, SharesAddUp, SharesOf
<1>3. s \in Nat /\ s <= total_shares
  <2>1. SharesOf[u] <= Total(SharesOf)
    BY <1>2, TotalBounds, FiniteUsers
  <2>2. s \in Int
    BY VaultAssumption
  <2>3. out >= 0
    BY <1>1 DEF CanTransfer
  <2>4. ASSUME s < 0 PROVE FALSE
    <3>1. out < 0
      BY <1>2, <2>2, <2>4, NegativeWithdrawRefused
    <3>2. out \in Int
      <4>1. s * total_usdc \in Int
        BY <1>2, <2>2
      <4> QED
        BY <1>2, <4>1 DEF UsdcFor, Quot
    <3> HIDE DEF out
    <3> QED
      BY <2>3, <3>1, <3>2
  <2> QED
    BY <1>1, <1>2, <2>1, <2>2, <2>4
<1> QED
  BY <1>2, <1>3, WithdrawFair

\* withdraw
LEMMA WithdrawPreserves ==
  ASSUME IInv, NEW u \in Users, NEW s \in Int, Withdraw(u, s)
  PROVE  IInv'
<1> DEFINE out == UsdcFor(s, total_usdc, total_shares)
<1>1. /\ u \in Accounts /\ VaultAddr \in Accounts /\ RegistryAddr \in Accounts
      /\ u # VaultAddr /\ u # RegistryAddr /\ VaultAddr # RegistryAddr
  BY VaultAssumption, RegistryAssumption
<1>2. /\ u \in DOMAIN depositors /\ s <= depositors[u].shares
      /\ CanTransfer(usdc, VaultAddr, out)
      /\ usdc' = Transfer(usdc, VaultAddr, u, out)
      /\ total_usdc' = total_usdc - out
      /\ total_shares' = total_shares - s
      /\ depositors' = [depositors EXCEPT ![u].shares = @ - s]
      /\ vconfig # NoConfig /\ total_shares # 0
      /\ UNCHANGED <<now, registryVars, vconfig, total_profit, active_liq,
                     keeperDraw, history>>
  BY DEF Withdraw, WithdrawAllowed
<1>3. /\ usdc \in [Accounts -> Nat]
      /\ depositors[u].shares \in Nat
      /\ Total(SharesOf) = total_shares
  BY <1>2 DEF IInv, TypeOK, RegistryTypeOK, SharesAddUp
<1>4. /\ total_usdc \in Nat /\ total_shares \in Nat \ {0}
      /\ s \in Nat /\ s <= total_shares
  BY WithdrawEffect
<1>5. out \in Nat /\ out <= total_usdc /\ total_usdc - out >= total_shares - s
  BY WithdrawEffect
<1> HIDE DEF out
<1>6. /\ usdc' \in [Accounts -> Nat]
      /\ usdc'[VaultAddr] = usdc[VaultAddr] - out
      /\ usdc'[RegistryAddr] = usdc[RegistryAddr]
  BY <1>1, <1>2, <1>3, <1>5, TransferMoves
<1>7. TypeOK'
  <2>1. RegistryTypeOK'
    BY <1>2, <1>6 DEF IInv, TypeOK, RegistryTypeOK, registryVars
  <2>2. /\ DOMAIN depositors' \subseteq Users
        /\ depositors' \in [DOMAIN depositors' ->
                              [shares : Nat, last_deposit_time : Nat]]
    BY <1>2, <1>3, <1>4 DEF IInv, TypeOK
  <2> QED
    BY <1>2, <1>3, <1>4, <1>5, <2>1, <2>2 DEF IInv, TypeOK, history
<1>8. /\ SharesOf'[u] = SharesOf[u] - s
      /\ \A v \in Users \ {u} : SharesOf'[v] = SharesOf[v]
  BY <1>2, <1>3, <1>4 DEF IInv, TypeOK, SharesOf
<1>9. Total(SharesOf)' = Total(SharesOf) - s
  <2> DEFINE f == SharesOf
             g == SharesOf'
  <2>1. f \in [Users -> Nat] /\ g \in [Users -> Nat] /\ Total(f) \in Nat
    BY <1>7, SumsAreNat DEF IInv, TypeOK, SharesOf
  <2>2. g[u] = f[u] - s /\ \A v \in Users \ {u} : g[v] = f[v]
    BY <1>8
  <2> HIDE DEF f, g
  <2>3. Total(g) = Total(f) - f[u] + g[u]
    BY <2>1, <2>2, TotalChange, FiniteUsers
  <2>4. Total(g) = Total(f) - s
    BY <1>4, <2>1, <2>2, <2>3
  <2> QED
    BY <2>4 DEF f, g
<1>10. SharesAddUp' /\ ShareWorthAtLeastOne'
  BY <1>2, <1>3, <1>4, <1>5, <1>9 DEF SharesAddUp, ShareWorthAtLeastOne
<1>11. CashConserved' /\ ActiveLiqIsOut'
  <2>1. /\ Total(keeperDraw) \in Nat /\ usdc[VaultAddr] \in Nat
        /\ writtenOff \in Nat /\ windfall \in Nat
    BY <1>1, <1>3, SumsAreNat DEF IInv, TypeOK
  <2>2. /\ UNCHANGED <<active_liq, keeperDraw, writtenOff, windfall>>
        /\ total_usdc' = total_usdc - out
    BY <1>2 DEF history
  <2> QED
    BY <1>4, <1>5, <1>6, <2>1, <2>2 DEF IInv, CashConserved, ActiveLiqIsOut
<1>12. DrawsTracked' /\ Uninitialized'
  BY <1>2 DEF IInv, DrawsTracked, Uninitialized, registryVars, history
<1>13. StakesInv' /\ CreditBacked'
  <2>1. StakesInv'
    BY <1>1, <1>2, <1>6, StakesStand DEF IInv, TypeOK, RegistryTypeOK, registryVars
  <2> QED
    BY <1>2, <2>1 DEF IInv, CreditBacked, CreditOf, registryVars
<1> QED
  BY <1>7, <1>10, <1>11, <1>12, <1>13 DEF IInv

\* What the registry's three functions for the vault, and slash, do to the
\* record of a keeper.
LEMMA MarkedFields ==
  ASSUME NEW i \in KeeperInfo, now \in Nat
  PROVE  /\ Marked(i) \in KeeperInfo
         /\ Marked(i).stake = i.stake
         /\ Marked(i).total_profit = i.total_profit
         /\ Marked(i).has_active_draw
BY DEF Marked, KeeperInfo

LEMMA ClearedFields ==
  ASSUME NEW i \in KeeperInfo
  PROVE  /\ Cleared(i) \in KeeperInfo
         /\ Cleared(i).stake = i.stake
         /\ Cleared(i).total_profit = i.total_profit
         /\ ~Cleared(i).has_active_draw
BY DEF Cleared, KeeperInfo

LEMMA ExecutedFields ==
  ASSUME NEW i \in KeeperInfo, NEW profit \in Nat, NEW ms \in Nat
  PROVE  LET j == Executed(i, TRUE, profit, ms)
         IN  /\ j \in KeeperInfo
             /\ j.stake = i.stake
             /\ j.total_profit = i.total_profit + profit
             /\ j.has_active_draw = i.has_active_draw
<1>1. \A a \in 0 .. U64Max, b \in Nat : SaturatingAdd(a, b) \in 0 .. U64Max
  BY RegistryAssumption DEF SaturatingAdd
<1>2. /\ i.total_executions \in 0 .. U64Max /\ i.successful_fills \in 0 .. U64Max
      /\ i.total_response_time_ms \in 0 .. U64Max
      /\ i.response_count \in 0 .. U64Max /\ i.total_profit \in Nat
  BY DEF KeeperInfo
<1> DEFINE te == SaturatingAdd(i.total_executions, 1)
           sf == SaturatingAdd(i.successful_fills, 1)
           rt == SaturatingAdd(i.total_response_time_ms, ms)
           rc == SaturatingAdd(i.response_count, 1)
           tp == i.total_profit + profit
           j == [i EXCEPT !.total_executions = te, !.successful_fills = sf,
                          !.total_profit = tp, !.total_response_time_ms = rt,
                          !.response_count = rc]
<1>3. /\ te \in 0 .. U64Max /\ sf \in 0 .. U64Max /\ rt \in 0 .. U64Max
      /\ rc \in 0 .. U64Max /\ tp \in Nat
  <2>1. te \in 0 .. U64Max
    BY <1>1, <1>2
  <2>2. sf \in 0 .. U64Max
    BY <1>1, <1>2
  <2>3. rt \in 0 .. U64Max
    BY <1>1, <1>2
  <2>4. rc \in 0 .. U64Max
    BY <1>1, <1>2
  <2>5. tp \in Nat
    BY <1>2
  <2> QED
    BY <2>1, <2>2, <2>3, <2>4, <2>5
<1>4. Executed(i, TRUE, profit, ms) = j
  BY DEF Executed
<1> HIDE DEF te, sf, rt, rc, tp
<1>5. /\ j \in KeeperInfo /\ j.stake = i.stake /\ j.total_profit = tp
      /\ j.has_active_draw = i.has_active_draw
  BY <1>3 DEF KeeperInfo
<1>6. QED
  BY <1>4, <1>5 DEF tp

\* draw, with mark_draw
LEMMA DrawPreserves ==
  ASSUME IInv, NEW k \in Keepers, NEW amount \in Int, Draw(k, amount)
  PROVE  IInv'
<1>1. /\ k \in Accounts /\ VaultAddr \in Accounts /\ RegistryAddr \in Accounts
      /\ k # VaultAddr /\ k # RegistryAddr /\ VaultAddr # RegistryAddr
  BY RegistryAssumption
<1>2. /\ CanTransfer(usdc, VaultAddr, amount)
      /\ usdc' = Transfer(usdc, VaultAddr, k, amount)
      /\ keeperDraw' = [keeperDraw EXCEPT ![k] = @ + amount]
      /\ active_liq' = active_liq + amount
      /\ vconfig # NoConfig /\ k \in DOMAIN info
      /\ IF amount > 0
         THEN info' = [info EXCEPT ![k] = Marked(@)] /\ slashed' = slashed \ {k}
         ELSE UNCHANGED <<info, slashed>>
      /\ UNCHANGED <<now, rconfig, paused, keeperList, keeperCount,
                     vconfig, total_usdc, total_shares, total_profit, depositors,
                     windfall, writtenOff>>
  BY DEF Draw, DrawAllowed
<1>3. amount \in Nat
  BY <1>2 DEF CanTransfer
<1>4. /\ usdc' \in [Accounts -> Nat]
      /\ usdc'[VaultAddr] = usdc[VaultAddr] - amount
      /\ usdc'[RegistryAddr] = usdc[RegistryAddr]
  <2>1. usdc \in [Accounts -> Nat]
    BY DEF IInv, TypeOK, RegistryTypeOK
  <2> QED
    BY <1>1, <1>2, <1>3, <2>1, TransferMoves
<1>5. /\ DOMAIN info' = DOMAIN info
      /\ info' \in [DOMAIN info -> KeeperInfo]
      /\ \A j \in DOMAIN info :
           /\ info'[j].stake = info[j].stake
           /\ info'[j].total_profit = info[j].total_profit
           /\ (j # k \/ amount = 0) => info'[j] = info[j]
      /\ amount > 0 => info'[k].has_active_draw
  <2>1. info \in [DOMAIN info -> KeeperInfo] /\ now \in Nat
    BY RegistryAssumption DEF IInv, TypeOK, RegistryTypeOK
  <2>2. CASE amount > 0
    <3>1. /\ Marked(info[k]) \in KeeperInfo
          /\ Marked(info[k]).stake = info[k].stake
          /\ Marked(info[k]).total_profit = info[k].total_profit
          /\ Marked(info[k]).has_active_draw
      BY <1>2, <2>1, MarkedFields
    <3>2. info' = [info EXCEPT ![k] = Marked(info[k])]
      BY <1>2, <2>2
    <3> QED
      BY <1>2, <2>1, <2>2, <3>1, <3>2
  <2>3. CASE amount = 0
    BY <1>2, <2>1, <2>3
  <2> QED
    BY <1>3, <2>2, <2>3
<1>6. /\ keeperDraw \in [Keepers -> Nat] /\ keeperDraw' \in [Keepers -> Nat]
      /\ keeperDraw'[k] = keeperDraw[k] + amount
      /\ \A j \in Keepers \ {k} : keeperDraw'[j] = keeperDraw[j]
  BY <1>2, <1>3 DEF IInv, TypeOK
<1>7. Total(keeperDraw') = Total(keeperDraw) + amount /\ Total(keeperDraw) \in Nat
  BY <1>3, <1>6, TotalChange, UnitsFinite, FiniteKeepers
<1>8. TypeOK'
  <2>1. RegistryTypeOK'
    BY <1>2, <1>4, <1>5 DEF IInv, TypeOK, RegistryTypeOK
  <2> QED
    BY <1>2, <1>3, <1>6, <2>1 DEF IInv, TypeOK
<1>9. SharesAddUp' /\ ShareWorthAtLeastOne'
  BY <1>2 DEF IInv, SharesAddUp, ShareWorthAtLeastOne, SharesOf
<1>10. CashConserved' /\ ActiveLiqIsOut'
  BY <1>1, <1>2, <1>3, <1>4, <1>7
     DEF IInv, TypeOK, RegistryTypeOK, CashConserved, ActiveLiqIsOut
<1>11. DrawsTracked' /\ Uninitialized'
  BY <1>2, <1>3, <1>5, <1>6 DEF IInv, TypeOK, DrawsTracked, Uninitialized
<1>12. StakesInv' /\ CreditBacked'
  <2>1. \A j \in Keepers :
          (IF j \in DOMAIN info' THEN info'[j].total_profit ELSE 0)
            = (IF j \in DOMAIN info THEN info[j].total_profit ELSE 0)
    BY <1>5
  <2>2. CreditOf' = CreditOf
    BY <2>1, Zenon DEF CreditOf
  <2>3. usdc'[RegistryAddr] >= usdc[RegistryAddr]
    BY <1>1, <1>4 DEF IInv, TypeOK, RegistryTypeOK
  <2>4. StakesInv'
    BY <1>4, <1>5, <2>3, StakesStand DEF IInv, TypeOK
  <2> QED
    BY <1>2, <2>2, <2>4 DEF IInv, CreditBacked
<1> QED
  BY <1>8, <1>9, <1>10, <1>11, <1>12 DEF IInv

\* return_proceeds, with clear_draw and record_execution
LEMMA ReturnProceedsPreserves ==
  ASSUME IInv, NEW k \in Keepers, NEW amount \in Int,
         NEW ms \in Nat, ReturnProceeds(k, amount, ms)
  PROVE  IInv'
<1> DEFINE drawn == keeperDraw[k]
           repay == RepayOf(amount, active_liq)
           profit == ProfitOf(amount, drawn)
           lost == IF amount < drawn THEN drawn - amount ELSE 0
<1>1. /\ k \in Accounts /\ VaultAddr \in Accounts /\ RegistryAddr \in Accounts
      /\ k # VaultAddr /\ k # RegistryAddr /\ VaultAddr # RegistryAddr
  BY RegistryAssumption
<1>2. /\ CanTransfer(usdc, k, amount)
      /\ usdc' = Transfer(usdc, k, VaultAddr, amount)
      /\ active_liq' = active_liq - repay
      /\ total_usdc' = total_usdc + profit
      /\ total_profit' = total_profit + profit
      /\ IF drawn > 0
         THEN /\ k \in DOMAIN info
              /\ keeperDraw' = [keeperDraw EXCEPT ![k] = 0]
              /\ info' = [info EXCEPT ![k] =
                            Executed(Cleared(@), TRUE, profit, ms)]
              /\ slashed' = slashed \ {k}
              /\ writtenOff' = writtenOff + lost
         ELSE UNCHANGED <<keeperDraw, info, slashed, writtenOff>>
      /\ vconfig # NoConfig
      /\ UNCHANGED <<now, rconfig, paused, keeperList, keeperCount,
                     vconfig, total_shares, depositors, windfall>>
  BY DEF ReturnProceeds, ReturnAllowed
<1>3. /\ amount \in Nat /\ ms \in Nat
      /\ drawn \in Nat /\ active_liq \in Nat
      /\ keeperDraw \in [Keepers -> Nat]
      /\ total_usdc \in Nat /\ total_profit \in Nat /\ total_shares \in Nat
      /\ writtenOff \in Nat /\ windfall \in Nat
      /\ info \in [DOMAIN info -> KeeperInfo]
      /\ usdc \in [Accounts -> Nat]
  BY <1>2, VaultAssumption DEF IInv, TypeOK, RegistryTypeOK, CanTransfer
<1>4. /\ repay \in Nat /\ active_liq - repay \in Nat
      /\ repay = active_liq \/ (repay = amount /\ amount < active_liq)
  BY <1>3 DEF RepayOf
<1>5. /\ profit \in Nat /\ lost \in Nat
      /\ drawn > 0 => amount - drawn + lost = profit
      /\ drawn = 0 => amount = profit
      /\ lost + amount >= drawn
  BY <1>3 DEF ProfitOf
<1> HIDE DEF repay, profit, lost
<1>6. /\ usdc' \in [Accounts -> Nat]
      /\ usdc'[VaultAddr] = usdc[VaultAddr] + amount
      /\ usdc'[RegistryAddr] = usdc[RegistryAddr]
  BY <1>1, <1>2, <1>3, TransferMoves
<1>7. SharesAddUp' /\ ShareWorthAtLeastOne'
  BY <1>2, <1>3, <1>5 DEF IInv, SharesAddUp, ShareWorthAtLeastOne, SharesOf
<1>8. Uninitialized'
  BY <1>2 DEF Uninitialized
<1>9. Total(keeperDraw) \in Nat /\ Total(CreditOf) \in Nat
  BY SumsAreNat DEF IInv
<1>10. usdc[VaultAddr] \in Nat /\ usdc[VaultAddr] + Total(keeperDraw) + writtenOff
         = total_usdc + windfall
  BY <1>1, <1>3 DEF IInv, CashConserved
<1>11. active_liq <= Total(keeperDraw) + writtenOff
  BY DEF IInv, ActiveLiqIsOut
<1>12. CASE drawn = 0
  <2>1. UNCHANGED <<keeperDraw, info, slashed, writtenOff>>
    BY <1>2, <1>12
  <2>2. TypeOK'
    BY <1>2, <1>3, <1>4, <1>5, <1>6, <2>1 DEF IInv, TypeOK, RegistryTypeOK
  <2>3. CashConserved' /\ ActiveLiqIsOut'
    BY <1>2, <1>3, <1>4, <1>5, <1>6, <1>9, <1>10, <1>11, <1>12, <2>1
       DEF CashConserved, ActiveLiqIsOut
  <2>4. DrawsTracked'
    BY <2>1 DEF IInv, DrawsTracked
  <2>5. StakesInv' /\ CreditBacked'
    <3>1. StakesInv'
      BY <1>1, <1>3, <1>6, <2>1, StakesStand DEF IInv, TypeOK
    <3>2. CreditBacked'
      BY <1>2, <1>3, <1>5, <1>9, <2>1 DEF IInv, CreditBacked, CreditOf
    <3> QED
      BY <3>1, <3>2
  <2> QED
    BY <1>7, <1>8, <2>2, <2>3, <2>4, <2>5 DEF IInv
<1>13. CASE drawn > 0
  <2> DEFINE r == Executed(Cleared(info[k]), TRUE, profit, ms)
  <2>1. /\ k \in DOMAIN info
        /\ keeperDraw' = [keeperDraw EXCEPT ![k] = 0]
        /\ info' = [info EXCEPT ![k] = r]
        /\ slashed' = slashed \ {k}
        /\ writtenOff' = writtenOff + lost
    BY <1>2, <1>13
  <2>2. /\ r \in KeeperInfo /\ r.stake = info[k].stake
        /\ r.total_profit = info[k].total_profit + profit
        /\ ~r.has_active_draw
    <3>1. info[k] \in KeeperInfo
      BY <1>3, <2>1
    <3> DEFINE c == Cleared(info[k])
    <3>2. /\ c \in KeeperInfo /\ c.stake = info[k].stake
          /\ c.total_profit = info[k].total_profit /\ ~c.has_active_draw
      BY <3>1, ClearedFields
    <3> HIDE DEF c
    <3>3. c \in KeeperInfo /\ profit \in Nat /\ ms \in Nat
      BY <1>3, <1>5, <3>2
    <3>4. /\ r \in KeeperInfo /\ r.stake = c.stake
          /\ r.total_profit = c.total_profit + profit
          /\ r.has_active_draw = c.has_active_draw
      BY ONLY <3>3, ExecutedFields, Zenon DEF c, r
    <3> QED
      BY <3>2, <3>4
  <2> HIDE DEF r
  <2>3. /\ DOMAIN info' = DOMAIN info /\ info' \in [DOMAIN info -> KeeperInfo]
        /\ info'[k] = r
        /\ \A j \in DOMAIN info \ {k} : info'[j] = info[j]
    BY <1>3, <2>1, <2>2
  <2>4. /\ keeperDraw' \in [Keepers -> Nat] /\ keeperDraw'[k] = 0
        /\ \A j \in Keepers \ {k} : keeperDraw'[j] = keeperDraw[j]
    BY <1>3, <2>1
  <2>5. Total(keeperDraw') = Total(keeperDraw) - drawn
    <3>1. Total(keeperDraw') = Total(keeperDraw) - keeperDraw[k] + keeperDraw'[k]
      BY <1>3, <2>4, TotalChange, FiniteKeepers
    <3> QED
      BY <1>3, <1>9, <2>4, <3>1
  <2>6. Total(keeperDraw') \in Nat
    BY <2>4, UnitsFinite, FiniteKeepers
  <2>7. TypeOK'
    <3>1. RegistryTypeOK'
      BY <1>2, <1>6, <2>3 DEF IInv, TypeOK, RegistryTypeOK
    <3>2. writtenOff' \in Nat /\ slashed' \in SUBSET Keepers
      BY <1>3, <1>5, <2>1 DEF IInv, TypeOK
    <3> QED
      BY <1>2, <1>3, <1>4, <1>5, <2>4, <3>1, <3>2 DEF IInv, TypeOK
  <2> HIDE DEF drawn
  <2>8. CashConserved'
    BY <1>2, <1>3, <1>5, <1>6, <1>9, <1>10, <1>13, <2>1, <2>5 DEF CashConserved
  <2>9. ActiveLiqIsOut'
    BY <1>2, <1>3, <1>4, <1>5, <1>9, <1>11, <2>1, <2>5, <2>6 DEF ActiveLiqIsOut
  <2>10. DrawsTracked'
    BY <2>1, <2>2, <2>3, <2>4 DEF IInv, DrawsTracked
  <2>11. StakesInv'
    <3>1. /\ usdc'[RegistryAddr] >= usdc[RegistryAddr]
          /\ \A j \in DOMAIN info : info'[j].stake = info[j].stake
      BY <1>1, <1>3, <1>6, <2>2, <2>3
    <3> QED
      BY <1>6, <2>3, <3>1, StakesStand DEF IInv, TypeOK
  <2>12. CreditBacked'
    <3> DEFINE f == CreditOf
               g == CreditOf'
    <3>1. f \in [Keepers -> Nat] /\ g \in [Keepers -> Nat]
      BY <2>7, SumsAreNat DEF IInv, TypeOK, RegistryTypeOK, CreditOf, KeeperInfo
    <3>2. g[k] = f[k] + profit /\ \A j \in Keepers \ {k} : g[j] = f[j]
      BY <2>1, <2>2, <2>3 DEF CreditOf
    <3> HIDE DEF f, g
    <3>3. Total(g) = Total(f) - f[k] + g[k]
      BY <3>1, <3>2, TotalChange, FiniteKeepers
    <3>4. f[k] \in Nat /\ Total(f) \in Nat
      BY <3>1, UnitsFinite, FiniteKeepers
    <3>5. Total(g) = Total(f) + profit
      BY <1>5, <3>2, <3>3, <3>4
    <3>6. Total(f) <= total_profit
      BY DEF IInv, CreditBacked, f
    <3>7. Total(g) <= total_profit'
      BY <1>2, <1>3, <1>5, <3>4, <3>5, <3>6
    <3> QED
      BY <3>7 DEF CreditBacked, g
  <2> QED
    BY <1>7, <1>8, <2>7, <2>8, <2>9, <2>10, <2>11, <2>12 DEF IInv
<1> QED
  BY <1>3, <1>12, <1>13

\* The types of a registry configuration's numbers.
LEMMA ConfigFields ==
  ASSUME NEW c \in RegistryConfigs
  PROVE  /\ c.min_stake \in Int /\ c.slash_rate_bps \in Nat
         /\ RatesWithinStake => c.slash_rate_bps <= 10000
BY RegistryAssumption DEF RatesWithinStake

\* slash moves at most the whole stake, at a rate within it.
LEMMA SlashWithinStake ==
  ASSUME NEW stake \in Nat, rconfig \in RegistryConfigs, RatesWithinStake
  PROVE  SlashAmount(stake) \in Nat /\ SlashAmount(stake) <= stake
<1> DEFINE bps == rconfig.slash_rate_bps
           product == stake * bps
<1>1. bps \in Nat /\ bps <= 10000
  BY ConfigFields
<1> HIDE DEF bps
<1>2. product \in Nat /\ product <= 10000 * stake
  BY <1>1, ProductOfNat, ProductMonotone
<1>3. SlashAmount(stake) = Quot(product, 10000)
  BY DEF SlashAmount, bps
<1> HIDE DEF product
<1>4. /\ Quot(product, 10000) \in Nat
      /\ Quot(product, 10000) * 10000 <= product
  BY <1>2, QuotOfNat
<1> QED
  BY <1>2, <1>3, <1>4

\* slash, called by anyone
LEMMA SlashKeeperPreserves ==
  ASSUME IInv, NEW k \in Keepers, SlashKeeper(k)
  PROVE  IInv'
<1> DEFINE amount == SlashAmount(info[k].stake)
<1>1. /\ VaultAddr \in Accounts /\ RegistryAddr \in Accounts
      /\ VaultAddr # RegistryAddr
  BY RegistryAssumption
<1>2. /\ k \in DOMAIN info /\ rconfig # NoConfig
      /\ IF amount > 0
         THEN /\ CanTransfer(usdc, RegistryAddr, amount)
              /\ usdc' = Transfer(usdc, RegistryAddr, VaultAddr, amount)
              /\ info' = [info EXCEPT ![k] = Slashed(info[k], amount)]
         ELSE /\ info' = [info EXCEPT ![k] = Cleared(info[k])]
              /\ UNCHANGED usdc
      /\ windfall' = windfall + (usdc'[VaultAddr] - usdc[VaultAddr])
      /\ slashed' = slashed \cup {k}
      /\ UNCHANGED <<now, rconfig, paused, keeperList, keeperCount>>
      /\ UNCHANGED <<vaultVars, writtenOff>>
  BY DEF SlashKeeper, Slash
<1>3. /\ info \in [DOMAIN info -> KeeperInfo] /\ info[k] \in KeeperInfo
      /\ info[k].stake \in Int
      /\ usdc \in [Accounts -> Nat] /\ windfall \in Nat
      /\ rconfig \in RegistryConfigs
  BY <1>2 DEF IInv, TypeOK, RegistryTypeOK, KeeperInfo
<1>4. /\ amount \in Int
      /\ (RatesWithinStake /\ info[k].stake >= 0) =>
           amount >= 0 /\ amount <= info[k].stake
  <2>1. amount \in Int
    <3>1. rconfig.slash_rate_bps \in Nat
      BY <1>3, ConfigFields
    <3>2. info[k].stake * rconfig.slash_rate_bps \in Int
      BY <1>3, <3>1
    <3> QED
      BY <3>2 DEF SlashAmount, Quot
  <2>2. ASSUME RatesWithinStake, info[k].stake >= 0
        PROVE  amount >= 0 /\ amount <= info[k].stake
    BY <1>3, <2>2, SlashWithinStake
  <2> QED
    BY <2>1, <2>2
<1> DEFINE paid == IF amount > 0 THEN amount ELSE 0
<1>5. /\ paid \in Nat
      /\ amount > 0 => paid = amount
      /\ ~(amount > 0) => paid = 0
      /\ (RatesWithinStake /\ info[k].stake >= 0) => paid <= info[k].stake
  BY <1>3, <1>4
<1> HIDE DEF amount, paid
<1>6. /\ usdc' \in [Accounts -> Nat]
      /\ usdc'[VaultAddr] = usdc[VaultAddr] + paid
      /\ usdc'[RegistryAddr] = usdc[RegistryAddr] - paid
  <2>1. CASE amount > 0
    BY <1>1, <1>2, <1>3, <1>4, <1>5, <2>1, TransferMoves
  <2>2. CASE ~(amount > 0)
    BY <1>1, <1>2, <1>3, <1>5, <2>2
  <2> QED
    BY <2>1, <2>2
<1>7. PICK r \in KeeperInfo : /\ info' = [info EXCEPT ![k] = r]
                              /\ r.stake = info[k].stake - paid
                              /\ r.total_profit = info[k].total_profit
                              /\ ~r.has_active_draw
  <2> DEFINE c == Cleared(info[k])
  <2>1. /\ c \in KeeperInfo /\ c.stake = info[k].stake
        /\ c.total_profit = info[k].total_profit /\ ~c.has_active_draw
    BY <1>3, ClearedFields
  <2>2. Slashed(info[k], amount) = [c EXCEPT !.stake = c.stake - amount]
    BY DEF Slashed
  <2> HIDE DEF c
  <2>3. CASE amount > 0
    <3>1. info' = [info EXCEPT ![k] = [c EXCEPT !.stake = c.stake - paid]]
      BY <1>2, <1>5, <2>2, <2>3
    <3> DEFINE d == [c EXCEPT !.stake = c.stake - paid]
    <3>2. /\ d \in KeeperInfo /\ d.stake = c.stake - paid
          /\ d.total_profit = c.total_profit
          /\ d.has_active_draw = c.has_active_draw
      BY <1>3, <1>5, <2>1 DEF KeeperInfo
    <3> HIDE DEF d
    <3>3. info' = [info EXCEPT ![k] = d]
      BY <3>1 DEF d
    <3> QED
      BY <2>1, <3>2, <3>3
  <2>4. CASE ~(amount > 0)
    <3>1. info' = [info EXCEPT ![k] = c]
      BY <1>2, <2>4 DEF c
    <3>2. c.stake = info[k].stake - paid
      BY <1>3, <1>5, <2>1, <2>4
    <3> QED
      BY <2>1, <3>1, <3>2, Zenon
  <2> QED
    BY <2>3, <2>4
<1>8. /\ DOMAIN info' = DOMAIN info /\ info' \in [DOMAIN info -> KeeperInfo]
      /\ info'[k] = r
      /\ \A j \in DOMAIN info \ {k} : info'[j] = info[j]
  BY <1>2, <1>3, <1>7
<1>9. windfall' = windfall + paid
  BY <1>1, <1>2, <1>3, <1>5, <1>6
<1>10. TypeOK'
  <2>1. RegistryTypeOK'
    BY <1>2, <1>6, <1>8 DEF IInv, TypeOK, RegistryTypeOK
  <2> QED
    BY <1>2, <1>3, <1>5, <1>9, <2>1 DEF IInv, TypeOK, vaultVars, state
<1>11. SharesAddUp' /\ ShareWorthAtLeastOne' /\ Uninitialized'
  BY <1>2 DEF IInv, SharesAddUp, ShareWorthAtLeastOne, SharesOf, Uninitialized,
              vaultVars, state
<1>12. CashConserved' /\ ActiveLiqIsOut'
  <2>1. Total(keeperDraw) \in Nat
    BY SumsAreNat DEF IInv
  <2> QED
    BY <1>1, <1>2, <1>3, <1>5, <1>6, <1>9, <2>1
       DEF IInv, TypeOK, CashConserved, ActiveLiqIsOut, vaultVars, state
<1>13. DrawsTracked'
  BY <1>2, <1>7, <1>8 DEF IInv, DrawsTracked, vaultVars
<1>14. StakesInv'
  <2> SUFFICES ASSUME RatesWithinStake PROVE StakesBacked'
    BY DEF StakesInv, RatesWithinStake
  <2>1. /\ StakesBacked /\ info[k].stake >= 0 /\ paid <= info[k].stake
        /\ RegistryTypeOK
    BY <1>2, <1>5 DEF IInv, TypeOK, StakesInv, StakesBacked
  <2>2. \A j \in DOMAIN info' : info'[j].stake >= 0
    BY <1>3, <1>5, <1>7, <1>8, <2>1 DEF StakesBacked
  <2> DEFINE f == StakeOf
             g == StakeOf'
  <2>3. f \in [Keepers -> Nat] /\ Total(f) \in Nat
    BY <2>1, StakesAreNat
  <2>4. g[k] = f[k] - paid /\ \A j \in Keepers \ {k} : g[j] = f[j]
    BY <1>2, <1>7, <1>8 DEF StakeOf
  <2>5. g \in [Keepers -> Nat]
    <3>1. f[k] = info[k].stake
      BY <1>2 DEF StakeOf
    <3>2. f[k] - paid \in Nat
      BY <1>3, <1>5, <2>1, <3>1
    <3>3. \A j \in Keepers : g[j] \in Nat
      <4> HIDE DEF f, g
      <4> QED
        BY <2>3, <2>4, <3>2
    <3>4. g = [j \in Keepers |-> g[j]]
      BY DEF StakeOf
    <3> HIDE DEF g
    <3> QED
      BY <3>3, <3>4
  <2> HIDE DEF f, g
  <2>6. Total(g) = Total(f) - f[k] + g[k]
    BY <2>3, <2>4, <2>5, TotalChange, FiniteKeepers
  <2>7. Total(g) = Total(f) - paid
    BY <1>5, <2>3, <2>4, <2>5, <2>6
  <2>8. usdc[RegistryAddr] >= Total(f)
    BY <2>1 DEF StakesBacked, f
  <2>9. usdc'[RegistryAddr] >= Total(g)
    BY <1>1, <1>3, <1>5, <1>6, <2>3, <2>7, <2>8
  <2> QED
    BY <2>2, <2>9 DEF StakesBacked, g
<1>15. CreditBacked'
  <2>1. \A j \in Keepers :
          (IF j \in DOMAIN info' THEN info'[j].total_profit ELSE 0)
            = (IF j \in DOMAIN info THEN info[j].total_profit ELSE 0)
    BY <1>7, <1>8
  <2>2. CreditOf' = CreditOf
    BY <2>1, Zenon DEF CreditOf
  <2> QED
    BY <1>2, <2>2 DEF IInv, CreditBacked, vaultVars, state
<1> QED
  BY <1>10, <1>11, <1>12, <1>13, <1>14, <1>15 DEF IInv

\* register
LEMMA RegisterPreserves ==
  ASSUME IInv, NEW k \in Keepers, Register(k), UNCHANGED <<vaultVars, history>>
  PROVE  IInv'
<1> DEFINE stake == rconfig.min_stake
<1>1. /\ VaultAddr \in Accounts /\ RegistryAddr \in Accounts /\ k \in Accounts
      /\ VaultAddr # RegistryAddr /\ k # RegistryAddr /\ k # VaultAddr
  BY RegistryAssumption
<1>2. /\ k \notin DOMAIN info /\ rconfig # NoConfig /\ stake > 0
      /\ CanTransfer(usdc, k, stake)
      /\ usdc' = Transfer(usdc, k, RegistryAddr, stake)
      /\ info' = Put(info, k, NewKeeper(stake))
      /\ keeperCount' = keeperCount + 1
      /\ UNCHANGED <<now, rconfig, paused>>
      /\ UNCHANGED <<vaultVars, history>>
  BY DEF Register, RegisterAllowed
<1>3. /\ info \in [DOMAIN info -> KeeperInfo] /\ DOMAIN info \subseteq Keepers
      /\ usdc \in [Accounts -> Nat] /\ rconfig \in RegistryConfigs
  BY <1>2 DEF IInv, TypeOK, RegistryTypeOK
<1>4. stake \in Nat
  BY <1>2, <1>3, ConfigFields
<1> HIDE DEF stake
<1> DEFINE r == NewKeeper(stake)
<1>5. /\ r \in KeeperInfo /\ r.stake = stake /\ r.total_profit = 0
      /\ r.has_active_draw = FALSE
  BY <1>4, RegistryAssumption DEF NewKeeper, KeeperInfo
<1> HIDE DEF r
<1>6. /\ DOMAIN info' = DOMAIN info \cup {k}
      /\ info' \in [DOMAIN info' -> KeeperInfo]
      /\ info'[k] = r
      /\ \A j \in DOMAIN info : info'[j] = info[j]
  BY <1>2, <1>3, <1>5 DEF Put, r
<1>7. /\ usdc' \in [Accounts -> Nat]
      /\ usdc'[VaultAddr] = usdc[VaultAddr]
      /\ usdc'[RegistryAddr] = usdc[RegistryAddr] + stake
  BY <1>1, <1>2, <1>3, <1>4, TransferMoves
<1>8. TypeOK'
  <2>1. RegistryTypeOK'
    BY <1>2, <1>3, <1>6, <1>7 DEF IInv, TypeOK, RegistryTypeOK
  <2> QED
    BY <1>2, <2>1 DEF IInv, TypeOK, vaultVars, state, history
<1>9. SharesAddUp' /\ ShareWorthAtLeastOne' /\ Uninitialized'
  BY <1>2 DEF IInv, SharesAddUp, ShareWorthAtLeastOne, SharesOf, Uninitialized,
              vaultVars, state
<1>10. CashConserved' /\ ActiveLiqIsOut'
  BY <1>2, <1>7 DEF IInv, CashConserved, ActiveLiqIsOut, vaultVars, state, history
<1>11. DrawsTracked'
  BY <1>2, <1>5, <1>6 DEF IInv, DrawsTracked, vaultVars, history
<1>12. StakesInv'
  <2> SUFFICES ASSUME RatesWithinStake PROVE StakesBacked'
    BY DEF StakesInv, RatesWithinStake
  <2>8. StakesBacked /\ RegistryTypeOK /\ RegistryTypeOK'
    BY <1>8 DEF IInv, TypeOK, StakesInv
  <2>9. \A j \in DOMAIN info' : info'[j].stake >= 0
    BY <1>4, <1>5, <1>6, <2>8 DEF StakesBacked
  <2> DEFINE f == StakeOf
             g == StakeOf'
  <2>1. f \in [Keepers -> Nat] /\ g \in [Keepers -> Nat]
    <3>1. f \in [Keepers -> Nat]
      BY <2>8, StakesAreNat
    <3>2. \A j \in DOMAIN info' : info'[j].stake \in Nat
      BY <2>8, <2>9 DEF RegistryTypeOK, KeeperInfo
    <3>3. g \in [Keepers -> Nat]
      BY <3>2 DEF StakeOf
    <3> QED
      BY <3>1, <3>3
  <2>2. f[k] = 0 /\ g[k] = stake /\ \A j \in Keepers \ {k} : g[j] = f[j]
    BY <1>2, <1>5, <1>6 DEF StakeOf
  <2> HIDE DEF f, g
  <2>3. Total(g) = Total(f) - f[k] + g[k]
    BY <2>1, <2>2, TotalChange, FiniteKeepers
  <2>4. Total(f) \in Nat
    BY <2>1, UnitsFinite, FiniteKeepers
  <2>5. Total(g) = Total(f) + stake
    BY <1>4, <2>2, <2>3, <2>4
  <2>6. usdc[RegistryAddr] >= Total(f)
    BY <2>8 DEF StakesBacked, f
  <2>7. usdc'[RegistryAddr] >= Total(g)
    BY <1>1, <1>3, <1>4, <1>7, <2>4, <2>5, <2>6
  <2> QED
    BY <2>7, <2>9 DEF StakesBacked, g
<1>13. CreditBacked'
  <2>1. \A j \in Keepers :
          (IF j \in DOMAIN info' THEN info'[j].total_profit ELSE 0)
            = (IF j \in DOMAIN info THEN info[j].total_profit ELSE 0)
    BY <1>2, <1>5, <1>6
  <2>2. CreditOf' = CreditOf
    BY <2>1, Zenon DEF CreditOf
  <2> QED
    BY <1>2, <2>2 DEF IInv, CreditBacked, vaultVars, state
<1> QED
  BY <1>8, <1>9, <1>10, <1>11, <1>12, <1>13 DEF IInv

\* deregister
LEMMA DeregisterPreserves ==
  ASSUME IInv, NEW k \in Keepers, Deregister(k),
         UNCHANGED <<vaultVars, history>>
  PROVE  IInv'
<1> DEFINE stake == info[k].stake
<1>1. /\ VaultAddr \in Accounts /\ RegistryAddr \in Accounts /\ k \in Accounts
      /\ VaultAddr # RegistryAddr /\ k # RegistryAddr /\ k # VaultAddr
  BY RegistryAssumption
<1>2. /\ k \in DOMAIN info /\ rconfig # NoConfig /\ ~info[k].has_active_draw
      /\ IF stake > 0
         THEN /\ CanTransfer(usdc, RegistryAddr, stake)
              /\ usdc' = Transfer(usdc, RegistryAddr, k, stake)
         ELSE UNCHANGED usdc
      /\ info' = Remove(info, k)
      /\ keeperCount' = SaturatingSub(keeperCount, 1)
      /\ UNCHANGED <<now, rconfig, paused>>
      /\ UNCHANGED <<vaultVars, history>>
  BY DEF Deregister, DeregisterAllowed, RefundOf
<1>3. /\ info \in [DOMAIN info -> KeeperInfo] /\ DOMAIN info \subseteq Keepers
      /\ usdc \in [Accounts -> Nat] /\ keeperCount \in Nat /\ stake \in Int
  BY <1>2 DEF IInv, TypeOK, RegistryTypeOK, KeeperInfo
<1>4. keeperCount' \in Nat
  BY <1>2, <1>3 DEF SaturatingSub
<1>5. /\ DOMAIN info' = DOMAIN info \ {k}
      /\ info' \in [DOMAIN info' -> KeeperInfo]
      /\ \A j \in DOMAIN info \ {k} : info'[j] = info[j]
  BY <1>2, <1>3 DEF Remove
<1> HIDE DEF stake
<1>6. /\ usdc' \in [Accounts -> Nat]
      /\ usdc'[VaultAddr] = usdc[VaultAddr]
      /\ stake >= 0 => usdc'[RegistryAddr] = usdc[RegistryAddr] - stake
  <2>1. CASE stake > 0
    BY <1>1, <1>2, <1>3, <2>1, TransferMoves
  <2>2. CASE ~(stake > 0)
    BY <1>1, <1>2, <1>3, <2>2
  <2> QED
    BY <1>3, <2>1, <2>2
<1>7. TypeOK'
  <2>1. RegistryTypeOK'
    BY <1>2, <1>3, <1>4, <1>5, <1>6 DEF IInv, TypeOK, RegistryTypeOK
  <2> QED
    BY <1>2, <2>1 DEF IInv, TypeOK, vaultVars, state, history
<1>8. SharesAddUp' /\ ShareWorthAtLeastOne' /\ Uninitialized'
  BY <1>2 DEF IInv, SharesAddUp, ShareWorthAtLeastOne, SharesOf, Uninitialized,
              vaultVars, state
<1>9. CashConserved' /\ ActiveLiqIsOut'
  BY <1>2, <1>6 DEF IInv, CashConserved, ActiveLiqIsOut, vaultVars, state, history
<1>10. DrawsTracked'
  BY <1>2, <1>5 DEF IInv, DrawsTracked, vaultVars, history
<1>11. StakesInv'
  <2> SUFFICES ASSUME RatesWithinStake PROVE StakesBacked'
    BY DEF StakesInv, RatesWithinStake
  <2>8. StakesBacked /\ RegistryTypeOK /\ RegistryTypeOK'
    BY <1>7 DEF IInv, TypeOK, StakesInv
  <2>9. stake >= 0 /\ \A j \in DOMAIN info' : info'[j].stake >= 0
    BY <1>2, <1>5, <2>8 DEF StakesBacked, stake
  <2> DEFINE f == StakeOf
             g == StakeOf'
  <2>1. f \in [Keepers -> Nat] /\ g \in [Keepers -> Nat]
    <3>1. f \in [Keepers -> Nat]
      BY <2>8, StakesAreNat
    <3>2. \A j \in DOMAIN info' : info'[j].stake \in Nat
      BY <2>8, <2>9 DEF RegistryTypeOK, KeeperInfo
    <3>3. g \in [Keepers -> Nat]
      BY <3>2 DEF StakeOf
    <3> QED
      BY <3>1, <3>3
  <2>2. f[k] = stake /\ g[k] = 0 /\ \A j \in Keepers \ {k} : g[j] = f[j]
    BY <1>2, <1>5 DEF StakeOf, stake
  <2> HIDE DEF f, g
  <2>3. Total(g) = Total(f) - f[k] + g[k]
    BY <2>1, <2>2, TotalChange, FiniteKeepers
  <2>4. Total(f) \in Nat
    BY <2>1, UnitsFinite, FiniteKeepers
  <2>5. Total(g) = Total(f) - stake
    BY <1>3, <2>2, <2>3, <2>4
  <2>6. usdc[RegistryAddr] >= Total(f)
    BY <2>8 DEF StakesBacked, f
  <2>7. usdc'[RegistryAddr] >= Total(g)
    BY <1>1, <1>3, <1>6, <2>4, <2>5, <2>6, <2>9
  <2> QED
    BY <2>7, <2>9 DEF StakesBacked, g
<1>12. CreditBacked'
  <2> DEFINE f == CreditOf
             g == CreditOf'
  <2>1. f \in [Keepers -> Nat] /\ g \in [Keepers -> Nat]
    BY <1>7, SumsAreNat DEF IInv, TypeOK, RegistryTypeOK, CreditOf, KeeperInfo
  <2>2. g[k] = 0 /\ \A j \in Keepers \ {k} : g[j] = f[j]
    BY <1>2, <1>5 DEF CreditOf
  <2> HIDE DEF f, g
  <2>3. Total(g) = Total(f) - f[k] + g[k]
    BY <2>1, <2>2, TotalChange, FiniteKeepers
  <2>4. Total(f) \in Nat /\ f[k] \in Nat /\ total_profit \in Nat
    BY <2>1, UnitsFinite, FiniteKeepers DEF IInv, TypeOK
  <2>5. Total(f) <= total_profit
    BY DEF IInv, CreditBacked, f
  <2>6. Total(g) <= total_profit /\ total_profit' = total_profit
    BY <1>2, <2>2, <2>3, <2>4, <2>5 DEF vaultVars, state
  <2> QED
    BY <2>6 DEF CreditBacked, g
<1> QED
  BY <1>7, <1>8, <1>9, <1>10, <1>11, <1>12 DEF IInv

\* USDC that moves without the contracts can only reach them, not leave them.
LEMMA PlainTransferPreserves ==
  ASSUME IInv, NEW route \in Routes, NEW amount \in Amounts,
         PlainTransfer(route[1], route[2], amount)
  PROVE  IInv'
<1> DEFINE from == route[1]
           to == route[2]
           gained == IF to = VaultAddr THEN amount ELSE 0
<1>1. /\ VaultAddr \in Accounts /\ RegistryAddr \in Accounts
      /\ VaultAddr # RegistryAddr
      /\ from \in Accounts /\ from # VaultAddr /\ from # RegistryAddr
      /\ to \in Accounts
  BY RegistryAssumption, VaultAssumption
<1>2. /\ CanTransfer(usdc, from, amount)
      /\ usdc' = Transfer(usdc, from, to, amount)
      /\ windfall' = windfall + gained
      /\ UNCHANGED <<now, registryVars, vaultVars, writtenOff, slashed>>
  BY DEF PlainTransfer
<1> HIDE DEF from, to
<1>3. /\ amount \in Nat /\ gained \in Nat /\ usdc \in [Accounts -> Nat]
      /\ windfall \in Nat
  BY <1>2, VaultAssumption DEF CanTransfer, IInv, TypeOK, RegistryTypeOK
<1>4. /\ usdc' \in [Accounts -> Nat]
      /\ usdc'[VaultAddr] = usdc[VaultAddr] + gained
      /\ usdc'[RegistryAddr] >= usdc[RegistryAddr]
  <2>1. /\ usdc' \in [Accounts -> Nat]
        /\ from # to => usdc'[to] = usdc[to] + amount
        /\ from = to => usdc' = usdc
        /\ \A a \in Accounts \ {from, to} : usdc'[a] = usdc[a]
    BY <1>1, <1>2, <1>3, TransferMoves
  <2>2. usdc'[VaultAddr] = usdc[VaultAddr] + gained
    BY <1>1, <1>3, <2>1
  <2>3. usdc'[RegistryAddr] >= usdc[RegistryAddr]
    BY <1>1, <1>3, <2>1
  <2> QED
    BY <2>1, <2>2, <2>3
<1> HIDE DEF gained
<1>5. TypeOK'
  <2>1. RegistryTypeOK'
    BY <1>2, <1>4 DEF IInv, TypeOK, RegistryTypeOK, registryVars
  <2> QED
    BY <1>2, <1>3, <2>1 DEF IInv, TypeOK, vaultVars, state
<1>6. SharesAddUp' /\ ShareWorthAtLeastOne' /\ Uninitialized' /\ DrawsTracked'
  BY <1>2 DEF IInv, SharesAddUp, ShareWorthAtLeastOne, SharesOf, Uninitialized,
              DrawsTracked, vaultVars, state, registryVars
<1>7. CashConserved' /\ ActiveLiqIsOut'
  BY <1>1, <1>2, <1>3, <1>4, SumsAreNat
     DEF IInv, TypeOK, CashConserved, ActiveLiqIsOut, vaultVars, state
<1>8. StakesInv' /\ CreditBacked'
  <2>1. StakesInv'
    BY <1>2, <1>4, StakesStand DEF IInv, TypeOK, registryVars
  <2> QED
    BY <1>2, <2>1 DEF IInv, CreditBacked, CreditOf, registryVars, vaultVars, state
<1> QED
  BY <1>5, <1>6, <1>7, <1>8 DEF IInv

\* A step that moves no money and changes no record keeps the invariant when
\* it keeps the types and does not uninitialize the vault.
LEMMA MoneyStands ==
  ASSUME IInv, TypeOK', Uninitialized',
         UNCHANGED <<usdc, info, state, depositors, keeperDraw, history>>
  PROVE  IInv'
<1>1. SharesAddUp' /\ ShareWorthAtLeastOne' /\ CashConserved' /\ ActiveLiqIsOut'
  BY DEF IInv, SharesAddUp, ShareWorthAtLeastOne, CashConserved, ActiveLiqIsOut,
         SharesOf, state, history
<1>2. DrawsTracked' /\ StakesInv' /\ CreditBacked'
  BY DEF IInv, DrawsTracked, StakesInv, RatesWithinStake, StakesBacked,
         CreditBacked, StakeOf, CreditOf, state, history
<1> QED
  BY <1>1, <1>2 DEF IInv

\* The administration of the two contracts, and time.
LEMMA AdminPreserves ==
  ASSUME IInv,
         \/ \E c \in VaultConfigs : VaultInitialize(c) \/ VaultSetConfig(c)
         \/ /\ \/ \E c \in RegistryConfigs :
                     RegistryInitialize(c) \/ RegistrySetConfig(c)
               \/ Pause
               \/ Unpause
            /\ UNCHANGED <<vaultVars, history>>
         \/ Tick
  PROVE  IInv'
<1>1. UNCHANGED <<usdc, info, state, depositors, keeperDraw, history>>
  <2>1. CASE \E c \in VaultConfigs : VaultInitialize(c)
    BY <2>1 DEF VaultInitialize, registryVars, state, IInv, Uninitialized
  <2>2. CASE \E c \in VaultConfigs : VaultSetConfig(c)
    BY <2>2 DEF VaultSetConfig, registryVars
  <2>3. CASE /\ \/ \E c \in RegistryConfigs :
                       RegistryInitialize(c) \/ RegistrySetConfig(c)
                \/ Pause
                \/ Unpause
             /\ UNCHANGED <<vaultVars, history>>
    BY <2>3 DEF RegistryInitialize, RegistrySetConfig, Pause, Unpause, vaultVars
  <2>4. CASE Tick
    BY <2>4 DEF Tick, registryVars, vaultVars
  <2> QED
    BY <2>1, <2>2, <2>3, <2>4
<1>2. /\ vconfig' \in VaultConfigs \cup {NoConfig}
      /\ vconfig' = NoConfig => vconfig = NoConfig
  <2>1. vconfig' = vconfig \/ vconfig' \in VaultConfigs
    <3>1. CASE \E c \in VaultConfigs : VaultInitialize(c) \/ VaultSetConfig(c)
      BY <3>1 DEF VaultInitialize, VaultSetConfig
    <3>2. CASE UNCHANGED <<vaultVars, history>> \/ Tick
      BY <3>2 DEF Tick, vaultVars
    <3> QED
      BY <3>1, <3>2
  <2>2. vconfig \in VaultConfigs \cup {NoConfig} /\ NoConfig \notin VaultConfigs
    BY VaultAssumption DEF IInv, TypeOK
  <2> QED
    BY <2>1, <2>2
<1>3. /\ rconfig' \in RegistryConfigs \cup {NoConfig} /\ paused' \in BOOLEAN
      /\ keeperCount' \in Nat
  <2>1. /\ rconfig \in RegistryConfigs \cup {NoConfig} /\ paused \in BOOLEAN
        /\ keeperCount \in Nat
    BY DEF IInv, TypeOK, RegistryTypeOK
  <2>2. CASE \/ \E c \in VaultConfigs : VaultInitialize(c) \/ VaultSetConfig(c)
             \/ Tick
    BY <2>1, <2>2 DEF VaultInitialize, VaultSetConfig, Tick, registryVars
  <2>3. CASE \E c \in RegistryConfigs :
               RegistryInitialize(c) \/ RegistrySetConfig(c)
    BY <2>1, <2>3 DEF RegistryInitialize, RegistrySetConfig
  <2>4. CASE Pause \/ Unpause
    BY <2>1, <2>4 DEF Pause, Unpause
  <2> QED
    BY <2>2, <2>3, <2>4
<1>4. now' \in 0 .. MaxTime
  <2>1. now \in 0 .. MaxTime /\ MaxTime \in Nat
    BY RegistryAssumption DEF IInv, TypeOK, RegistryTypeOK
  <2>2. CASE Tick
    BY <2>1, <2>2 DEF Tick
  <2>3. CASE ~Tick
    <3>1. now' = now
      BY <2>3 DEF VaultInitialize, VaultSetConfig, RegistryInitialize,
                  RegistrySetConfig, Pause, Unpause
    <3> QED
      BY <2>1, <3>1
  <2> QED
    BY <2>2, <2>3
<1>5. TypeOK'
  BY <1>1, <1>2, <1>3, <1>4 DEF IInv, TypeOK, RegistryTypeOK, state, history
<1>6. Uninitialized'
  BY <1>1, <1>2 DEF IInv, Uninitialized, state
<1> QED
  BY <1>1, <1>5, <1>6, MoneyStands

\* The contracts are deployed with nothing in them.
LEMMA InitEstablishes == Init => IInv
<1> SUFFICES ASSUME Init PROVE IInv
  OBVIOUS
<1>1. TypeOK
  <2>1. usdc \in [Accounts -> Nat]
    BY VaultAssumption DEF Init
  <2>2. now \in 0 .. MaxTime
    BY RegistryAssumption DEF Init
  <2>3. DOMAIN info = {} /\ DOMAIN depositors = {}
    BY DEF Init, RegistryInit, VaultInit, EmptyStore
  <2>4. /\ info \in [DOMAIN info -> KeeperInfo]
        /\ depositors \in
             [DOMAIN depositors -> [shares : Nat, last_deposit_time : Nat]]
    BY <2>3 DEF Init, RegistryInit, VaultInit, EmptyStore
  <2> QED
    BY <2>1, <2>2, <2>3, <2>4
       DEF Init, RegistryInit, VaultInit, TypeOK, RegistryTypeOK
<1>2. /\ Total(SharesOf) = 0 /\ Total(StakeOf) = 0
      /\ Total(CreditOf) = 0 /\ Total(keeperDraw) = 0
  <2>1. DOMAIN info = {} /\ DOMAIN depositors = {}
    BY DEF Init, RegistryInit, VaultInit, EmptyStore
  <2>2. \A u \in Users : SharesOf[u] = 0
    BY <2>1 DEF SharesOf
  <2>3. \A k \in Keepers : StakeOf[k] = 0 /\ CreditOf[k] = 0
    BY <2>1 DEF StakeOf, CreditOf
  <2>4. \A k \in Keepers : keeperDraw[k] = 0
    BY DEF Init, VaultInit
  <2>5. /\ SharesOf \in [Users -> Nat] /\ StakeOf \in [Keepers -> Nat]
        /\ CreditOf \in [Keepers -> Nat] /\ keeperDraw \in [Keepers -> Nat]
    BY <1>1, <2>1, SumsAreNat DEF TypeOK, StakeOf
  <2> QED
    BY <2>2, <2>3, <2>4, <2>5, TotalOfNothing
<1>3. usdc[VaultAddr] = 0 /\ usdc[RegistryAddr] = 0
  BY RegistryAssumption DEF Init
<1>4. SharesAddUp /\ ShareWorthAtLeastOne /\ Uninitialized
  BY <1>2 DEF Init, VaultInit, SharesAddUp, ShareWorthAtLeastOne, Uninitialized
<1>5. CashConserved /\ ActiveLiqIsOut /\ StakesInv /\ CreditBacked
  BY <1>2, <1>3 DEF Init, RegistryInit, VaultInit, EmptyStore, CashConserved,
                    ActiveLiqIsOut, StakesInv, StakesBacked, CreditBacked
<1>6. DrawsTracked
  BY DEF Init, RegistryInit, VaultInit, EmptyStore, DrawsTracked
<1> QED
  BY <1>1, <1>4, <1>5, <1>6 DEF IInv

\* Every call keeps the invariant.
LEMMA StepPreserves == IInv /\ [Next]_vars => IInv'
<1> SUFFICES ASSUME IInv, [Next]_vars PROVE IInv'
  OBVIOUS
<1>1. CASE DepositorCall
  BY <1>1, VaultAssumption, DepositPreserves, WithdrawPreserves
     DEF DepositorCall
<1>2. CASE KeeperCall
  BY <1>2, VaultAssumption, DrawPreserves, ReturnProceedsPreserves
     DEF KeeperCall
<1>3. CASE RegistryCall
  <2>1. CASE \E k \in Keepers : Register(k)
    BY <1>3, <2>1, RegisterPreserves DEF RegistryCall
  <2>2. CASE \E k \in Keepers : Deregister(k)
    BY <1>3, <2>2, DeregisterPreserves DEF RegistryCall
  <2>3. CASE \/ \E c \in RegistryConfigs :
                  RegistryInitialize(c) \/ RegistrySetConfig(c)
             \/ Pause
             \/ Unpause
    BY <1>3, <2>3, AdminPreserves DEF RegistryCall
  <2> QED
    BY <1>3, <2>1, <2>2, <2>3 DEF RegistryCall
<1>4. CASE \E c \in VaultConfigs : VaultInitialize(c) \/ VaultSetConfig(c)
  BY <1>4, AdminPreserves
<1>5. CASE \E k \in Keepers : SlashKeeper(k)
  BY <1>5, SlashKeeperPreserves
<1>6. CASE \E r \in Routes, a \in Amounts : PlainTransfer(r[1], r[2], a)
  BY <1>6, PlainTransferPreserves
<1>7. CASE Tick
  BY <1>7, AdminPreserves
<1>8. CASE UNCHANGED vars
  <2>1. TypeOK' /\ Uninitialized'
    BY <1>8 DEF IInv, TypeOK, RegistryTypeOK, Uninitialized, vars, registryVars,
                vaultVars, state, history
  <2> QED
    BY <1>8, <2>1, MoneyStands DEF vars, registryVars, vaultVars
<1> QED
  BY <1>1, <1>2, <1>3, <1>4, <1>5, <1>6, <1>7, <1>8 DEF Next

\* deposit, withdraw and return_proceeds never lower the price of a share.
LEMMA PriceStep ==
  ASSUME IInv, [Next]_vars, total_shares > 0
  PROVE  total_usdc' * total_shares >= total_usdc * total_shares'
<1>1. total_usdc \in Nat /\ total_shares \in Nat
  BY DEF IInv, TypeOK
<1>2. CASE UNCHANGED <<total_usdc, total_shares>>
  BY <1>1, <1>2, ProductOfNat
<1>3. CASE DepositorCall
  <2>1. PICK u \in Users, a \in Amounts : Deposit(u, a) \/ Withdraw(u, a)
    BY <1>3 DEF DepositorCall
  <2>2. CASE Deposit(u, a)
    <3> DEFINE s == SharesFor(a, total_usdc, total_shares)
    <3>1. total_usdc' = total_usdc + a /\ total_shares' = total_shares + s
      BY <2>2 DEF Deposit, DepositAllowed
    <3>2. (total_usdc + a) * total_shares >= total_usdc * (total_shares + s)
      BY <2>2, VaultAssumption, DepositEffect
    <3> QED
      BY <3>1, <3>2
  <2>3. CASE Withdraw(u, a)
    <3> DEFINE out == UsdcFor(a, total_usdc, total_shares)
    <3>1. total_usdc' = total_usdc - out /\ total_shares' = total_shares - a
      BY <2>3 DEF Withdraw, WithdrawAllowed
    <3>2. (total_usdc - out) * total_shares >= total_usdc * (total_shares - a)
      BY <2>3, VaultAssumption, WithdrawEffect
    <3> QED
      BY <3>1, <3>2
  <2> QED
    BY <2>1, <2>2, <2>3
<1>4. CASE KeeperCall
  <2>1. PICK k \in Keepers, a \in Amounts :
          Draw(k, a) \/ \E ms \in ResponseTimes : ReturnProceeds(k, a, ms)
    BY <1>4 DEF KeeperCall
  <2>2. CASE Draw(k, a)
    BY <1>2, <2>2 DEF Draw, DrawAllowed
  <2>3. CASE \E ms \in ResponseTimes : ReturnProceeds(k, a, ms)
    <3> DEFINE profit == ProfitOf(a, keeperDraw[k])
    <3>1. /\ CanTransfer(usdc, k, a) /\ total_shares' = total_shares
          /\ total_usdc' = total_usdc + profit
      BY <2>3 DEF ReturnProceeds, ReturnAllowed
    <3>2. profit \in Nat
      <4>1. a \in Nat /\ keeperDraw[k] \in Nat
        BY <3>1, VaultAssumption DEF CanTransfer, IInv, TypeOK
      <4> QED
        BY <4>1 DEF ProfitOf
    <3> HIDE DEF profit
    <3>3. total_usdc <= total_usdc' /\ total_usdc' \in Nat
      BY <1>1, <3>1, <3>2
    <3> QED
      BY <1>1, <3>1, <3>3, ProductMonotone
  <2> QED
    BY <2>1, <2>2, <2>3
<1>5. CASE RegistryCall \/ Tick \/ UNCHANGED vars
  <2>1. UNCHANGED <<total_usdc, total_shares>>
    BY <1>5 DEF RegistryCall, Tick, vars, vaultVars, state
  <2> QED
    BY <1>2, <2>1
<1>6. CASE \E c \in VaultConfigs : VaultInitialize(c) \/ VaultSetConfig(c)
  <2>1. UNCHANGED <<total_usdc, total_shares>>
    BY <1>6 DEF VaultInitialize, VaultSetConfig, state, IInv, Uninitialized
  <2> QED
    BY <1>2, <2>1
<1>7. CASE \E k \in Keepers : SlashKeeper(k)
  <2>1. UNCHANGED <<total_usdc, total_shares>>
    BY <1>7 DEF SlashKeeper, vaultVars, state
  <2> QED
    BY <1>2, <2>1
<1>8. CASE \E r \in Routes, a \in Amounts : PlainTransfer(r[1], r[2], a)
  <2>1. UNCHANGED <<total_usdc, total_shares>>
    BY <1>8 DEF PlainTransfer, vaultVars, state
  <2> QED
    BY <1>2, <2>1
<1> QED
  BY <1>3, <1>4, <1>5, <1>6, <1>7, <1>8 DEF Next

\* With every draw returned in full the vault holds all that it counts, and a
\* depositor's shares are worth no more than that.
LEMMA IdleVault == IInv => IdleVaultPays
<1> SUFFICES ASSUME IInv, Total(keeperDraw) = 0, writtenOff = 0,
                    total_shares > 0, NEW u \in Users
             PROVE  CanTransfer(usdc, VaultAddr,
                                UsdcFor(SharesOf[u], total_usdc, total_shares))
  BY DEF IdleVaultPays
<1> DEFINE out == UsdcFor(SharesOf[u], total_usdc, total_shares)
<1>1. /\ total_usdc \in Nat /\ total_shares \in Nat \ {0} /\ windfall \in Nat
      /\ usdc[VaultAddr] \in Nat
  BY RegistryAssumption DEF IInv, TypeOK, RegistryTypeOK
<1>2. SharesOf \in [Users -> Nat] /\ Total(SharesOf) = total_shares
  BY SumsAreNat DEF IInv, SharesAddUp
<1>3. SharesOf[u] \in Nat /\ SharesOf[u] <= total_shares
  <2>1. SharesOf[u] <= Total(SharesOf)
    BY <1>2, TotalBounds, FiniteUsers
  <2> QED
    BY <1>2, <2>1
<1>4. total_shares <= total_usdc
  BY <1>1 DEF IInv, ShareWorthAtLeastOne
<1>5. out \in Nat /\ out <= total_usdc
  BY <1>1, <1>3, <1>4, WithdrawFair
<1>6. usdc[VaultAddr] >= total_usdc
  BY <1>1 DEF IInv, CashConserved
<1> HIDE DEF out
<1>7. CanTransfer(usdc, VaultAddr, out)
  BY <1>1, <1>5, <1>6 DEF CanTransfer
<1> QED
  BY <1>7 DEF out

-----------------------------------------------------------------------------
\* The invariant holds in every reachable state.
THEOREM Invariance == Spec => []IInv
BY InitEstablishes, StepPreserves, PTL DEF Spec

\* No call ever drives a counter of the vault or a depositor's shares below
\* zero, whatever the registry takes of a stake.
THEOREM TypeCorrectness == Spec => []TypeOK
<1>1. IInv => TypeOK
  BY DEF IInv
<1> QED
  BY <1>1, Invariance, PTL

\* The shares the vault has issued are those its depositors hold.
THEOREM SharesBacked == Spec => []SharesAddUp
<1>1. IInv => SharesAddUp
  BY DEF IInv
<1> QED
  BY <1>1, Invariance, PTL

\* A share is worth at least one unit of USDC: deposit never divides by zero.
THEOREM SharesWorth == Spec => []ShareWorthAtLeastOne
<1>1. IInv => ShareWorthAtLeastOne
  BY DEF IInv
<1> QED
  BY <1>1, Invariance, PTL

\* Whatever the keepers do, the vault's USDC, the draws that are out and the
\* write-offs make up what the vault counts and what reached it unnoticed.
THEOREM Conservation == Spec => []CashConserved
<1>1. IInv => CashConserved
  BY DEF IInv
<1> QED
  BY <1>1, Invariance, PTL

\* active_liq never exceeds the capital that is out or was written off.
THEOREM ActiveLiqBounded == Spec => []ActiveLiqIsOut
<1>1. IInv => ActiveLiqIsOut
  BY DEF IInv
<1> QED
  BY <1>1, Invariance, PTL

\* Once every draw has been returned in full, each depositor can redeem.
THEOREM Solvency == Spec => []IdleVaultPays
BY IdleVault, Invariance, PTL

\* The vault's record of open draws and the registry's flags agree, but for
\* keepers slashed since they drew.
THEOREM DrawsAgree == Spec => []DrawsTracked
<1>1. IInv => DrawsTracked
  BY DEF IInv
<1> QED
  BY <1>1, Invariance, PTL

\* As long as every configuration that the admin sets has a rate of at most
\* 10000 basis points, which the registry does not check, no slash makes a
\* stake negative and the registry can always refund every stake.  (The model
\* leaves out a change of the token, which set_config allows, too.)
THEOREM RegistryBacked == Spec => [](RatesWithinStake => StakesBacked)
<1>1. IInv => (RatesWithinStake => StakesBacked)
  BY DEF IInv, StakesInv
<1> QED
  BY <1>1, Invariance, PTL

\* The registry credits keepers with no more profit than the vault booked.
THEOREM ProfitBacked == Spec => []CreditBacked
<1>1. IInv => CreditBacked
  BY DEF IInv
<1> QED
  BY <1>1, Invariance, PTL

\* No call lowers the price of a share.
THEOREM PriceMonotone == Spec => SharePriceNeverFalls
<1>1. IInv /\ [Next]_vars =>
        [(total_shares > 0 /\ total_shares' > 0) =>
           total_usdc' * total_shares >= total_usdc * total_shares']_vars
  BY PriceStep
<1> QED
  BY <1>1, Invariance, PTL DEF Spec, SharePriceNeverFalls

-----------------------------------------------------------------------------
(* The roster of keepers.                                                  *)

Entries(list) == {list[i] : i \in DOMAIN list}

\* The places of list that hold another entry than k.
Kept(list, k) == {i \in DOMAIN list : list[i] # k}

\* deregister's loop copies the list but for k.
LEMMA WithoutCopies ==
  ASSUME NEW S, NEW list \in Seq(S), NEW k
  PROVE  /\ Without(list, k) \in Seq(S)
         /\ Len(Without(list, k)) = Cardinality(Kept(list, k))
         /\ Entries(Without(list, k)) = Entries(list) \ {k}
<1> DEFINE kept == Kept(list, k)
           upTo(i) == {j \in kept : j <= i}
           place(i) == Cardinality(upTo(i))
           at(n) == CHOOSE i \in kept : place(i) = n
           N == Cardinality(kept)
<1>1. Len(list) \in Nat /\ DOMAIN list = 1 .. Len(list)
  OBVIOUS
<1>2. /\ kept \subseteq DOMAIN list /\ kept \subseteq Nat
      /\ \A i \in kept : list[i] \in S
  BY <1>1 DEF Kept
<1>3. IsFiniteSet(kept) /\ N \in Nat
  <2>1. IsFiniteSet(1 .. Len(list))
    BY <1>1, FS_Interval
  <2>2. IsFiniteSet(kept)
    BY <1>1, <1>2, <2>1, FS_Subset
  <2> HIDE DEF kept
  <2> QED
    BY <2>2, FS_CardinalityType
<1>4. Without(list, k) = [n \in 1 .. N |-> list[at(n)]]
  BY DEF Without, Kept
<1> HIDE DEF kept
<1>5. \A i \in kept : IsFiniteSet(upTo(i)) /\ place(i) \in 1 .. N
  <2> SUFFICES ASSUME NEW i \in kept PROVE IsFiniteSet(upTo(i)) /\ place(i) \in 1 .. N
    OBVIOUS
  <2>1. upTo(i) \subseteq kept /\ i \in upTo(i)
    BY <1>2
  <2> HIDE DEF upTo
  <2>2. IsFiniteSet(upTo(i)) /\ place(i) <= N
    BY <1>3, <2>1, FS_Subset
  <2>3. place(i) \in Nat /\ place(i) # 0
    BY <2>1, <2>2, FS_CardinalityType, FS_EmptySet
  <2> QED
    BY <1>3, <2>2, <2>3
<1>6. \A i, m \in kept : i < m => place(i) < place(m)
  <2> SUFFICES ASSUME NEW i \in kept, NEW m \in kept, i < m PROVE place(i) < place(m)
    OBVIOUS
  <2>1. upTo(i) \subseteq upTo(m) /\ m \in upTo(m) /\ m \notin upTo(i)
    BY <1>2
  <2>2. IsFiniteSet(upTo(m)) /\ place(i) \in 1 .. N /\ place(m) \in 1 .. N
    BY <1>5
  <2> HIDE DEF upTo
  <2>3. place(i) <= place(m) /\ (place(m) = place(i) => upTo(m) = upTo(i))
    BY <2>1, <2>2, FS_Subset
  <2>4. upTo(m) # upTo(i)
    BY <2>1
  <2> QED
    BY <1>3, <2>2, <2>3, <2>4
<1> HIDE DEF place
<1>7. \A i, m \in kept : place(i) = place(m) => i = m
  <2> SUFFICES ASSUME NEW i \in kept, NEW m \in kept, i # m PROVE place(i) # place(m)
    OBVIOUS
  <2> HIDE DEF N, upTo
  <2>1. i \in Nat /\ m \in Nat /\ place(i) \in Nat /\ place(m) \in Nat
    BY <1>2, <1>3, <1>5
  <2>2. i < m \/ m < i
    BY <2>1
  <2> QED
    BY <1>6, <2>1, <2>2
<1>8. \A n \in 1 .. N : \E i \in kept : place(i) = n
  <2> DEFINE f == [i \in kept |-> place(i)]
  <2>1. f \in Injection(kept, 1 .. N)
    BY <1>5, <1>7 DEF Injection, IsInjective
  <2> HIDE DEF N
  <2>2. IsFiniteSet(1 .. N) /\ Cardinality(1 .. N) = N
    <3>1. IsFiniteSet(1 .. N) /\ Cardinality(1 .. N) = IF 1 > N THEN 0 ELSE N - 1 + 1
      BY <1>3, FS_Interval
    <3> QED
      BY <1>3, <3>1
  <2> HIDE DEF f
  <2>3. f \in Surjection(kept, 1 .. N)
    BY <2>1, <2>2, FS_Injection DEF N
  <2> QED
    BY <2>3 DEF Surjection, f
<1>9. \A n \in 1 .. N : at(n) \in kept /\ place(at(n)) = n
  BY <1>8
<1> HIDE DEF at, N
<1>10. \A i \in kept : place(i) \in 1 .. N /\ at(place(i)) = i
  BY <1>5, <1>7, <1>9
<1> DEFINE rest == Without(list, k)
<1>11. /\ rest \in Seq(S) /\ Len(rest) = N /\ DOMAIN rest = 1 .. N
       /\ \A n \in 1 .. N : rest[n] = list[at(n)]
  <2>1. rest \in [1 .. N -> S]
    BY <1>2, <1>4, <1>9
  <2>2. \A n \in 1 .. N : rest[n] = list[at(n)]
    BY <1>4
  <2> HIDE DEF rest
  <2> QED
    BY <1>3, <2>1, <2>2, SeqDef, LenProperties
<1> HIDE DEF rest
<1>12. Entries(rest) = {list[i] : i \in kept}
  BY <1>9, <1>10, <1>11 DEF Entries
<1>13. {list[i] : i \in kept} = Entries(list) \ {k}
  BY DEF Entries, Kept, kept
<1> QED
  BY <1>11, <1>12, <1>13 DEF rest, N, kept

\* A list without repetitions loses exactly one entry.
LEMMA RosterLoses ==
  ASSUME NEW S, NEW list \in Seq(S), NEW D, IsFiniteSet(D), NEW k \in D,
         Entries(list) = D, Len(list) = Cardinality(D)
  PROVE  /\ Without(list, k) \in Seq(S) /\ Entries(Without(list, k)) = D \ {k}
         /\ Len(Without(list, k)) = Len(list) - 1
         /\ Cardinality(D \ {k}) = Cardinality(D) - 1
<1> DEFINE n == Len(list)
<1>1. n \in Nat /\ DOMAIN list = 1 .. n
  OBVIOUS
<1> HIDE DEF n
<1>2. IsFiniteSet(1 .. n) /\ Cardinality(1 .. n) = n
  <2>1. IsFiniteSet(1 .. n) /\ Cardinality(1 .. n) = IF 1 > n THEN 0 ELSE n - 1 + 1
    BY <1>1, FS_Interval
  <2> QED
    BY <1>1, <2>1
<1>3. list \in Injection(1 .. n, D)
  <2>1. list \in Surjection(1 .. n, D)
    BY <1>1 DEF Surjection, Entries
  <2> QED
    BY <1>2, <2>1, FS_Surjection DEF n
<1>4. PICK p \in 1 .. n : list[p] = k
  BY <1>1 DEF Entries
<1>5. Kept(list, k) = (1 .. n) \ {p}
  BY <1>1, <1>3, <1>4 DEF Kept, Injection, IsInjective
<1>6. Cardinality(Kept(list, k)) = n - 1
  BY <1>2, <1>4, <1>5, FS_RemoveElement
<1>7. Cardinality(D \ {k}) = Cardinality(D) - 1
  BY FS_RemoveElement
<1> QED
  BY <1>6, <1>7, WithoutCopies DEF n

\* The count may be reset by initialize, which finds no keeper yet.
RosterInv ==
  /\ RosterCoherent
  /\ rconfig = NoConfig => keeperList = <<>>

LEMMA RosterStands ==
  ASSUME RosterInv, UNCHANGED <<keeperList, keeperCount>>,
         DOMAIN info' = DOMAIN info, rconfig' = rconfig \/ rconfig' # NoConfig
  PROVE  RosterInv'
BY DEF RosterInv, RosterCoherent

LEMMA RosterStep == RosterInv /\ [Next]_vars => RosterInv'
<1> SUFFICES ASSUME RosterInv, [Next]_vars PROVE RosterInv'
  OBVIOUS
<1>1. CASE /\ UNCHANGED <<rconfig, keeperList, keeperCount>>
           /\ DOMAIN info' = DOMAIN info
  BY <1>1, RosterStands
<1>2. CASE \E c \in VaultConfigs : VaultInitialize(c) \/ VaultSetConfig(c)
  BY <1>1, <1>2 DEF VaultInitialize, VaultSetConfig, registryVars
<1>3. CASE DepositorCall
  BY <1>1, <1>3 DEF DepositorCall, Deposit, Withdraw, registryVars
<1>4. CASE KeeperCall
  BY <1>1, <1>4 DEF KeeperCall, Draw, ReturnProceeds
<1>5. CASE \E k \in Keepers : SlashKeeper(k)
  BY <1>1, <1>5 DEF SlashKeeper, Slash
<1>6. CASE \E r \in Routes, a \in Amounts : PlainTransfer(r[1], r[2], a)
  BY <1>1, <1>6 DEF PlainTransfer, registryVars
<1>7. CASE Tick
  BY <1>1, <1>7 DEF Tick, registryVars
<1>8. CASE RegistryCall
  <2>1. ASSUME NEW c \in RegistryConfigs, RegistryInitialize(c)
        PROVE  RosterInv'
    <3>1. c # NoConfig /\ rconfig = NoConfig /\ keeperList = <<>>
      BY <2>1, RegistryAssumption DEF RegistryInitialize, RosterInv
    <3>2. keeperCount = 0
      BY <3>1 DEF RosterInv, RosterCoherent
    <3> QED
      BY <2>1, <3>1, <3>2, RosterStands DEF RegistryInitialize
  <2>2. ASSUME NEW c \in RegistryConfigs, RegistrySetConfig(c)
        PROVE  RosterInv'
    BY <2>2, RosterStands, RegistryAssumption DEF RegistrySetConfig
  <2>3. CASE Pause \/ Unpause
    BY <1>1, <2>3 DEF Pause, Unpause
  <2>4. ASSUME NEW k \in Keepers, Register(k)
        PROVE  RosterInv'
    <3> DEFINE D == DOMAIN info
               list == keeperList
    <3>1. /\ k \notin D /\ rconfig' = rconfig /\ rconfig # NoConfig
          /\ keeperList' = Append(list, k) /\ keeperCount' = keeperCount + 1
          /\ DOMAIN info' = D \cup {k}
      BY <2>4 DEF Register, RegisterAllowed, Put
    <3>2. /\ list \in Seq(Keepers) /\ {list[i] : i \in DOMAIN list} = D
          /\ Len(list) = Cardinality(D) /\ keeperCount = Len(list)
      BY DEF RosterInv, RosterCoherent
    <3>3. IsFiniteSet(D)
      BY <3>2, FiniteKeepers, FS_Subset
    <3>4. Cardinality(D \cup {k}) = Cardinality(D) + 1
      BY <3>1, <3>3, FS_AddElement
    <3> HIDE DEF D, list
    <3>5. /\ keeperList' \in Seq(Keepers) /\ Len(keeperList') = Len(list) + 1
          /\ {keeperList'[i] : i \in DOMAIN keeperList'} = D \cup {k}
      <4>1. /\ keeperList' \in Seq(Keepers) /\ Len(keeperList') = Len(list) + 1
            /\ \A i \in 1 .. Len(list) : keeperList'[i] = list[i]
            /\ keeperList'[Len(list) + 1] = k
        BY <3>1, <3>2, AppendProperties
      <4>2. /\ Len(list) \in Nat /\ DOMAIN list = 1 .. Len(list)
            /\ DOMAIN keeperList' = 1 .. Len(list) + 1
        BY <3>2, <4>1, LenProperties
      <4> QED
        BY <3>2, <4>1, <4>2
    <3> QED
      BY <3>1, <3>2, <3>4, <3>5 DEF RosterInv, RosterCoherent
  <2>5. ASSUME NEW k \in Keepers, Deregister(k)
        PROVE  RosterInv'
    <3> DEFINE D == DOMAIN info
               list == keeperList
    <3>1. /\ k \in D /\ rconfig' = rconfig /\ rconfig # NoConfig
          /\ keeperList' = Without(list, k)
          /\ keeperCount' = SaturatingSub(keeperCount, 1)
          /\ DOMAIN info' = D \ {k}
      BY <2>5 DEF Deregister, DeregisterAllowed, Remove
    <3>2. /\ list \in Seq(Keepers) /\ Entries(list) = D
          /\ Len(list) = Cardinality(D) /\ keeperCount = Len(list)
      BY DEF RosterInv, RosterCoherent, Entries
    <3>3. IsFiniteSet(D)
      <4>1. D \subseteq Keepers
        BY <3>2 DEF Entries
      <4> QED
        BY <4>1, FiniteKeepers, FS_Subset
    <3> HIDE DEF D, list
    <3>4. /\ keeperList' \in Seq(Keepers) /\ Entries(keeperList') = D \ {k}
          /\ Len(keeperList') = Len(list) - 1
          /\ Cardinality(D \ {k}) = Cardinality(D) - 1
      BY <3>1, <3>2, <3>3, RosterLoses
    <3>5. Len(list) \in Nat /\ Len(keeperList') \in Nat
      BY <3>2, <3>4, LenProperties
    <3>6. keeperCount' = Len(keeperList')
      BY <3>1, <3>2, <3>4, <3>5 DEF SaturatingSub
    <3> QED
      BY <3>1, <3>2, <3>4, <3>6 DEF RosterInv, RosterCoherent, Entries
  <2> QED
    BY <1>8, <2>1, <2>2, <2>3, <2>4, <2>5 DEF RegistryCall
<1>9. CASE UNCHANGED vars
  BY <1>1, <1>9 DEF vars, registryVars
<1> QED
  BY <1>2, <1>3, <1>4, <1>5, <1>6, <1>7, <1>8, <1>9 DEF Next

\* register, deregister: the list of keepers, their count and their records
\* always agree, and nobody is on the list twice.
THEOREM RosterAgrees == Spec => []RosterCoherent
<1>1. Init => RosterInv
  <2> SUFFICES ASSUME Init PROVE RosterInv
    OBVIOUS
  <2>1. keeperList = <<>> /\ keeperCount = 0 /\ DOMAIN info = {}
    BY DEF Init, RegistryInit, EmptyStore
  <2>2. Cardinality({}) = 0
    BY FS_EmptySet
  <2> QED
    BY <2>1, <2>2 DEF RosterInv, RosterCoherent
<1>2. RosterInv => RosterCoherent
  BY DEF RosterInv
<1> QED
  BY <1>1, <1>2, RosterStep, PTL DEF Spec

-----------------------------------------------------------------------------
(* The vault implements SharePool. *)

\* Only one user's shares change in deposit and withdraw, and they stay natural.
LEMMA OthersKeepShares ==
  ASSUME IInv, IInv', NEW u \in Users,
         \A v \in Users \ {u} : SharesOf'[v] = SharesOf[v],
         total_shares' - total_shares = SharesOf'[u] - SharesOf[u]
  PROVE  Pool!OnlyOf(u)
<1>1. SharesOf' \in [Users -> Nat]
  BY DEF IInv, TypeOK, SharesOf
<1> QED
  BY <1>1 DEF Pool!OnlyOf

\* deposit is Enter
LEMMA DepositEnters ==
  ASSUME IInv, IInv', NEW u \in Users, NEW amount \in Amounts, Deposit(u, amount)
  PROVE  Pool!Enter(u)
<1> DEFINE s == SharesFor(amount, total_usdc, total_shares)
<1>1. /\ amount \in Nat /\ total_usdc \in Nat /\ total_shares \in Nat
      /\ s \in Nat /\ s <= amount
      /\ total_shares # 0 => s * total_usdc <= amount * total_shares
  BY VaultAssumption, DepositEffect
<1>2. /\ total_usdc' = total_usdc + amount
      /\ total_shares' = total_shares + s
      /\ depositors' =
           Put(depositors, u, [shares |-> DepositorOf(u).shares + s,
                               last_deposit_time |-> now])
  BY DEF Deposit, DepositAllowed
<1> HIDE DEF s
<1>3. /\ SharesOf'[u] = SharesOf[u] + s /\ SharesOf[u] \in Nat
      /\ \A v \in Users \ {u} : SharesOf'[v] = SharesOf[v]
  BY <1>1, <1>2 DEF IInv, TypeOK, SharesOf, DepositorOf, Put
<1>4. /\ total_usdc' - total_usdc = amount
      /\ total_shares' - total_shares = s
      /\ SharesOf'[u] - SharesOf[u] = s
  BY <1>1, <1>2, <1>3
<1>5. Pool!OnlyOf(u)
  BY <1>3, <1>4, OthersKeepShares
<1> QED
  BY <1>1, <1>4, <1>5 DEF Pool!Enter

\* withdraw is Leave
LEMMA WithdrawLeaves ==
  ASSUME IInv, IInv', NEW u \in Users, NEW s \in Amounts, Withdraw(u, s)
  PROVE  Pool!Leave(u)
<1> DEFINE out == UsdcFor(s, total_usdc, total_shares)
<1>1. /\ total_usdc \in Nat /\ total_shares \in Nat /\ s \in Nat
      /\ out \in Nat /\ out <= total_usdc
      /\ out * total_shares <= s * total_usdc
  BY VaultAssumption, WithdrawEffect
<1>2. /\ total_usdc' = total_usdc - out
      /\ total_shares' = total_shares - s
      /\ u \in DOMAIN depositors
      /\ depositors' = [depositors EXCEPT ![u].shares = @ - s]
  BY DEF Withdraw, WithdrawAllowed
<1> HIDE DEF out
<1>3. /\ SharesOf'[u] = SharesOf[u] - s /\ SharesOf[u] \in Nat
      /\ \A v \in Users \ {u} : SharesOf'[v] = SharesOf[v]
  BY <1>1, <1>2 DEF IInv, TypeOK, SharesOf
<1>4. /\ total_usdc - total_usdc' = out /\ total_usdc' >= 0
      /\ total_shares' - total_shares = -s
      /\ SharesOf[u] - SharesOf'[u] = s /\ SharesOf'[u] - SharesOf[u] = -s
  BY <1>1, <1>2, <1>3
<1>5. Pool!OnlyOf(u)
  BY <1>3, <1>4, OthersKeepShares
<1> QED
  BY <1>1, <1>4, <1>5 DEF Pool!Leave

\* Every other step brings profit or is none of the pool's business.
LEMMA OthersEarnOrStutter ==
  ASSUME IInv, [Next]_vars, ~DepositorCall
  PROVE  Pool!Earn \/ UNCHANGED <<total_usdc, total_shares, SharesOf>>
<1>1. ASSUME UNCHANGED <<total_usdc, total_shares, depositors>>
      PROVE  UNCHANGED <<total_usdc, total_shares, SharesOf>>
  BY <1>1 DEF SharesOf
<1>2. CASE KeeperCall
  <2>1. PICK k \in Keepers, a \in Amounts :
          Draw(k, a) \/ \E ms \in ResponseTimes : ReturnProceeds(k, a, ms)
    BY <1>2 DEF KeeperCall
  <2>2. CASE Draw(k, a)
    BY <1>1, <2>2 DEF Draw, DrawAllowed
  <2>3. CASE \E ms \in ResponseTimes : ReturnProceeds(k, a, ms)
    <3> DEFINE profit == ProfitOf(a, keeperDraw[k])
    <3>1. /\ CanTransfer(usdc, k, a) /\ depositors' = depositors
          /\ total_shares' = total_shares
          /\ total_usdc' = total_usdc + profit
      BY <2>3 DEF ReturnProceeds, ReturnAllowed
    <3>2. profit \in Nat /\ total_usdc \in Nat
      <4>1. a \in Nat /\ keeperDraw[k] \in Nat /\ total_usdc \in Nat
        BY <3>1, VaultAssumption DEF CanTransfer, IInv, TypeOK
      <4> QED
        BY <4>1 DEF ProfitOf
    <3> HIDE DEF profit
    <3>3. total_usdc' > total_usdc \/ total_usdc' = total_usdc
      BY <3>1, <3>2
    <3>4. SharesOf' = SharesOf
      BY <3>1 DEF SharesOf
    <3> QED
      BY <3>1, <3>3, <3>4 DEF Pool!Earn
  <2> QED
    BY <2>1, <2>2, <2>3
<1>3. CASE RegistryCall \/ Tick \/ UNCHANGED vars
  BY <1>1, <1>3 DEF RegistryCall, Tick, vars, vaultVars, state
<1>4. CASE \E c \in VaultConfigs : VaultInitialize(c) \/ VaultSetConfig(c)
  BY <1>1, <1>4 DEF VaultInitialize, VaultSetConfig, state, IInv, Uninitialized
<1>5. CASE \E k \in Keepers : SlashKeeper(k)
  BY <1>1, <1>5 DEF SlashKeeper, vaultVars, state
<1>6. CASE \E r \in Routes, a \in Amounts : PlainTransfer(r[1], r[2], a)
  BY <1>1, <1>6 DEF PlainTransfer, vaultVars, state
<1> QED
  BY <1>2, <1>3, <1>4, <1>5, <1>6 DEF Next

\* The vault with all that surrounds it implements the fair share pool.
THEOREM Refinement == Spec => IsSharePool
<1>1. Init => Pool!PoolInit
  <2> SUFFICES ASSUME Init PROVE Pool!PoolInit
    OBVIOUS
  <2>1. \A u \in Users :
          (IF u \in DOMAIN depositors THEN depositors[u].shares ELSE 0) = 0
    BY DEF Init, VaultInit, EmptyStore
  <2>2. SharesOf = [u \in Users |-> 0]
    BY <2>1, Zenon DEF SharesOf
  <2>3. total_usdc = 0 /\ total_shares = 0
    BY DEF Init, VaultInit
  <2> QED
    BY <2>2, <2>3 DEF Pool!PoolInit
<1>2. IInv /\ IInv' /\ [Next]_vars => [Pool!PoolNext]_(Pool!poolVars)
  <2> SUFFICES ASSUME IInv, IInv', [Next]_vars
               PROVE  Pool!PoolNext \/ UNCHANGED <<total_usdc, total_shares, SharesOf>>
    BY DEF Pool!poolVars
  <2>1. CASE DepositorCall
    BY <2>1, DepositEnters, WithdrawLeaves DEF DepositorCall, Pool!PoolNext
  <2>2. CASE ~DepositorCall
    BY <2>2, OthersEarnOrStutter DEF Pool!PoolNext
  <2> QED
    BY <2>1, <2>2
<1> QED
  BY <1>1, <1>2, Invariance, PTL DEF Spec, IsSharePool, Pool!PoolSpec
=============================================================================
