--------------------------- MODULE KeeperRegistry ---------------------------
(***************************************************************************)
(* contracts/keeper-registry: keepers stake USDC to register, the vault    *)
(* marks and clears their draws and records their executions, and anyone   *)
(* may slash a keeper whose draw has been open for too long.               *)
(*                                                                         *)
(* A call to a Soroban contract is atomic: it either returns Ok and all    *)
(* its writes stay, or it errs or traps and none does.  Each action is one *)
(* successful call; a call that is refused changes nothing and is the      *)
(* action being disabled.  Calls by the admin carry no caller, the check   *)
(* that the caller is the stored admin leaves nobody else.                 *)
(***************************************************************************)
EXTENDS RustInts, Sequences, FiniteSets, Storage, Token

CONSTANTS
  Keepers,          \* the addresses that may operate a keeper
  RegistryAddr,     \* the address of this contract
  VaultAddr,        \* the address of the vault, which receives slashed stakes
  Accounts,         \* every address that can hold USDC
  RegistryConfigs,  \* the configurations the admin may set
  NoConfig,         \* a contract that has not been initialized
  U64Max,           \* u64::MAX, where the counters of a keeper saturate
  MaxTime           \* bound of the model: the last ledger timestamp

ASSUME RegistryAssumption ==
  /\ Keepers \subseteq Accounts
  /\ RegistryAddr \in Accounts /\ VaultAddr \in Accounts
  /\ RegistryAddr # VaultAddr
  /\ RegistryAddr \notin Keepers /\ VaultAddr \notin Keepers
  /\ RegistryConfigs \subseteq
       [min_stake : Int, slash_timeout : Nat, slash_rate_bps : Nat]
  /\ NoConfig \notin RegistryConfigs
  /\ U64Max \in Nat /\ MaxTime \in Nat

\* A slash takes no more than the stake.  The contract does not check it, it is
\* up to the admin; what needs it has it as a hypothesis.
RatesWithinStake == \A c \in RegistryConfigs : c.slash_rate_bps <= 10000

\* IsFiniteSet enumerates, so it stands apart from the memberships above.
ASSUME FiniteKeepers == IsFiniteSet(Keepers)

VARIABLES
  usdc,         \* the balances of the USDC token
  now,          \* the timestamp of the current ledger
  rconfig,      \* DataKey::Config, NoConfig until initialize has run
  paused,       \* DataKey::Paused
  info,         \* DataKey::Keeper(k), for the keepers that are registered
  keeperList,   \* DataKey::KeeperList
  keeperCount   \* DataKey::KeeperCount

registryVars == <<rconfig, paused, info, keeperList, keeperCount>>

KeeperInfo == [stake : Int,
               last_draw_time : Nat,
               has_active_draw : BOOLEAN,
               total_executions : 0 .. U64Max,
               successful_fills : 0 .. U64Max,
               total_profit : Nat,
               total_response_time_ms : 0 .. U64Max,
               response_count : 0 .. U64Max]

\* u64::saturating_add
SaturatingAdd(a, b) == IF a + b > U64Max THEN U64Max ELSE a + b

-----------------------------------------------------------------------------
(* What each function does to the record of one keeper.                    *)

NewKeeper(stake) ==
  [stake |-> stake, last_draw_time |-> 0, has_active_draw |-> FALSE,
   total_executions |-> 0, successful_fills |-> 0, total_profit |-> 0,
   total_response_time_ms |-> 0, response_count |-> 0]

\* mark_draw
Marked(i) == [i EXCEPT !.has_active_draw = TRUE, !.last_draw_time = now]

\* Mistake: clear_draw writes the record back unchanged.
ClearedNothing(i) == i

\* clear_draw
Cleared(i) == [i EXCEPT !.has_active_draw = FALSE]

\* record_execution
Executed(i, success, profit, ms) ==
  IF success
  THEN [i EXCEPT !.total_executions = SaturatingAdd(@, 1),
                 !.successful_fills = SaturatingAdd(@, 1),
                 !.total_profit = @ + profit,
                 !.total_response_time_ms = SaturatingAdd(@, ms),
                 !.response_count = SaturatingAdd(@, 1)]
  ELSE [i EXCEPT !.total_executions = SaturatingAdd(@, 1)]

\* slash_amt: the share of the stake that a slash moves to the vault.
SlashAmount(stake) == Quot(stake * rconfig.slash_rate_bps, 10000)

\* slash, once slash_amt has been paid.
Slashed(i, amount) == [Cleared(i) EXCEPT !.stake = @ - amount]

-----------------------------------------------------------------------------
RegistryInit ==
  /\ rconfig = NoConfig
  /\ paused = FALSE
  /\ info = EmptyStore
  /\ keeperList = <<>>
  /\ keeperCount = 0

\* Mistake: initialize may run again.
RegistryInitializeAgain(config) ==
  /\ rconfig' = config
  /\ keeperCount' = 0
  /\ UNCHANGED <<usdc, now, paused, info, keeperList>>

RegistryInitialize(config) ==
  /\ rconfig = NoConfig
  /\ rconfig' = config
  /\ keeperCount' = 0
  /\ UNCHANGED <<usdc, now, paused, info, keeperList>>

\* register returns Ok.
RegisterAllowed(k) ==
  /\ rconfig # NoConfig
  /\ ~paused
  /\ k \notin DOMAIN info
  /\ rconfig.min_stake > 0
  /\ CanTransfer(usdc, k, rconfig.min_stake)

Register(k) ==
  /\ RegisterAllowed(k)
  /\ usdc' = Transfer(usdc, k, RegistryAddr, rconfig.min_stake)
  /\ info' = Put(info, k, NewKeeper(rconfig.min_stake))
  /\ keeperList' = Append(keeperList, k)
  /\ keeperCount' = keeperCount + 1
  /\ UNCHANGED <<now, rconfig, paused>>

\* What deregister's loop copies of the list: all but k, in the same order.
Without(list, k) ==
  LET kept == {i \in DOMAIN list : list[i] # k}
      place(i) == Cardinality({j \in kept : j <= i})
  IN  [n \in 1 .. Cardinality(kept) |->
         list[CHOOSE i \in kept : place(i) = n]]

\* Mistake: deregister refunds the stake that the configuration asks for now.
RefundOfConfig(k) == rconfig.min_stake

\* What deregister pays back.
RefundOf(k) == info[k].stake

\* deregister returns Ok.
DeregisterAllowed(k) ==
  /\ rconfig # NoConfig
  /\ k \in DOMAIN info
  /\ ~info[k].has_active_draw
  /\ info[k].stake > 0 => CanTransfer(usdc, RegistryAddr, RefundOf(k))

Deregister(k) ==
  /\ DeregisterAllowed(k)
  /\ usdc' = IF info[k].stake > 0
             THEN Transfer(usdc, RegistryAddr, k, RefundOf(k)) ELSE usdc
  /\ info' = Remove(info, k)
  /\ keeperList' = Without(keeperList, k)
  /\ keeperCount' = SaturatingSub(keeperCount, 1)
  /\ UNCHANGED <<now, rconfig, paused>>

\* Anyone may call it.
Slash(k) ==
  /\ rconfig # NoConfig
  /\ k \in DOMAIN info
  /\ info[k].has_active_draw
  /\ SaturatingSub(now, info[k].last_draw_time) > rconfig.slash_timeout
  /\ LET amount == SlashAmount(info[k].stake)
     IN  IF amount > 0
         THEN /\ CanTransfer(usdc, RegistryAddr, amount)
              /\ usdc' = Transfer(usdc, RegistryAddr, VaultAddr, amount)
              /\ info' = [info EXCEPT ![k] = Slashed(@, amount)]
         ELSE /\ info' = [info EXCEPT ![k] = Cleared(@)]
              /\ UNCHANGED usdc
  /\ UNCHANGED <<now, rconfig, paused, keeperList, keeperCount>>

Pause ==
  /\ rconfig # NoConfig
  /\ paused' = TRUE
  /\ UNCHANGED <<usdc, now, rconfig, info, keeperList, keeperCount>>

Unpause ==
  /\ rconfig # NoConfig
  /\ paused' = FALSE
  /\ UNCHANGED <<usdc, now, rconfig, info, keeperList, keeperCount>>

RegistrySetConfig(config) ==
  /\ rconfig # NoConfig
  /\ rconfig' = config
  /\ UNCHANGED <<usdc, now, paused, info, keeperList, keeperCount>>

-----------------------------------------------------------------------------
(* The stake and the recorded profit of every keeper, 0 when unregistered. *)
StakeOf == [k \in Keepers |-> IF k \in DOMAIN info THEN info[k].stake ELSE 0]
CreditOf ==
  [k \in Keepers |-> IF k \in DOMAIN info THEN info[k].total_profit ELSE 0]

RegistryTypeOK ==
  /\ usdc \in [Accounts -> Nat]
  /\ now \in 0 .. MaxTime
  /\ rconfig \in RegistryConfigs \cup {NoConfig}
  /\ paused \in BOOLEAN
  /\ DOMAIN info \subseteq Keepers
  /\ info \in [DOMAIN info -> KeeperInfo]
  /\ keeperCount \in Nat
=============================================================================
