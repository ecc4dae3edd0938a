---------------------------- MODULE MCVaultPage -----------------------------
(***************************************************************************)
(* Small instances of VaultPage for TLC.  A cent is three units, so that   *)
(* rounding to cents loses some.                                           *)
(***************************************************************************)
EXTENDS VaultPage

CONSTANTS Registry, Vault

MCAccounts == Users \cup {Registry, Vault}

MCBalance == [a \in MCAccounts |-> 5]

MCRegistry ==
  {[min_stake |-> 1, slash_timeout |-> 0, slash_rate_bps |-> 5000]}

\* A cap that two deposits exceed, and a cooldown of one unit of time.
Limited == [deposit_cap |-> 3, withdraw_cooldown |-> 1, max_draw_per_keeper |-> 0]

\* The admin may lift both limits.
Unlimited ==
  [deposit_cap |-> 0, withdraw_cooldown |-> 0, max_draw_per_keeper |-> 0]

MCVault == {Limited, Unlimited}

World(f, w, c, p, t, o, b) ==
  [faults |-> f, wallets |-> w, calls |-> c, picks |-> p, time |-> t,
   others |-> o, skew |-> 0, past |-> b, config |-> Limited]

CONSTANTS w1, w2

\* Two calls; two wallets; one call where something goes wrong.  One call of a
\* visitor that has been here before: while keepers draw; while the admin
\* changes the limits; while others deposit, and the browser's clock may be off.
MCWorlds ==
  {World({}, {w1}, 2, 1, 2, {}, FALSE),
   World({}, {w1, w2}, 1, 2, 2, {}, TRUE),
   World({"loss", "wallet"}, {w1}, 1, 1, 3, {}, TRUE),
   World({"rpc"}, {w1}, 1, 1, 2, {}, FALSE),
   World({}, {w1}, 1, 1, 3, {"keepers"}, TRUE),
   World({}, {w1}, 1, 1, 3, {"admin"}, TRUE),
   [World({}, {w1}, 1, 1, 3, {"depositors"}, TRUE) EXCEPT !.skew = 1]}

\* A visitor with two wallets that both have a position.
MCTwoWallets == {World({}, {w1, w2}, 0, 2, 2, {}, TRUE)}
=============================================================================
