--------------------------- MODULE MCNectarVault ----------------------------
(***************************************************************************)
(* Small instances of NectarVault for TLC.  Amounts are a handful of       *)
(* units: small numbers make both divisions of the vault inexact, which    *)
(* large round ones would hide.                                            *)
(***************************************************************************)
EXTENDS NectarVault, TLC

\* The Market is whoever keepers buy collateral from and sell it to.
CONSTANTS Registry, Vault, Market

MCAccounts == Users \cup Keepers \cup {Registry, Vault, Market}

\* The amounts a caller may name, among them zero and a negative one.
MCAmounts == -1 .. 2

MCSymmetry == Permutations(Users) \cup Permutations(Keepers)

-----------------------------------------------------------------------------
(* Two keepers and one depositor: draws, returns, slashes.                 *)

\* Profit is scarce, and comes from the market.
MCDrawsBalance == [a \in MCAccounts |-> IF a = Market THEN 1 ELSE 2]

\* Keepers pay the market, which makes their returns short, and are paid by it.
MCDrawsRoutes ==
  {<<Market, k>> : k \in Keepers} \cup {<<k, Market>> : k \in Keepers}

\* A stake of which a slash takes half, so that the rest can be slashed again.
MCDrawsRegistry ==
  {[min_stake |-> 2, slash_timeout |-> 0, slash_rate_bps |-> 5000]}

MCDrawsVault ==
  {[deposit_cap |-> 0, withdraw_cooldown |-> 1, max_draw_per_keeper |-> 0]}

-----------------------------------------------------------------------------
(* Two depositors and one keeper: the price of a share.                    *)

MCSharesBalance == [a \in MCAccounts |-> IF a \in Keepers THEN 1 ELSE 2]

MCSharesRoutes == {<<Market, k>> : k \in Keepers}

MCSharesRegistry ==
  {[min_stake |-> 1, slash_timeout |-> 0, slash_rate_bps |-> 10000]}

\* A deposit cap that a profit can push the vault over.
MCSharesVault ==
  {[deposit_cap |-> 5, withdraw_cooldown |-> 1, max_draw_per_keeper |-> 2]}

=============================================================================
