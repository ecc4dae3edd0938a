---------------------------- MODULE MCKeeperLoop ----------------------------
(***************************************************************************)
(* Small instances of KeeperLoop for TLC.  A position's debt is 20 units,  *)
(* so that the bid for half of it is 10, the least that leaves a profit of *)
(* a tenth in integers.                                                    *)
(***************************************************************************)
EXTENDS KeeperLoop, TLC

CONSTANTS Registry, Vault

MCAccounts == Users \cup Keepers \cup {Registry, Vault}

\* The depositor brings capital for three draws; a keeper has its stake and
\* can pay the profit of a few returns.
MCBalance == [a \in MCAccounts |-> IF a \in Users THEN 30 ELSE 5]

\* A keeper has its stake and can pay the profit of one return.
MCThinBalance == [a \in MCAccounts |-> IF a \in Users THEN 30 ELSE 2]

\* Deposits of everything, bids and proceeds.
MCAmounts == {10, 11, 30}

MCDeposit == {30}

MCRegistry ==
  {[min_stake |-> 1, slash_timeout |-> 0, slash_rate_bps |-> 10000]}

MCVault ==
  {[deposit_cap |-> 0, withdraw_cooldown |-> 0, max_draw_per_keeper |-> 0]}

MCPositions ==
  {[collateral |-> [i \in {0} |-> 40], liabilities |-> [i \in {0} |-> 20]]}

\* One poll of each keeper in a world where nothing goes wrong.
MCCalm == {[faulty |-> FALSE, clearable |-> {}, cycles |-> 1]}

\* Two polls in such a world, or one while auctions are cleared.
MCRace == {[faulty |-> FALSE, clearable |-> {}, cycles |-> 2],
           [faulty |-> FALSE, clearable |-> Borrowers, cycles |-> 1]}

\* Everything may go wrong, or nothing does, for longer.
MCWorlds == {[faulty |-> TRUE, clearable |-> Borrowers, cycles |-> 1],
             [faulty |-> FALSE, clearable |-> {}, cycles |-> 3]}

MCSymmetry == Permutations(Keepers)
=============================================================================
