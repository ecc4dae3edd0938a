----------------------------- MODULE ShareMath ------------------------------
(***************************************************************************)
(* The exchange between USDC and vault shares, for a vault whose           *)
(* total_usdc is assets and whose total_shares is issued.                  *)
(***************************************************************************)
EXTENDS RustInts

\* Mistake: a deposit is rounded in the depositor's favour.
SharesForRoundedUp(amount, assets, issued) ==
  IF issued = 0 THEN amount
  ELSE Quot(amount * issued + assets - 1, assets)

\* The shares that a deposit of amount buys; the first depositor gets 1:1.
SharesFor(amount, assets, issued) ==
  IF issued = 0 THEN amount
  ELSE Quot(amount * issued, assets)

\* The USDC that shares are worth.
UsdcFor(shares, assets, issued) ==
  Quot(shares * assets, issued)
=============================================================================
