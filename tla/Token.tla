------------------------------- MODULE Token --------------------------------
(***************************************************************************)
(* The transfer of the USDC token, as the vault and the registry call it.  *)
(* bal is the function from accounts to balances.                          *)
(***************************************************************************)
EXTENDS Integers

\* What transfer asserts before it writes: "negative transfer" and
\* "insufficient balance".
CanTransfer(bal, from, amount) == amount >= 0 /\ bal[from] >= amount

\* Debit, then read and credit the destination, in that order.
Transfer(bal, from, to, amount) ==
  LET debited == [bal EXCEPT ![from] = @ - amount]
  IN  [debited EXCEPT ![to] = @ + amount]
=============================================================================
