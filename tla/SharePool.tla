----------------------------- MODULE SharePool ------------------------------
(***************************************************************************)
(* What the vault promises its depositors, without saying how: a pool of   *)
(* assets of which everybody owns shares.  Entering and leaving may be     *)
(* rounded, but never at the expense of those who stay, and assets grow by *)
(* profit but are never taken away.                                        *)
(***************************************************************************)
EXTENDS Integers

CONSTANT Users

VARIABLES
  assets,   \* what the pool owns
  issued,   \* how many shares there are
  shares    \* who owns them

poolVars == <<assets, issued, shares>>

\* One user's shares change, and nobody else's.
OnlyOf(u) ==
  /\ shares' \in [Users -> Nat]
  /\ \A v \in Users \ {u} : shares'[v] = shares[v]
  /\ issued' - issued = shares'[u] - shares[u]

PoolInit ==
  /\ assets = 0
  /\ issued = 0
  /\ shares = [u \in Users |-> 0]

\* u pays in and gets at most its due: no more than 1:1 in a pool without
\* shares, no more than the current price otherwise.
Enter(u) ==
  LET paid == assets' - assets
      got == shares'[u] - shares[u]
  IN  /\ OnlyOf(u)
      /\ paid >= 0 /\ got >= 0
      /\ IF issued = 0 THEN got <= paid ELSE got * assets <= paid * issued

\* u gives up shares and is paid at most what they are worth.
Leave(u) ==
  LET paid == assets - assets'
      given == shares[u] - shares'[u]
  IN  /\ OnlyOf(u)
      /\ paid >= 0 /\ given >= 0 /\ assets' >= 0
      /\ paid * issued <= given * assets

\* Profit for everybody.
Earn ==
  /\ assets' > assets
  /\ UNCHANGED <<issued, shares>>

PoolNext == Earn \/ \E u \in Users : Enter(u) \/ Leave(u)

PoolSpec == PoolInit /\ [][PoolNext]_poolVars
=============================================================================
