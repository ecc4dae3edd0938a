------------------------------ MODULE Display -------------------------------
(***************************************************************************)
(* What frontend/lib/api.ts makes of numbers before the pages show them.   *)
(* A quotient is kept as the pair of its numerator and its denominator, a  *)
(* string as the sequence of the numbers that it shows.                    *)
(***************************************************************************)
EXTENDS Naturals, Sequences

\* The seconds between the end of what FormatDuration shows and its start.
Shown(f) == IF Len(f) = 3 THEN f[1] * 3600 + f[2] * 60 + f[3]
            ELSE f[1] * 60 + f[2]

\* formatDuration: H:MM:SS or M:SS.
FormatDuration(seconds) ==
  LET h == seconds \div 3600
      m == (seconds % 3600) \div 60
      s == seconds % 60
  IN  IF h > 0 THEN <<h, m, s>> ELSE <<m, s>>

\* sharePrice
SharePrice(totalUsdc, totalShares) ==
  IF totalShares = 0 THEN <<1, 1>> ELSE <<totalUsdc, totalShares>>

\* successRate
SuccessRate(executions, fills) ==
  IF executions = 0 THEN <<0, 1>>
  ELSE IF fills > executions THEN <<1, 1>>
  ELSE <<fills, executions>>

\* formatUSDC and toFixed(2): amount as a number of cents, the nearest one.
InCents(amount, cent) == (2 * amount + cent) \div (2 * cent)
=============================================================================
