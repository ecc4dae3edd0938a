------------------------------- MODULE MCSite -------------------------------
(***************************************************************************)
(* A small instance of Site for TLC: one demo keeper, which the API may    *)
(* report too, and one that only the API knows.                            *)
(***************************************************************************)
EXTENDS Site, TLC

CONSTANTS a, b

MCDemoStat == [executions |-> 2, fills |-> 1, draw |-> FALSE]

\* No depositors; a keeper with the fields that the API leaves out today; the
\* other keeper, without them.
MCReports ==
  {[depositors |-> FALSE, stats |-> <<>>],
   [depositors |-> TRUE,
    stats |-> a :> [liquidations |-> 1, executions |-> 1, fills |-> 0,
                    draw |-> TRUE]],
   [depositors |-> TRUE, stats |-> b :> [liquidations |-> 1]]}

MCKeeperRecords ==
  {[executions |-> 0, fills |-> 0, draw |-> TRUE],
   [executions |-> 2, fills |-> 2, draw |-> FALSE]}

\* Below the least factor that the drift allows, and above its limit.
MCFactors == {5, 11, 20}
=============================================================================
