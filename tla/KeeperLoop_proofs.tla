------------------------- MODULE KeeperLoop_proofs --------------------------
(***************************************************************************)
(* What the keepers' loop promises, for every number of keepers, borrowers *)
(* and assets, every configuration, and a network that fails, loses, and   *)
(* includes late whatever it likes.                                        *)
(***************************************************************************)
EXTENDS KeeperLoop, NectarVault_proofs

\* The lab's storage: the bid of every auction is an amount.
LabOK ==
  /\ reserveList \in Seq(Assets)
  /\ DOMAIN positions \subseteq Borrowers
  /\ DOMAIN auctions \subseteq Borrowers
  /\ \A u \in DOMAIN positions : positions[u] \in Positions \cup {NoPosition}
  /\ \A u \in DOMAIN auctions : Total(auctions[u].bid) \in Nat

\* The types of LoopTypeOK and of the variables it leaves out.
LoopTypes ==
  /\ LoopTypeOK
  /\ world \in Worlds
  /\ liquidations \in [Keepers -> Nat]
  /\ restarts \in [Keepers -> Nat]
  /\ fills \in [Keepers -> Nat]
  /\ lostRaces \in [Keepers -> Nat]
  /\ unpaid \in [Keepers -> Nat]

\* A transaction that is still to be included has its account's next sequence
\* number, so the first one included makes all others of the account void.
PendingOK ==
  \A tx \in pending :
    /\ tx.bid \in Nat /\ tx.ms \in {0, 1}
    /\ tx.seq = account[tx.keeper] + 1

\* Await is about to count a liquidation.
Counted(k) == loop[k].at = "Fill" /\ call[k].result = "SUCCESS"

\* At a fill the vault records the draw, and nothing that k has sent and that
\* may still be included can take the record away.
DrawnForFill(k) ==
  loop[k].at = "Fill" /\ loop[k].bid > 0 =>
    /\ keeperDraw[k] >= loop[k].bid
    /\ \A tx \in pending : tx.keeper = k => tx.at = "Fill"

\* A result is that of the transaction waited for, and then the network holds
\* no other transaction of k; a draw that succeeded is on the ledger, and a
\* fill that succeeded has been counted there.
KeeperOK(k) ==
  /\ call[k].stage # "await" => call[k].result = "unknown"
  /\ call[k].result # "unknown" =>
       loop[k].at \in Calls /\ \A tx \in pending : tx.keeper # k
  /\ loop[k].at = "Draw" /\ call[k].result = "SUCCESS" =>
       keeperDraw[k] >= loop[k].bid
  /\ DrawnForFill(k)
  /\ liquidations[k] + (IF Counted(k) THEN 1 ELSE 0) <= fills[k]

\* The inductive invariant, beside that of the vault.
LoopInv ==
  /\ LabOK
  /\ LoopTypes
  /\ PendingOK
  /\ \A k \in Keepers : KeeperOK(k)

-----------------------------------------------------------------------------
(* The lab.                                                                *)

\* new_liquidation_auction: the amounts put up for auction are natural, for
\* finitely many assets, so their sum is a natural number.
LEMMA AuctionedIsNat ==
  ASSUME reserveList \in Seq(Assets), NEW amounts,
         DOMAIN amounts \subseteq Nat, amounts \in [DOMAIN amounts -> Nat]
  PROVE  Total(Auctioned(amounts, Pct)) \in Nat
<1> DEFINE part(i) == (amounts[i] * Pct) \div Denom
           indices == {i \in DOMAIN amounts : i < Len(reserveList) /\ part(i) > 0}
           of(a) == {i \in indices : reserveList[i + 1] = a}
           D == {reserveList[i + 1] : i \in indices}
           f == [a \in D |-> part(CHOOSE i \in of(a) : \A j \in of(a) : j <= i)]
<1>1. Auctioned(amounts, Pct) = f
  BY DEF Auctioned
<1>2. \A i \in DOMAIN amounts : part(i) \in Nat
  <2> TAKE i \in DOMAIN amounts
  <2> DEFINE n == amounts[i] * Pct
  <2>1. n \in Nat
    BY LoopAssumption
  <2>2. Denom \in Nat \ {0}
    BY LabAssumption
  <2> HIDE DEF n
  <2>3. n \div Denom \in Nat
    BY <2>1, <2>2
  <2> QED
    BY <2>3 DEF n
<1>3. indices \subseteq DOMAIN amounts /\ indices \subseteq Nat
  OBVIOUS
<1>4. Len(reserveList) \in Nat
  OBVIOUS
<1>5. \A i \in indices : i <= Len(reserveList)
  BY <1>4
<1> HIDE DEF part, indices
<1>6. IsFiniteSet(indices)
  BY <1>3, <1>4, <1>5, FS_BoundedSetOfNaturals
<1>7. IsFiniteSet(D)
  <2> DEFINE g == [i \in indices |-> reserveList[i + 1]]
  <2>1. g \in Surjection(indices, D)
    BY DEF Surjection
  <2> HIDE DEF g, D
  <2> QED
    BY <1>6, <2>1, FS_Surjection
<1>8. \A a \in D : f[a] \in Nat
  <2> TAKE a \in D
  <2>1. of(a) \subseteq indices /\ of(a) # {}
    OBVIOUS
  <2> HIDE DEF of
  <2>2. \E i \in of(a) : \A j \in of(a) : j <= i
    BY <1>3, <1>4, <1>5, <2>1, GreatestElement
  <2>3. (CHOOSE i \in of(a) : \A j \in of(a) : j <= i) \in of(a)
    BY <2>2
  <2> QED
    BY <1>2, <1>3, <2>1, <2>3
<1>9. f \in [D -> Nat]
  <2> HIDE DEF D
  <2>1. f = [a \in D |-> f[a]]
    OBVIOUS
  <2> HIDE DEF f
  <2> QED
    BY <1>8, <2>1
<1> HIDE DEF f, D
<1> QED
  BY <1>1, <1>7, <1>9, UnitsFinite

\* Every call to the lab.
LEMMA LabPreserves ==
  ASSUME LabOK,
         \/ LabInitialize
         \/ \E a \in Assets : AddReserve(a)
         \/ \E u \in Borrowers, p \in Positions : SetPosition(u, p)
         \/ \E u : ClearAuction(u)
         \/ \E u : NewLiquidationAuction(u, Pct)
         \/ \E u : Submit(u)
         \/ UNCHANGED labVars
  PROVE  LabOK'
<1>1. CASE LabInitialize
  BY <1>1 DEF LabOK, LabInitialize
<1>2. CASE \E a \in Assets : AddReserve(a)
  BY <1>2 DEF LabOK, AddReserve
<1>3. CASE \E u \in Borrowers, p \in Positions : SetPosition(u, p)
  BY <1>3 DEF LabOK, SetPosition, Put
<1>4. CASE \E u : ClearAuction(u)
  BY <1>4 DEF LabOK, ClearAuction, Remove
<1>5. CASE \E u : NewLiquidationAuction(u, Pct)
  <2> DEFINE lot(u) == Auctioned(positions[u].collateral, Pct)
             bid(u) == Auctioned(positions[u].liabilities, Pct)
  <2>1. PICK u \in DOMAIN positions :
          /\ auctions' = Put(auctions, u, [lot |-> lot(u), bid |-> bid(u)])
          /\ UNCHANGED <<labReady, reserveList, positions>>
    BY <1>5 DEF NewLiquidationAuction, AuctionAllowed
  <2>2. /\ DOMAIN positions[u].liabilities \subseteq Nat
        /\ positions[u].liabilities \in [DOMAIN positions[u].liabilities -> Nat]
    <3>1. CASE positions[u] \in Positions
      BY <3>1, LabAssumption
    <3>2. CASE positions[u] = NoPosition
      BY <3>2 DEF NoPosition, EmptyStore
    <3> QED
      BY <3>1, <3>2 DEF LabOK
  <2>3. Total(bid(u)) \in Nat
    BY <2>2, AuctionedIsNat DEF LabOK
  <2> HIDE DEF lot, bid
  <2> QED
    BY <2>1, <2>3 DEF LabOK, Put
<1>6. CASE \E u : Submit(u)
  BY <1>6 DEF LabOK, Submit, SubmitAllowed, AuctionExists, Put, Remove
<1>7. CASE UNCHANGED labVars
  BY <1>7 DEF LabOK, labVars
<1> QED
  BY <1>1, <1>2, <1>3, <1>4, <1>5, <1>6, <1>7

-----------------------------------------------------------------------------
(* The keeper's own steps.                                                 *)

LoopRecord ==
  [at : Steps, cycle : 0 .. world.cycles, work : SUBSET Borrowers,
   user : Borrowers \cup {Nobody}, bid : Nat, ms : {0, 1}]

CallRecord ==
  [attempt : 1 .. 3, stage : {"read", "send", "await"}, seq : Nat,
   result : {"unknown", "SUCCESS", "FAILED"}]

\* What a keeper does by itself touches neither the contracts nor what it has
\* sent, and a liquidation is counted only if the ledger has it.
Local(k) ==
  /\ UNCHANGED <<world, account, pending, vars, labVars, fills, lostRaces>>
  /\ restarts' \in [Keepers -> Nat] /\ unpaid' \in [Keepers -> Nat]
  /\ \/ UNCHANGED liquidations
     \/ Counted(k) /\ liquidations' = [liquidations EXCEPT ![k] = @ + 1]
     \/ liquidations' = [liquidations EXCEPT ![k] = 0]

\* A step to a point where no result is known keeps the invariant, provided
\* that the capital is there if it is the step to a fill.
LEMMA LocalChange ==
  ASSUME LoopInv, NEW k \in Keepers, Local(k),
         NEW l \in LoopRecord, loop' = [loop EXCEPT ![k] = l],
         NEW c \in CallRecord, call' = [call EXCEPT ![k] = c],
         c.result = "unknown",
         l.at = "Fill" /\ l.bid > 0 =>
           /\ keeperDraw[k] >= l.bid
           /\ \A tx \in pending : tx.keeper = k => tx.at = "Fill"
  PROVE  LoopInv'
<1>1. LabOK'
  BY LabPreserves DEF LoopInv, Local
<1>2. LoopTypes'
  <2>1. loop' \in [Keepers -> LoopRecord] /\ call' \in [Keepers -> CallRecord]
    BY DEF LoopInv, LoopTypes, LoopTypeOK, LoopRecord, CallRecord
  <2>2. liquidations' \in [Keepers -> Nat]
    BY DEF LoopInv, LoopTypes, Local
  <2> QED
    BY <2>1, <2>2 DEF LoopInv, LoopTypes, LoopTypeOK, Local, LoopRecord,
                      CallRecord
<1>3. PendingOK'
  BY DEF LoopInv, PendingOK, Local
<1>4. ASSUME NEW j \in Keepers PROVE KeeperOK(j)'
  <2>1. /\ KeeperOK(j)
        /\ liquidations \in [Keepers -> Nat] /\ fills \in [Keepers -> Nat]
    BY DEF LoopInv, LoopTypes
  <2>2. UNCHANGED <<pending, keeperDraw, fills>>
    BY DEF Local, vars, vaultVars
  <2>3. CASE j # k
    <3>1. /\ loop'[j] = loop[j] /\ call'[j] = call[j]
          /\ liquidations'[j] = liquidations[j]
      BY <2>3 DEF LoopInv, LoopTypes, LoopTypeOK, Local
    <3> QED
      BY <2>1, <2>2, <3>1 DEF KeeperOK, Counted, DrawnForFill
  <2>4. CASE j = k
    <3>1. loop'[j] = l /\ call'[j] = c
      BY <2>4 DEF LoopInv, LoopTypes, LoopTypeOK
    <3>2. liquidations'[j] \in Nat /\ liquidations'[j] <= fills[j]
      BY <2>1, <2>4 DEF KeeperOK, Local
    <3> QED
      BY <2>1, <2>2, <2>4, <3>1, <3>2 DEF KeeperOK, Counted, DrawnForFill
  <2> QED
    BY <2>3, <2>4
<1> QED
  BY <1>1, <1>2, <1>3, <1>4 DEF LoopInv

\* The types of what a keeper holds.
LEMMA KeeperTypes ==
  ASSUME LoopInv, NEW k \in Keepers
  PROVE  loop[k] \in LoopRecord /\ call[k] \in CallRecord
BY DEF LoopInv, LoopTypes, LoopTypeOK, LoopRecord, CallRecord

LEMMA NewCallType == NewCall \in CallRecord /\ NewCall.result = "unknown"
BY DEF NewCall, CallRecord

\* A new call at another step.
LEMMA GotoPreserves ==
  ASSUME LoopInv, NEW k \in Keepers, Local(k), NEW at \in Steps, Goto(k, at),
         at = "Fill" => DrawnForFill(k)'
  PROVE  LoopInv'
<1> DEFINE l == [loop[k] EXCEPT !.at = at]
<1>1. l \in LoopRecord /\ l.at = at /\ l.bid = loop[k].bid
  BY KeeperTypes DEF LoopRecord
<1>2. loop' = [loop EXCEPT ![k] = l] /\ call' = [call EXCEPT ![k] = NewCall]
  BY DEF Goto
<1>3. loop'[k] = l /\ UNCHANGED <<pending, keeperDraw>>
  BY <1>2 DEF LoopInv, LoopTypes, LoopTypeOK, Local, vars, vaultVars
<1> HIDE DEF l
<1> QED
  BY <1>1, <1>2, <1>3, NewCallType, LocalChange DEF DrawnForFill

\* handleLiquidation returns.
LEMMA NextPositionPreserves ==
  ASSUME LoopInv, NEW k \in Keepers, Local(k), NextPosition(k)
  PROVE  LoopInv'
<1> DEFINE l == [loop[k] EXCEPT !.at = "Scan", !.user = Nobody, !.bid = 0,
                                !.ms = 0]
<1>1. l \in LoopRecord /\ l.at = "Scan"
  BY KeeperTypes DEF LoopRecord, Steps
<1>2. loop' = [loop EXCEPT ![k] = l] /\ call' = [call EXCEPT ![k] = NewCall]
  BY DEF NextPosition
<1> HIDE DEF l
<1> QED
  BY <1>1, <1>2, NewCallType, LocalChange

\* A call is given up.
LEMMA GiveUpPreserves ==
  ASSUME LoopInv, NEW k \in Keepers, Local(k), GiveUp(k)
  PROVE  LoopInv'
BY NextPositionPreserves, GotoPreserves DEF GiveUp, Steps

\* A call is tried again, or given up.
LEMMA RetriedPreserves ==
  ASSUME LoopInv, NEW k \in Keepers, Local(k), Retried(k)
  PROVE  LoopInv'
<1>1. CASE call[k].attempt < MaxAttempts(loop[k].at)
  <2> DEFINE c == [NewCall EXCEPT !.attempt = call[k].attempt + 1]
  <2>1. c \in CallRecord /\ c.result = "unknown"
    <3>1. call[k].attempt \in 1 .. 3 /\ call[k].attempt < 3
      BY <1>1, KeeperTypes DEF CallRecord, MaxAttempts
    <3> QED
      BY <3>1 DEF NewCall, CallRecord
  <2>2. call' = [call EXCEPT ![k] = c] /\ UNCHANGED loop
    BY <1>1 DEF Retried
  <2>3. loop' = [loop EXCEPT ![k] = loop[k]]
    BY <2>2 DEF LoopInv, LoopTypes, LoopTypeOK
  <2>4. DrawnForFill(k)
    BY DEF LoopInv, KeeperOK
  <2> HIDE DEF c
  <2> QED
    BY <2>1, <2>2, <2>3, <2>4, KeeperTypes, LocalChange DEF DrawnForFill
<1>2. CASE ~(call[k].attempt < MaxAttempts(loop[k].at))
  BY <1>2, GiveUpPreserves DEF Retried
<1> QED
  BY <1>1, <1>2

\* Await: a result decides where the keeper goes.
LEMMA AwaitPreserves ==
  ASSUME LoopInv, IInv, NEW k \in Keepers, Await(k),
         UNCHANGED <<world, account, pending, restarts, vars, labVars,
                     raceHistory>>
  PROVE  LoopInv'
<1>1. restarts' \in [Keepers -> Nat] /\ unpaid' \in [Keepers -> Nat]
  BY DEF LoopInv, LoopTypes, raceHistory
<1>2. CASE call[k].result = "FAILED" /\ GiveUp(k) /\ UNCHANGED liquidations
  BY <1>1, <1>2, GiveUpPreserves DEF Local, raceHistory
<1>3. CASE call[k].result = "SUCCESS" /\ Succeeded(k)
  <2>1. loop[k].at \in Calls
    BY DEF Await
  <2>2. CASE loop[k].at \in {"Register", "Create"}
    <3>1. \E at \in {"Idle", "Auction"} : Goto(k, at) /\ UNCHANGED liquidations
      BY <1>3, <2>2 DEF Succeeded
    <3> QED
      BY <1>1, <3>1, GotoPreserves DEF Local, raceHistory, Steps
  <2>3. CASE loop[k].at = "Draw"
    <3>1. Goto(k, "Fill") /\ UNCHANGED liquidations
      BY <1>3, <2>3 DEF Succeeded
    <3>2. /\ keeperDraw[k] >= loop[k].bid
          /\ \A tx \in pending : tx.keeper # k
      BY <1>3, <2>3 DEF LoopInv, KeeperOK
    <3>3. DrawnForFill(k)'
      <4>1. loop'[k].bid = loop[k].bid
        BY <3>1 DEF Goto, LoopInv, LoopTypes, LoopTypeOK
      <4> QED
        BY <3>2, <4>1 DEF DrawnForFill, vars, vaultVars
    <3> QED
      BY <1>1, <3>1, <3>3, GotoPreserves DEF Local, raceHistory, Steps, Calls
  <2>4. CASE loop[k].at = "Fill"
    <3>1. Filled(k)
      BY <1>3, <2>4 DEF Succeeded
    <3>2. Local(k)
      BY <1>1, <1>3, <2>4, <3>1 DEF Local, raceHistory, Filled, Counted
    <3>3. CASE loop[k].bid > 0
      <4> DEFINE l == [loop[k] EXCEPT !.at = "Return", !.ms = 1]
      <4>1. l \in LoopRecord /\ l.at = "Return"
        BY KeeperTypes DEF LoopRecord, Steps, Calls
      <4>2. loop' = [loop EXCEPT ![k] = l] /\ call' = [call EXCEPT ![k] = NewCall]
        BY <3>1, <3>3 DEF Filled
      <4> HIDE DEF l
      <4> QED
        BY <3>2, <4>1, <4>2, NewCallType, LocalChange
    <3>4. CASE ~(loop[k].bid > 0)
      BY <3>1, <3>2, <3>4, NextPositionPreserves DEF Filled
    <3> QED
      BY <3>3, <3>4
  <2>5. CASE loop[k].at = "Return"
    BY <1>1, <1>3, <2>5, NextPositionPreserves DEF Succeeded, Local, raceHistory
  <2> QED
    BY <2>1, <2>2, <2>3, <2>4, <2>5 DEF Calls
<1> QED
  BY <1>2, <1>3 DEF Await

\* Send: simulation may refuse the call, or the server the sequence number.
LEMMA SendPreserves ==
  ASSUME LoopInv, IInv, NEW k \in Keepers, Send(k),
         UNCHANGED <<world, account, restarts, vars, labVars, fills, lostRaces>>
  PROVE  LoopInv'
<1>1. restarts' \in [Keepers -> Nat] /\ unpaid' \in [Keepers -> Nat]
  BY DEF LoopInv, LoopTypes, Send
<1>2. CASE Refused(k) /\ UNCHANGED pending
  <2>1. CASE Goto(k, "Auction") /\ UNCHANGED liquidations
    BY <1>1, <1>2, <2>1, GotoPreserves DEF Local, Steps
  <2>2. CASE AlreadyFilled(k)
    BY <1>1, <1>2, <2>2, GotoPreserves, NextPositionPreserves
       DEF AlreadyFilled, Local, Steps, Calls
  <2>3. CASE GiveUp(k) /\ UNCHANGED liquidations
    BY <1>1, <1>2, <2>3, GiveUpPreserves DEF Local
  <2> QED
    BY <1>2, <2>1, <2>2, <2>3 DEF Refused
<1>3. CASE GiveUp(k) /\ UNCHANGED <<pending, liquidations>>
  BY <1>1, <1>3, GiveUpPreserves DEF Local
<1>4. CASE /\ call[k].stage = "send" /\ loop[k].at \in Calls
           /\ call[k].seq = account[k] + 1
           /\ pending' = pending \cup {Transaction(k)}
           /\ call' = [call EXCEPT ![k].stage = "await"]
           /\ UNCHANGED <<loop, liquidations>>
  <2> DEFINE tx == Transaction(k)
  <2>1. /\ tx.keeper = k /\ tx.at = loop[k].at /\ tx.bid = loop[k].bid
        /\ tx.ms = loop[k].ms /\ tx.seq = account[k] + 1
    BY <1>4 DEF Transaction
  <2> HIDE DEF tx
  <2>2. pending' = pending \cup {tx}
    BY <1>4 DEF tx
  <2>3. LabOK'
    BY LabPreserves DEF LoopInv
  <2>4. LoopTypes'
    <3>1. call' \in [Keepers -> CallRecord]
      BY <1>4 DEF LoopInv, LoopTypes, LoopTypeOK, CallRecord
    <3> QED
      BY <1>1, <1>4, <2>1, <2>2, <3>1
         DEF LoopInv, LoopTypes, LoopTypeOK, CallRecord
  <2>5. PendingOK'
    <3>1. tx.bid \in Nat /\ tx.ms \in {0, 1}
      BY <2>1, KeeperTypes DEF LoopRecord
    <3> QED
      BY <2>1, <2>2, <3>1 DEF LoopInv, PendingOK
  <2>6. ASSUME NEW j \in Keepers PROVE KeeperOK(j)'
    <3>1. KeeperOK(j)
      BY DEF LoopInv
    <3>2. UNCHANGED <<loop, liquidations, fills, keeperDraw>>
      BY <1>4 DEF vars, vaultVars
    <3>3. CASE j # k
      <4>1. call'[j] = call[j]
        BY <1>4, <3>3 DEF LoopInv, LoopTypes, LoopTypeOK
      <4> QED
        BY <2>1, <2>2, <3>1, <3>2, <3>3, <4>1 DEF KeeperOK, Counted, DrawnForFill
    <3>4. CASE j = k
      <4>1. call'[j].stage = "await" /\ call'[j].result = "unknown"
        BY <1>4, <3>1, <3>4 DEF LoopInv, LoopTypes, LoopTypeOK, KeeperOK
      <4>2. call[j].result = "unknown"
        BY <1>4, <3>1, <3>4 DEF KeeperOK
      <4> QED
        BY <2>1, <2>2, <3>1, <3>2, <3>4, <4>1, <4>2
           DEF KeeperOK, Counted, DrawnForFill
    <3> QED
      BY <3>3, <3>4
  <2> QED
    BY <2>3, <2>4, <2>5, <2>6 DEF LoopInv
<1> QED
  BY <1>2, <1>3, <1>4 DEF Send

\* The keeper's other steps between calls.
LEMMA ScanningPreserves ==
  ASSUME LoopInv, IInv, NEW k \in Keepers,
         Start(k) \/ Poll(k) \/ Scan(k) \/ GetAuction(k) \/ ReadAccount(k)
           \/ Fault(k),
         UNCHANGED <<world, account, pending, restarts, vars, labVars,
                     raceHistory>>
  PROVE  LoopInv'
<1>1. restarts' \in [Keepers -> Nat] /\ unpaid' \in [Keepers -> Nat]
  BY DEF LoopInv, LoopTypes, raceHistory
<1>2. Local(k)
  BY <1>1 DEF Local, raceHistory, Start, Poll, Scan, GetAuction, ReadAccount, Fault
<1>3. CASE Start(k)
  BY <1>2, <1>3, GotoPreserves DEF Start, Steps, Calls
<1>4. ASSUME loop[k].at \notin Calls
      PROVE  call[k].result = "unknown"
  BY <1>4 DEF LoopInv, KeeperOK
<1>5. ASSUME UNCHANGED call PROVE call' = [call EXCEPT ![k] = call[k]]
  BY <1>5 DEF LoopInv, LoopTypes, LoopTypeOK
<1>6. CASE Poll(k)
  <2>1. PICK work \in SUBSET Liquidatable :
          loop' = [loop EXCEPT ![k].at = "Scan", ![k].cycle = @ + 1,
                               ![k].work = work]
    BY <1>6 DEF Poll
  <2> DEFINE l == [loop[k] EXCEPT !.at = "Scan", !.cycle = @ + 1,
                                  !.work = work]
  <2>2. Liquidatable \subseteq Borrowers
    BY DEF Liquidatable, LoopInv, LabOK
  <2>3. l \in LoopRecord /\ l.at = "Scan"
    <3>1. world.cycles \in Nat
      BY LoopAssumption DEF LoopInv, LoopTypes
    <3>2. loop[k].cycle + 1 \in 0 .. world.cycles
      BY <1>6, <3>1, KeeperTypes DEF LoopRecord, Poll
    <3> QED
      BY <2>2, <3>2, KeeperTypes DEF LoopRecord, Steps
  <2>4. loop' = [loop EXCEPT ![k] = l] /\ UNCHANGED call
    BY <1>6, <2>1 DEF Poll
  <2>5. loop[k].at \notin Calls
    BY <1>6 DEF Poll, Calls
  <2> HIDE DEF l
  <2> QED
    BY <1>2, <1>4, <1>5, <2>3, <2>4, <2>5, KeeperTypes, LocalChange
<1>7. CASE Scan(k)
  <2>1. PICK l \in LoopRecord :
          loop' = [loop EXCEPT ![k] = l] /\ l.at \in {"Idle", "Create"}
    <3>1. CASE loop[k].work = {}
      <4> DEFINE l == [loop[k] EXCEPT !.at = "Idle"]
      <4>1. l \in LoopRecord /\ l.at = "Idle"
        BY KeeperTypes DEF LoopRecord, Steps
      <4>2. loop' = [loop EXCEPT ![k] = l]
        BY <1>7, <3>1 DEF Scan
      <4> HIDE DEF l
      <4> QED
        BY <4>1, <4>2
    <3>2. CASE loop[k].work # {}
      <4>1. PICK u \in loop[k].work :
              loop' = [loop EXCEPT ![k].at = "Create", ![k].user = u,
                                   ![k].work = @ \ {u}]
        BY <1>7, <3>2 DEF Scan
      <4> DEFINE l == [loop[k] EXCEPT !.at = "Create", !.user = u,
                                      !.work = @ \ {u}]
      <4>2. l \in LoopRecord /\ l.at = "Create"
        BY KeeperTypes DEF LoopRecord, Steps, Calls
      <4>3. loop' = [loop EXCEPT ![k] = l]
        BY <4>1
      <4> HIDE DEF l
      <4> QED
        BY <4>2, <4>3
    <3> QED
      BY <3>1, <3>2
  <2>2. loop[k].at \notin Calls /\ UNCHANGED call
    BY <1>7 DEF Scan, Calls
  <2> QED
    BY <1>2, <1>4, <1>5, <2>1, <2>2, KeeperTypes, LocalChange
<1>8. CASE GetAuction(k)
  <2>1. CASE NextPosition(k)
    BY <1>2, <2>1, NextPositionPreserves
  <2>2. CASE ~NextPosition(k)
    <3> DEFINE bid == Total(auctions[loop[k].user].bid)
               l == [loop[k] EXCEPT !.bid = bid,
                                    !.at = IF bid > 0 THEN "Draw" ELSE "Fill"]
    <3>1. /\ AuctionExists(loop[k].user)
          /\ loop' = [loop EXCEPT ![k] = l]
          /\ call' = [call EXCEPT ![k] = NewCall]
      BY <1>8, <2>2 DEF GetAuction
    <3>2. bid \in Nat
      BY <3>1 DEF AuctionExists, LoopInv, LabOK
    <3> HIDE DEF bid
    <3>3. /\ l \in LoopRecord /\ l.bid = bid
          /\ l.at = IF bid > 0 THEN "Draw" ELSE "Fill"
      BY <3>2, KeeperTypes DEF LoopRecord, Steps, Calls
    <3> HIDE DEF l
    <3> QED
      BY <1>2, <3>1, <3>3, NewCallType, LocalChange
  <2> QED
    BY <2>1, <2>2
<1>9. CASE ReadAccount(k)
  <2>1. PICK seq \in SequencesFor(k) :
          call' = [call EXCEPT ![k].stage = "send", ![k].seq = seq]
    BY <1>9 DEF ReadAccount
  <2> DEFINE c == [call[k] EXCEPT !.stage = "send", !.seq = seq]
  <2>2. seq \in Nat
    BY DEF SequencesFor, LoopInv, LoopTypes, LoopTypeOK
  <2>3. call[k].result = "unknown"
    BY <1>9 DEF LoopInv, KeeperOK, ReadAccount
  <2>4. c \in CallRecord /\ c.result = "unknown"
    BY <2>2, <2>3, KeeperTypes DEF CallRecord
  <2>5. call' = [call EXCEPT ![k] = c] /\ loop' = [loop EXCEPT ![k] = loop[k]]
    BY <1>9, <2>1 DEF ReadAccount, LoopInv, LoopTypes, LoopTypeOK
  <2>6. DrawnForFill(k)
    BY DEF LoopInv, KeeperOK
  <2> HIDE DEF c
  <2> QED
    BY <1>2, <2>4, <2>5, <2>6, KeeperTypes, LocalChange DEF DrawnForFill
<1>10. CASE Fault(k)
  BY <1>2, <1>10, RetriedPreserves, GiveUpPreserves, NextPositionPreserves
     DEF Fault
<1> QED
  BY <1>3, <1>6, <1>7, <1>8, <1>9, <1>10

\* The process dies and is started again.
LEMMA CrashPreserves ==
  ASSUME LoopInv, IInv, NEW k \in Keepers, Crash(k)
  PROVE  LoopInv'
<1>1. AtStart \in LoopRecord /\ AtStart.at = "Off"
  <2>1. world.cycles \in Nat
    BY LoopAssumption DEF LoopInv, LoopTypes
  <2> QED
    BY <2>1 DEF AtStart, LoopRecord, Steps
<1>2. Local(k)
  BY DEF Crash, Local, LoopInv, LoopTypes, raceHistory
<1> QED
  BY <1>1, <1>2, NewCallType, LocalChange DEF Crash

-----------------------------------------------------------------------------
(* The ledger.                                                             *)

\* A transaction's calls keep the invariants of the contracts, and change no
\* draw but that of the keeper that sent it, and its own only at a draw, which
\* adds the bid, or a return.
LEMMA ExecutePreserves ==
  ASSUME IInv, LoopInv, NEW tx \in pending, Execute(tx)
  PROVE  /\ IInv' /\ LabOK'
         /\ keeperDraw' \in [Keepers -> Nat]
         /\ \A j \in Keepers \ {tx.keeper} : keeperDraw'[j] = keeperDraw[j]
         /\ tx.at \notin {"Draw", "Return"} => UNCHANGED keeperDraw
         /\ tx.at = "Draw" => keeperDraw'[tx.keeper] >= tx.bid
         /\ tx.at = "Return" => keeperDraw'[tx.keeper] = 0
<1> DEFINE k == tx.keeper
<1>1. /\ k \in Keepers /\ tx.bid \in Nat /\ tx.ms \in Nat
      /\ Proceeds(tx.bid) \in Int
  <2>1. k \in Keepers /\ tx.bid \in Nat /\ tx.ms \in Nat
    BY DEF LoopInv, LoopTypes, LoopTypeOK, PendingOK
  <2> QED
    BY <2>1 DEF Proceeds
<1>2. LabOK /\ keeperDraw \in [Keepers -> Nat]
  BY DEF LoopInv, IInv, TypeOK
<1>3. CASE tx.at = "Register" /\ Register(k) /\ UNCHANGED <<vaultVars, history, labVars>>
  BY <1>1, <1>2, <1>3, RegisterPreserves, LabPreserves DEF vaultVars
<1>4. CASE tx.at \in {"Create", "Fill"} /\ UNCHANGED vars
  <2>1. IInv'
    BY <1>4, StepPreserves
  <2>2. LabOK'
    BY <1>2, <1>4, LabPreserves DEF Execute
  <2> QED
    BY <1>2, <1>4, <2>1, <2>2 DEF vars, vaultVars
<1>5. CASE tx.at = "Draw" /\ Draw(k, tx.bid) /\ UNCHANGED labVars
  <2>1. IInv' /\ LabOK'
    BY <1>1, <1>2, <1>5, DrawPreserves, LabPreserves
  <2>2. keeperDraw' = [keeperDraw EXCEPT ![k] = @ + tx.bid]
    BY <1>5 DEF Draw
  <2> QED
    BY <1>1, <1>2, <1>5, <2>1, <2>2
<1>6. CASE tx.at = "Return" /\ ReturnProceeds(k, Proceeds(tx.bid), tx.ms)
             /\ UNCHANGED labVars
  <2>1. IInv' /\ LabOK'
    BY <1>1, <1>2, <1>6, ReturnProceedsPreserves, LabPreserves
  <2>2. \/ keeperDraw' = [keeperDraw EXCEPT ![k] = 0]
        \/ keeperDraw[k] = 0 /\ UNCHANGED keeperDraw
    <3>1. \/ keeperDraw' = [keeperDraw EXCEPT ![k] = 0]
          \/ ~(keeperDraw[k] > 0) /\ UNCHANGED keeperDraw
      BY <1>6 DEF ReturnProceeds
    <3>2. keeperDraw[k] \in Nat
      BY <1>1, <1>2
    <3> QED
      BY <3>1, <3>2
  <2> QED
    BY <1>1, <1>2, <1>6, <2>1, <2>2
<1> QED
  BY <1>3, <1>4, <1>5, <1>6 DEF Execute

\* The network includes a transaction: one that waited may learn the result,
\* and no other transaction of the account is left.
LEMMA IncludePreserves ==
  ASSUME IInv, LoopInv, NEW tx \in pending, Include(tx)
  PROVE  IInv' /\ LoopInv'
<1> DEFINE k == tx.keeper
           ok == Allowed(tx)
           told == call[k].stage = "await" /\ tx = Transaction(k)
<1>1. /\ k \in Keepers /\ tx.bid \in Nat /\ tx.at \in Calls
      /\ tx.seq = account[k] + 1 /\ account \in [Keepers -> Nat]
  BY DEF LoopInv, LoopTypes, LoopTypeOK, PendingOK
<1>2. /\ IInv' /\ LabOK'
      /\ keeperDraw \in [Keepers -> Nat] /\ keeperDraw' \in [Keepers -> Nat]
      /\ \A j \in Keepers \ {k} : keeperDraw'[j] = keeperDraw[j]
      /\ tx.at = "Fill" => UNCHANGED keeperDraw
      /\ ok /\ tx.at = "Draw" => keeperDraw'[k] >= tx.bid
  <2>1. keeperDraw \in [Keepers -> Nat]
    BY DEF IInv, TypeOK
  <2>2. CASE ok
    BY <2>1, <2>2, ExecutePreserves DEF Include
  <2>3. CASE ~ok
    <3>1. UNCHANGED <<vars, labVars>>
      BY <2>3 DEF Include
    <3> QED
      BY <2>1, <2>3, <3>1, StepPreserves, LabPreserves
         DEF LoopInv, vars, vaultVars
  <2> QED
    BY <2>2, <2>3
<1> HIDE DEF ok
<1>3. pending' = {t \in pending : t.keeper # k}
  <2>1. pending' = {t \in pending : t.keeper # k \/ t.seq > tx.seq}
    BY DEF Include
  <2>2. \A t \in pending : t.keeper = k => ~(t.seq > tx.seq)
    BY <1>1 DEF LoopInv, PendingOK
  <2> QED
    BY <2>1, <2>2
<1>4. /\ account' = [account EXCEPT ![k] = @ + 1]
      /\ call' = IF told
                 THEN [call EXCEPT ![k].result =
                         IF ok THEN "SUCCESS" ELSE "FAILED"]
                 ELSE call
      /\ fills' = IF ok /\ tx.at = "Fill"
                  THEN [fills EXCEPT ![k] = @ + 1] ELSE fills
      /\ lostRaces' = IF ~ok /\ tx.at = "Fill"
                      THEN [lostRaces EXCEPT ![k] = @ + 1] ELSE lostRaces
      /\ unpaid' = IF ~ok /\ tx.at = "Return"
                   THEN [unpaid EXCEPT ![k] = @ + 1] ELSE unpaid
      /\ UNCHANGED <<world, loop, liquidations, restarts>>
  BY DEF Include, ok
<1>5. told => /\ call[k].stage = "await" /\ tx.at = loop[k].at
              /\ tx.bid = loop[k].bid
  BY DEF Transaction
<1> HIDE DEF told
<1>6. LoopTypes'
  <2>1. call' \in [Keepers -> CallRecord]
    <3>1. call \in [Keepers -> CallRecord]
      BY DEF LoopInv, LoopTypes, LoopTypeOK, CallRecord
    <3> QED
      BY <1>1, <1>4, <3>1 DEF CallRecord
  <2>2. /\ fills' \in [Keepers -> Nat] /\ lostRaces' \in [Keepers -> Nat]
        /\ unpaid' \in [Keepers -> Nat] /\ account' \in [Keepers -> Nat]
    BY <1>1, <1>4 DEF LoopInv, LoopTypes
  <2>3. \A t \in pending' : t.keeper \in Keepers /\ t.at \in Calls
    BY <1>3 DEF LoopInv, LoopTypes, LoopTypeOK
  <2> QED
    BY <1>4, <2>1, <2>2, <2>3 DEF LoopInv, LoopTypes, LoopTypeOK, CallRecord
<1>7. PendingOK'
  <2> SUFFICES ASSUME NEW t \in pending'
               PROVE  /\ t.bid \in Nat /\ t.ms \in {0, 1}
                      /\ t.seq = account'[t.keeper] + 1
    BY DEF PendingOK
  <2>1. t \in pending /\ t.keeper # k /\ t.keeper \in Keepers
    BY <1>3 DEF LoopInv, LoopTypes, LoopTypeOK
  <2>2. account'[t.keeper] = account[t.keeper]
    BY <1>1, <1>4, <2>1
  <2> QED
    BY <2>1, <2>2 DEF LoopInv, PendingOK
<1>8. ASSUME NEW j \in Keepers PROVE KeeperOK(j)'
  <2>1. /\ KeeperOK(j) /\ UNCHANGED <<loop, liquidations>>
        /\ loop[j] \in LoopRecord /\ call[j] \in CallRecord
        /\ fills \in [Keepers -> Nat] /\ liquidations \in [Keepers -> Nat]
        /\ call \in [Keepers -> CallRecord]
    BY <1>4, KeeperTypes DEF LoopInv, LoopTypes, LoopTypeOK, CallRecord
  <2>2. CASE j # k
    <3>1. /\ call'[j] = call[j] /\ fills'[j] = fills[j]
          /\ keeperDraw'[j] = keeperDraw[j] /\ pending' \subseteq pending
      BY <1>1, <1>2, <1>3, <1>4, <2>1, <2>2
    <3> QED
      BY <2>1, <3>1 DEF KeeperOK, Counted, DrawnForFill
  <2>3. CASE j = k
    <3>1. \A t \in pending' : t.keeper # j
      BY <1>3, <2>3
    <3>2. call[j].result = "unknown"
      BY <2>1, <2>3 DEF KeeperOK
    <3>3. /\ call'[j].stage = call[j].stage
          /\ call'[j].result = IF told THEN (IF ok THEN "SUCCESS" ELSE "FAILED")
                               ELSE "unknown"
      BY <1>4, <2>1, <2>3, <3>2 DEF CallRecord
    <3>4. loop[j].at = "Fill" /\ loop[j].bid > 0 => keeperDraw'[j] >= loop[j].bid
      <4>1. loop[j].at = "Fill" /\ loop[j].bid > 0 => tx.at = "Fill"
        BY <2>1, <2>3 DEF KeeperOK, DrawnForFill
      <4> QED
        BY <1>2, <2>1, <4>1 DEF KeeperOK, DrawnForFill
    <3>5. loop[j].at = "Draw" /\ call'[j].result = "SUCCESS" =>
            keeperDraw'[j] >= loop[j].bid
      BY <1>2, <1>5, <2>3, <3>3
    <3>6. liquidations[j] + (IF Counted(j)' THEN 1 ELSE 0) <= fills'[j]
      <4>1. liquidations[j] <= fills[j]
        BY <2>1 DEF KeeperOK
      <4>2. fills'[j] = IF ok /\ tx.at = "Fill" THEN fills[j] + 1 ELSE fills[j]
        BY <1>4, <2>1, <2>3
      <4>3. Counted(j)' => ok /\ tx.at = "Fill"
        BY <1>5, <2>1, <2>3, <3>3 DEF Counted
      <4> QED
        BY <2>1, <4>1, <4>2, <4>3
    <3>7. told => loop[j].at \in Calls
      BY <1>1, <1>5, <2>3
    <3> QED
      BY <1>5, <2>1, <2>3, <3>1, <3>3, <3>4, <3>5, <3>6, <3>7
         DEF KeeperOK, DrawnForFill
  <2> QED
    BY <2>2, <2>3
<1> QED
  BY <1>2, <1>6, <1>7, <1>8 DEF LoopInv

\* The rest of the world has no part in what keepers do.
LEMMA WorldPreserves ==
  ASSUME IInv, LoopInv, World
  PROVE  IInv' /\ LoopInv' /\ UNCHANGED keeperDraw
<1>1. IInv' /\ LabOK' /\ UNCHANGED keeperDraw
  <2>1. CASE /\ \/ \E c \in RegistryConfigs :
                     RegistryInitialize(c) /\ UNCHANGED <<vaultVars, history>>
                \/ \E c \in VaultConfigs : VaultInitialize(c)
                \/ \E u \in Users, a \in Deposits : Deposit(u, a)
                \/ \E k \in Keepers : SlashKeeper(k)
                \/ Tick
             /\ UNCHANGED labVars
    <3>1. Deposits \subseteq Amounts
      BY LoopAssumption
    <3>2. Next
      <4>1. CASE \E c \in RegistryConfigs :
                   RegistryInitialize(c) /\ UNCHANGED <<vaultVars, history>>
        BY <4>1 DEF Next, RegistryCall
      <4>2. CASE \E u \in Users, a \in Deposits : Deposit(u, a)
        BY <3>1, <4>2 DEF Next, DepositorCall
      <4> QED
        BY <2>1, <4>1, <4>2 DEF Next
    <3>3. UNCHANGED keeperDraw
      BY <2>1 DEF vaultVars, VaultInitialize, Deposit, SlashKeeper, Tick
    <3> QED
      BY <2>1, <3>2, <3>3, StepPreserves, LabPreserves DEF LoopInv
  <2>2. CASE /\ \/ LabInitialize
                \/ \E a \in Assets : AddReserve(a)
                \/ \E u \in Borrowers, p \in Positions : SetPosition(u, p)
                \/ \E u \in world.clearable : ClearAuction(u)
             /\ UNCHANGED vars
    <3>1. LabOK'
      BY <2>2, LabPreserves DEF LoopInv
    <3> QED
      BY <2>2, <3>1, StepPreserves DEF vars, vaultVars
  <2> QED
    BY <2>1, <2>2 DEF World
<1>2. UNCHANGED <<world, loop, call, account, pending, liquidations, restarts,
                  fills, lostRaces, unpaid>>
  BY DEF World, loopVars, raceHistory
<1>3. LoopTypes' /\ PendingOK'
  BY <1>2 DEF LoopInv, LoopTypes, LoopTypeOK, PendingOK
<1>4. \A k \in Keepers : KeeperOK(k)'
  BY <1>1, <1>2 DEF LoopInv, KeeperOK, Counted, DrawnForFill
<1> QED
  BY <1>1, <1>3, <1>4 DEF LoopInv

-----------------------------------------------------------------------------
LEMMA LoopInitEstablishes == LoopInit => IInv /\ LoopInv
<1> SUFFICES ASSUME LoopInit PROVE IInv /\ LoopInv
  OBVIOUS
<1>1. IInv
  BY InitEstablishes DEF LoopInit
<1>2. LabOK
  BY DEF LoopInit, LabInit, LabOK, EmptyStore
<1>3. LoopTypes
  <2>1. world \in Worlds /\ world.cycles \in Nat
    BY LoopAssumption DEF LoopInit
  <2>2. AtStart \in LoopRecord
    BY <2>1 DEF AtStart, LoopRecord, Steps
  <2> QED
    BY <2>1, <2>2, NewCallType
       DEF LoopInit, LoopTypes, LoopTypeOK, LoopRecord, CallRecord
<1>4. PendingOK
  BY DEF LoopInit, PendingOK
<1>5. \A k \in Keepers : KeeperOK(k)
  BY DEF LoopInit, KeeperOK, Counted, DrawnForFill, AtStart, NewCall
<1> QED
  BY <1>1, <1>2, <1>3, <1>4, <1>5 DEF LoopInv

LEMMA LoopStepPreserves ==
  IInv /\ LoopInv /\ [LoopNext]_allVars => IInv' /\ LoopInv'
<1> SUFFICES ASSUME IInv, LoopInv, [LoopNext]_allVars PROVE IInv' /\ LoopInv'
  OBVIOUS
<1>1. CASE \E k \in Keepers : KeeperStep(k)
  <2>1. PICK k \in Keepers : KeeperStep(k)
    BY <1>1
  <2>2. UNCHANGED <<world, account, restarts, vars, labVars, fills, lostRaces>>
    BY <2>1 DEF KeeperStep
  <2>3. IInv'
    BY <2>2, StepPreserves
  <2>4. LoopInv'
    <3>1. CASE Send(k)
      BY <2>2, <3>1, SendPreserves
    <3>2. CASE ~Send(k)
      <4>1. UNCHANGED <<pending, raceHistory>>
        BY <2>1, <2>2, <3>2 DEF KeeperStep, raceHistory
      <4> QED
        BY <2>1, <2>2, <3>2, <4>1, AwaitPreserves, ScanningPreserves
           DEF KeeperStep
    <3> QED
      BY <3>1, <3>2
  <2> QED
    BY <2>3, <2>4
<1>2. CASE \E k \in Keepers : Crash(k)
  BY <1>2, CrashPreserves, StepPreserves DEF Crash
<1>3. CASE \E tx \in pending : Include(tx)
  BY <1>3, IncludePreserves
<1>4. CASE World
  BY <1>4, WorldPreserves
<1>5. CASE UNCHANGED allVars
  <2>1. UNCHANGED vars /\ UNCHANGED labVars /\ UNCHANGED loopVars
        /\ UNCHANGED raceHistory
    BY <1>5 DEF allVars
  <2>2. IInv' /\ LabOK' /\ UNCHANGED keeperDraw
    BY <2>1, StepPreserves, LabPreserves DEF LoopInv, vars, vaultVars
  <2>3. LoopTypes' /\ PendingOK' /\ \A k \in Keepers : KeeperOK(k)'
    BY <2>1, <2>2 DEF LoopInv, LoopTypes, LoopTypeOK, PendingOK, KeeperOK,
                      Counted, DrawnForFill, loopVars, raceHistory
  <2> QED
    BY <2>2, <2>3 DEF LoopInv
<1> QED
  BY <1>1, <1>2, <1>3, <1>4, <1>5 DEF LoopNext

\* The keepers' loop, the lab and the vault keep their invariants together.
THEOREM LoopInvariance == LoopSpec => [](IInv /\ LoopInv)
BY LoopInitEstablishes, LoopStepPreserves, PTL DEF LoopSpec

\* A keeper's local state keeps its types, through retries and restarts.
THEOREM LoopTypeCorrect == LoopSpec => []LoopTypeOK
<1>1. LoopInv => LoopTypeOK
  BY DEF LoopInv, LoopTypes
<1> QED
  BY <1>1, LoopInvariance, PTL

\* vault.Draw, InvokeWithRetry: whatever happens to the transactions of earlier
\* attempts, a keeper fills an auction only with the capital drawn for it.
THEOREM FillsAreFunded == LoopSpec => []DrawnWhileFilling
<1>1. IInv /\ LoopInv => DrawnWhileFilling
  <2> SUFFICES ASSUME IInv, LoopInv, NEW k \in Keepers, loop[k].at = "Fill"
               PROVE  keeperDraw[k] >= loop[k].bid
    BY DEF DrawnWhileFilling
  <2>1. keeperDraw[k] \in Nat /\ loop[k].bid \in Nat
    BY KeeperTypes DEF IInv, TypeOK, LoopRecord
  <2> QED
    BY <2>1 DEF LoopInv, KeeperOK, DrawnForFill
<1> QED
  BY <1>1, LoopInvariance, PTL

\* handleLiquidation: a keeper counts no liquidation that the ledger does not
\* have.
THEOREM NoPhantomFills == LoopSpec => []CountedFillsHappened
<1>1. LoopInv => CountedFillsHappened
  <2> SUFFICES ASSUME LoopInv, NEW k \in Keepers
               PROVE  liquidations[k] <= fills[k]
    BY DEF CountedFillsHappened
  <2>1. liquidations[k] \in Nat /\ fills[k] \in Nat
    BY DEF LoopInv, LoopTypes
  <2> QED
    BY <2>1 DEF LoopInv, KeeperOK
<1> QED
  BY <1>1, LoopInvariance, PTL

\* draw, return_proceeds: the keepers' own calls, whose bids are sums that no
\* set of amounts bounds, keep the vault's books: no USDC is lost, and the two
\* contracts agree on the open draws.
THEOREM KeepersKeepBooks == LoopSpec => [](CashConserved /\ DrawsTracked)
<1>1. IInv => CashConserved /\ DrawsTracked
  BY DEF IInv
<1> QED
  BY <1>1, LoopInvariance, PTL

-----------------------------------------------------------------------------
(* A network without faults.                                               *)

\* Why a keeper has a draw outstanding: it is between its draw and its return,
\* or something it noted went wrong.
Explained(k) ==
  keeperDraw[k] > 0 =>
    \/ lostRaces[k] > 0
    \/ unpaid[k] > 0
    \/ loop[k].at = "Draw" /\ call[k].result = "SUCCESS"
    \/ loop[k].at = "Fill" /\ loop[k].bid > 0
    \/ loop[k].at = "Return" /\ call[k].result # "SUCCESS"

\* Without faults all that the network holds of k is the transaction that k
\* waits for, which has a sequence number of its own; a fill that failed is a
\* lost race, and a return that failed was not paid.
CalmOK(k) ==
  /\ \A tx \in pending : tx.keeper = k =>
       call[k].stage = "await" /\ call[k].result = "unknown" /\ tx = Transaction(k)
  /\ call[k].stage = "send" => call[k].seq = account[k] + 1
  /\ loop[k].at = "Draw" => loop[k].bid > 0
  /\ loop[k].at = "Fill" /\ call[k].result = "FAILED" => lostRaces[k] > 0
  /\ loop[k].at = "Return" /\ call[k].result = "FAILED" => unpaid[k] > 0
  /\ Explained(k)

CalmInv == ~world.faulty => \A k \in Keepers : CalmOK(k)

\* A keeper that nothing happens to.
LEMMA CalmElsewhere ==
  ASSUME NEW k \in Keepers, CalmOK(k),
         loop'[k] = loop[k], call'[k] = call[k], account'[k] = account[k],
         restarts'[k] = restarts[k], keeperDraw'[k] = keeperDraw[k],
         lostRaces'[k] = lostRaces[k], unpaid'[k] = unpaid[k],
         \A tx \in pending' : tx.keeper = k => tx \in pending
  PROVE  CalmOK(k)'
BY DEF CalmOK, Explained, Transaction

\* What a keeper's step between two transactions leaves alone.
Quiet(k) ==
  /\ UNCHANGED <<account, restarts, pending, keeperDraw, lostRaces>>
  /\ unpaid[k] \in Nat /\ unpaid'[k] \in Nat /\ unpaid'[k] >= unpaid[k]

\* Such a step.
Moved(k, l, c) ==
  /\ loop' = [loop EXCEPT ![k] = l]
  /\ call' = [call EXCEPT ![k] = c]
  /\ c.result = "unknown"
  /\ c.stage = "send" => c.seq = account[k] + 1
  /\ l.at = "Draw" => l.bid > 0
  /\ Quiet(k)

\* A step that leaves nothing to be included is calm, if the capital that is
\* out is still accounted for.
LEMMA CalmMove ==
  ASSUME LoopInv, NEW k \in Keepers, \A tx \in pending : tx.keeper # k,
         NEW l, NEW c, Moved(k, l, c),
         keeperDraw[k] > 0 =>
           \/ lostRaces[k] > 0 \/ unpaid'[k] > 0
           \/ (l.at = "Fill" /\ l.bid > 0) \/ l.at = "Return"
  PROVE  CalmOK(k)'
<1>1. loop'[k] = l /\ call'[k] = c
  BY DEF Moved, LoopInv, LoopTypes, LoopTypeOK
<1> QED
  BY <1>1 DEF Moved, Quiet, CalmOK, Explained

\* A new call at another step.
LEMMA CalmGoto ==
  ASSUME LoopInv, NEW k \in Keepers, \A tx \in pending : tx.keeper # k,
         Quiet(k), NEW at, Goto(k, at), at # "Draw",
         keeperDraw[k] > 0 =>
           \/ lostRaces[k] > 0 \/ unpaid'[k] > 0
           \/ (at = "Fill" /\ loop[k].bid > 0) \/ at = "Return"
  PROVE  CalmOK(k)'
<1> DEFINE l == [loop[k] EXCEPT !.at = at]
<1>1. loop[k] \in LoopRecord
  BY KeeperTypes
<1>2. l.at = at /\ l.bid = loop[k].bid
  BY <1>1 DEF LoopRecord
<1>3. loop' = [loop EXCEPT ![k] = l] /\ call' = [call EXCEPT ![k] = NewCall]
  BY DEF Goto
<1>4. NewCall.result = "unknown" /\ NewCall.stage = "read"
  BY DEF NewCall
<1> HIDE DEF l
<1>5. Moved(k, l, NewCall)
  BY <1>2, <1>3, <1>4 DEF Moved
<1> QED
  BY <1>2, <1>5, CalmMove

\* handleLiquidation returns.
LEMMA CalmNext ==
  ASSUME LoopInv, NEW k \in Keepers, \A tx \in pending : tx.keeper # k,
         Quiet(k), NextPosition(k),
         keeperDraw[k] > 0 => lostRaces[k] > 0 \/ unpaid'[k] > 0
  PROVE  CalmOK(k)'
<1> DEFINE l == [loop[k] EXCEPT !.at = "Scan", !.user = Nobody, !.bid = 0,
                                !.ms = 0]
<1>1. loop[k] \in LoopRecord
  BY KeeperTypes
<1>2. l.at = "Scan"
  BY <1>1 DEF LoopRecord
<1>3. loop' = [loop EXCEPT ![k] = l] /\ call' = [call EXCEPT ![k] = NewCall]
  BY DEF NextPosition
<1>4. NewCall.result = "unknown" /\ NewCall.stage = "read"
  BY DEF NewCall
<1> HIDE DEF l
<1>5. Moved(k, l, NewCall)
  BY <1>2, <1>3, <1>4 DEF Moved
<1> QED
  BY <1>2, <1>5, CalmMove

\* Send, without faults: a refused return was not paid, a refused fill goes on
\* to return what was drawn, and anything else had nothing out.
LEMMA CalmSend ==
  ASSUME LoopInv, NEW k \in Keepers, CalmOK(k), Send(k),
         UNCHANGED <<world, account, restarts, vars, labVars, fills, lostRaces>>
  PROVE  CalmOK(k)'
<1>1. /\ call[k].stage = "send" /\ call[k].result = "unknown"
      /\ \A tx \in pending : tx.keeper # k
  BY DEF Send, LoopInv, KeeperOK, CalmOK
<1>2. unpaid[k] \in Nat /\ unpaid'[k] \in Nat /\ unpaid'[k] >= unpaid[k]
  BY DEF LoopInv, LoopTypes, Send
<1>3. loop[k] \in LoopRecord
  BY KeeperTypes
<1>4. CASE ~Allowed(Transaction(k)) /\ Refused(k) /\ UNCHANGED pending
  <2>1. Quiet(k)
    BY <1>2, <1>4 DEF Quiet, vars, vaultVars
  <2>2. CASE loop[k].at = "Return"
    <3>1. unpaid'[k] > 0
      BY <1>4, <2>2 DEF Send, LoopInv, LoopTypes
    <3>2. NextPosition(k)
      BY <1>4, <2>2 DEF Refused, GiveUp
    <3> QED
      BY <1>1, <2>1, <3>1, <3>2, CalmNext
  <2>3. CASE loop[k].at = "Fill"
    <3>1. AlreadyFilled(k)
      BY <1>4, <2>3 DEF Refused
    <3>2. CASE loop[k].bid > 0
      BY <1>1, <2>1, <3>1, <3>2, CalmGoto DEF AlreadyFilled
    <3>3. CASE ~(loop[k].bid > 0)
      <4>1. keeperDraw[k] > 0 => lostRaces[k] > 0 \/ unpaid[k] > 0
        BY <2>3, <3>3 DEF CalmOK, Explained
      <4>2. keeperDraw[k] > 0 => lostRaces[k] > 0 \/ unpaid'[k] > 0
        BY <1>2, <4>1
      <4> QED
        BY <1>1, <2>1, <3>1, <3>3, <4>2, CalmNext DEF AlreadyFilled
    <3> QED
      BY <3>2, <3>3
  <2>4. CASE loop[k].at \notin {"Return", "Fill"}
    <3>1. keeperDraw[k] > 0 => lostRaces[k] > 0 \/ unpaid[k] > 0
      BY <1>1, <2>4 DEF CalmOK, Explained
    <3>2. keeperDraw[k] > 0 => lostRaces[k] > 0 \/ unpaid'[k] > 0
      BY <1>2, <3>1
    <3>3. Goto(k, "Auction") \/ Goto(k, "Idle") \/ NextPosition(k)
      BY <1>4, <2>4 DEF Refused, GiveUp
    <3> QED
      BY <1>1, <2>1, <3>2, <3>3, CalmGoto, CalmNext
  <2> QED
    BY <2>2, <2>3, <2>4
<1>5. CASE /\ pending' = pending \cup {Transaction(k)}
           /\ call' = [call EXCEPT ![k].stage = "await"]
           /\ UNCHANGED <<loop, liquidations>>
  <2>1. /\ call'[k].stage = "await" /\ call'[k].result = "unknown"
        /\ call'[k].seq = call[k].seq /\ call'[k].attempt = call[k].attempt
    BY <1>1, <1>5 DEF LoopInv, LoopTypes, LoopTypeOK
  <2>2. Transaction(k)' = Transaction(k)
    BY <1>5, <2>1 DEF Transaction
  <2>3. \A tx \in pending' : tx.keeper = k => tx = Transaction(k)'
    BY <1>1, <1>5, <2>2
  <2>4. UNCHANGED <<loop, account, restarts, keeperDraw, lostRaces>>
    BY <1>5 DEF vars, vaultVars
  <2>5. Explained(k)'
    BY <1>1, <1>2, <2>1, <2>4 DEF CalmOK, Explained
  <2> QED
    BY <2>1, <2>3, <2>4, <2>5 DEF CalmOK
<1> QED
  BY <1>1, <1>4, <1>5 DEF Send, CalmOK

\* Await, without faults.
LEMMA CalmAwait ==
  ASSUME LoopInv, NEW k \in Keepers, CalmOK(k), Await(k), Quiet(k)
  PROVE  CalmOK(k)'
<1>1. /\ loop[k].at \in Calls /\ call[k].result # "unknown"
      /\ \A tx \in pending : tx.keeper # k
  BY DEF Await, LoopInv, KeeperOK
<1>2. lostRaces[k] > 0 \/ unpaid[k] > 0 => lostRaces[k] > 0 \/ unpaid'[k] > 0
  BY DEF Quiet
<1>3. CASE call[k].result = "FAILED" /\ GiveUp(k)
  <2>1. keeperDraw[k] > 0 => lostRaces[k] > 0 \/ unpaid[k] > 0
    BY <1>3 DEF CalmOK, Explained
  <2>2. Goto(k, "Idle") \/ NextPosition(k)
    BY <1>3 DEF GiveUp
  <2> QED
    BY <1>1, <1>2, <2>1, <2>2, CalmGoto, CalmNext
<1>4. CASE call[k].result = "SUCCESS" /\ Succeeded(k)
  <2>1. CASE loop[k].at = "Draw"
    <3>1. Goto(k, "Fill") /\ loop[k].bid > 0
      BY <1>4, <2>1 DEF Succeeded, CalmOK
    <3> QED
      BY <1>1, <3>1, CalmGoto
  <2>2. CASE loop[k].at = "Fill"
    <3>1. Filled(k)
      BY <1>4, <2>2 DEF Succeeded
    <3>2. CASE loop[k].bid > 0
      <4> DEFINE l == [loop[k] EXCEPT !.at = "Return", !.ms = 1]
      <4>1. loop[k] \in LoopRecord
        BY KeeperTypes
      <4>2. l.at = "Return"
        BY <4>1 DEF LoopRecord
      <4>3. loop' = [loop EXCEPT ![k] = l] /\ call' = [call EXCEPT ![k] = NewCall]
        BY <3>1, <3>2 DEF Filled
      <4>4. NewCall.result = "unknown" /\ NewCall.stage = "read"
        BY DEF NewCall
      <4> HIDE DEF l
      <4>5. Moved(k, l, NewCall)
        BY <4>2, <4>3, <4>4 DEF Moved
      <4> QED
        BY <1>1, <4>2, <4>5, CalmMove
    <3>3. CASE ~(loop[k].bid > 0)
      <4>1. keeperDraw[k] > 0 => lostRaces[k] > 0 \/ unpaid[k] > 0
        BY <2>2, <3>3 DEF CalmOK, Explained
      <4> QED
        BY <1>1, <1>2, <3>1, <3>3, <4>1, CalmNext DEF Filled
    <3> QED
      BY <3>2, <3>3
  <2>3. CASE loop[k].at \notin {"Draw", "Fill"}
    <3>1. keeperDraw[k] > 0 => lostRaces[k] > 0 \/ unpaid[k] > 0
      BY <1>4, <2>3 DEF CalmOK, Explained
    <3>2. Goto(k, "Idle") \/ Goto(k, "Auction") \/ NextPosition(k)
      BY <1>1, <1>4, <2>3 DEF Succeeded, Calls
    <3> QED
      BY <1>1, <1>2, <3>1, <3>2, CalmGoto, CalmNext
  <2> QED
    BY <2>1, <2>2, <2>3
<1> QED
  BY <1>3, <1>4 DEF Await

\* The keeper's other steps, without faults.
LEMMA CalmScanning ==
  ASSUME LoopInv, NEW k \in Keepers, CalmOK(k), ~world.faulty, Quiet(k),
         Start(k) \/ Poll(k) \/ Scan(k) \/ GetAuction(k) \/ ReadAccount(k)
  PROVE  CalmOK(k)'
<1>1. /\ loop[k] \in LoopRecord /\ call[k] \in CallRecord
      /\ loop \in [Keepers -> LoopRecord] /\ call \in [Keepers -> CallRecord]
  BY KeeperTypes DEF LoopInv, LoopTypes, LoopTypeOK, LoopRecord, CallRecord
<1>2. ASSUME loop[k].at \notin Calls \/ call[k].stage = "read"
      PROVE  call[k].result = "unknown" /\ \A tx \in pending : tx.keeper # k
  <2>1. call[k].result = "unknown"
    BY <1>2 DEF LoopInv, KeeperOK
  <2>2. ASSUME NEW tx \in pending, tx.keeper = k PROVE FALSE
    <3>1. call[k].stage = "await" /\ tx = Transaction(k)
      BY <2>2 DEF CalmOK
    <3>2. tx.at = loop[k].at
      BY <3>1 DEF Transaction
    <3> QED
      BY <1>2, <3>1, <3>2 DEF LoopInv, LoopTypes, LoopTypeOK
  <2> QED
    BY <2>1, <2>2
<1>3. ASSUME loop[k].at \notin Calls
      PROVE  keeperDraw[k] > 0 => lostRaces[k] > 0 \/ unpaid'[k] > 0
  <2>1. keeperDraw[k] > 0 => lostRaces[k] > 0 \/ unpaid[k] > 0
    BY <1>3 DEF CalmOK, Explained, Calls
  <2> QED
    BY <2>1 DEF Quiet
<1>4. CASE Start(k)
  BY <1>2, <1>3, <1>4, CalmGoto DEF Start, Calls
<1>5. CASE Poll(k) \/ Scan(k)
  <2>1. loop[k].at \notin Calls /\ UNCHANGED call
    BY <1>5 DEF Poll, Scan, Calls
  <2>2. PICK l : loop' = [loop EXCEPT ![k] = l] /\ l.at \in {"Scan", "Idle", "Create"}
    <3>1. CASE Poll(k)
      <4>1. PICK work \in SUBSET Liquidatable :
              loop' = [loop EXCEPT ![k].at = "Scan", ![k].cycle = @ + 1,
                                   ![k].work = work]
        BY <3>1 DEF Poll
      <4> DEFINE l == [loop[k] EXCEPT !.at = "Scan", !.cycle = @ + 1,
                                      !.work = work]
      <4>2. l.at = "Scan"
        BY <1>1 DEF LoopRecord
      <4>3. loop' = [loop EXCEPT ![k] = l]
        BY <4>1
      <4> HIDE DEF l
      <4> QED
        BY <4>2, <4>3
    <3>2. CASE Scan(k) /\ loop[k].work = {}
      <4> DEFINE l == [loop[k] EXCEPT !.at = "Idle"]
      <4>1. l.at = "Idle"
        BY <1>1 DEF LoopRecord
      <4>2. loop' = [loop EXCEPT ![k] = l]
        BY <3>2 DEF Scan
      <4> HIDE DEF l
      <4> QED
        BY <4>1, <4>2
    <3>3. CASE Scan(k) /\ loop[k].work # {}
      <4>1. PICK u \in loop[k].work :
              loop' = [loop EXCEPT ![k].at = "Create", ![k].user = u,
                                   ![k].work = @ \ {u}]
        BY <3>3 DEF Scan
      <4> DEFINE l == [loop[k] EXCEPT !.at = "Create", !.user = u,
                                      !.work = @ \ {u}]
      <4>2. l.at = "Create"
        BY <1>1 DEF LoopRecord
      <4>3. loop' = [loop EXCEPT ![k] = l]
        BY <4>1
      <4> HIDE DEF l
      <4> QED
        BY <4>2, <4>3
    <3> QED
      BY <1>5, <3>1, <3>2, <3>3
  <2>3. Moved(k, l, call[k])
    BY <1>1, <1>2, <2>1, <2>2 DEF Moved, CalmOK
  <2> QED
    BY <1>2, <1>3, <2>1, <2>2, <2>3, CalmMove
<1>6. CASE GetAuction(k)
  <2>1. loop[k].at \notin Calls
    BY <1>6 DEF GetAuction, Calls
  <2>2. CASE NextPosition(k)
    BY <1>2, <1>3, <2>1, <2>2, CalmNext
  <2>3. CASE ~NextPosition(k)
    <3> DEFINE bid == Total(auctions[loop[k].user].bid)
               l == [loop[k] EXCEPT !.bid = bid,
                                    !.at = IF bid > 0 THEN "Draw" ELSE "Fill"]
    <3>1. loop' = [loop EXCEPT ![k] = l] /\ call' = [call EXCEPT ![k] = NewCall]
      BY <1>6, <2>3 DEF GetAuction
    <3> HIDE DEF bid
    <3>2. l.at = "Draw" => l.bid > 0
      BY <1>1 DEF LoopRecord
    <3>3. NewCall.result = "unknown" /\ NewCall.stage = "read"
      BY DEF NewCall
    <3> HIDE DEF l
    <3>4. Moved(k, l, NewCall)
      BY <3>1, <3>2, <3>3 DEF Moved
    <3> QED
      BY <1>2, <1>3, <2>1, <3>4, CalmMove
  <2> QED
    BY <2>2, <2>3
<1>7. CASE ReadAccount(k)
  <2> DEFINE c == [call[k] EXCEPT !.stage = "send", !.seq = account[k] + 1]
  <2>1. /\ loop[k].at \in Calls /\ call[k].stage = "read" /\ UNCHANGED loop
        /\ call' = [call EXCEPT ![k] = c]
    BY <1>7 DEF ReadAccount, SequencesFor
  <2>2. c.result = call[k].result /\ c.seq = account[k] + 1
    BY <1>1 DEF CallRecord
  <2>3. loop' = [loop EXCEPT ![k] = loop[k]]
    BY <1>1, <2>1
  <2> HIDE DEF c
  <2>4. call[k].result = "unknown"
    BY <1>2, <2>1
  <2>5. Moved(k, loop[k], c)
    BY <2>1, <2>2, <2>3, <2>4 DEF Moved, CalmOK
  <2>6. keeperDraw[k] > 0 =>
          \/ lostRaces[k] > 0 \/ unpaid'[k] > 0
          \/ (loop[k].at = "Fill" /\ loop[k].bid > 0) \/ loop[k].at = "Return"
    BY <2>4 DEF CalmOK, Explained, Quiet
  <2> QED
    BY <1>2, <2>1, <2>5, <2>6, CalmMove
<1> QED
  BY <1>4, <1>5, <1>6, <1>7

\* A keeper's step is its own.
LEMMA OthersStand ==
  ASSUME NEW k \in Keepers, NEW j \in Keepers, j # k,
         loop \in [Keepers -> LoopRecord], call \in [Keepers -> CallRecord],
         \/ Send(k) \/ Start(k) \/ Poll(k) \/ Scan(k) \/ GetAuction(k)
         \/ ReadAccount(k) \/ Await(k) \/ Fault(k)
  PROVE  loop'[j] = loop[j] /\ call'[j] = call[j]
<1>1. NextPosition(k) \/ (\E at : Goto(k, at)) => loop'[j] = loop[j] /\ call'[j] = call[j]
  BY DEF NextPosition, Goto
<1>2. GiveUp(k) => NextPosition(k) \/ \E at : Goto(k, at)
  BY DEF GiveUp
<1>3. Retried(k) => loop'[j] = loop[j] /\ call'[j] = call[j]
  BY <1>1, <1>2 DEF Retried
<1>4. AlreadyFilled(k) => NextPosition(k) \/ \E at : Goto(k, at)
  BY DEF AlreadyFilled
<1>5. Filled(k) => loop'[j] = loop[j] /\ call'[j] = call[j]
  BY <1>1 DEF Filled
<1>6. CASE Send(k)
  <2>1. Refused(k) => NextPosition(k) \/ \E at : Goto(k, at)
    BY <1>2, <1>4 DEF Refused
  <2> QED
    BY <1>1, <1>2, <1>6, <2>1 DEF Send
<1>7. CASE Start(k) \/ Poll(k) \/ Scan(k)
  BY <1>1, <1>7 DEF Start, Poll, Scan
<1>8. CASE GetAuction(k)
  <2>1. CASE NextPosition(k)
    BY <1>1, <2>1
  <2>2. CASE ~NextPosition(k)
    <3>1. /\ \E l : loop' = [loop EXCEPT ![k] = l]
          /\ call' = [call EXCEPT ![k] = NewCall]
      BY <1>8, <2>2 DEF GetAuction
    <3> QED
      BY <3>1
  <2> QED
    BY <2>1, <2>2
<1>9. CASE ReadAccount(k)
  BY <1>9 DEF ReadAccount
<1>10. CASE Await(k)
  <2>1. Succeeded(k) => Filled(k) \/ NextPosition(k) \/ \E at : Goto(k, at)
    BY <1>10 DEF Await, Calls, Succeeded
  <2> QED
    BY <1>1, <1>2, <1>5, <1>10, <2>1 DEF Await
<1>11. CASE Fault(k)
  BY <1>1, <1>2, <1>3, <1>11 DEF Fault
<1> QED
  BY <1>6, <1>7, <1>8, <1>9, <1>10, <1>11

\* The network includes k's transaction, without faults: it is the one that k
\* waits for.
LEMMA CalmInclude ==
  ASSUME IInv, LoopInv, NEW tx \in pending, Include(tx), CalmOK(tx.keeper)
  PROVE  CalmOK(tx.keeper)'
<1> DEFINE k == tx.keeper
           ok == Allowed(tx)
<1>1. /\ k \in Keepers /\ tx.at \in Calls
      /\ keeperDraw \in [Keepers -> Nat] /\ keeperDraw' \in [Keepers -> Nat]
  <2>1. keeperDraw \in [Keepers -> Nat] /\ IInv'
    BY IncludePreserves DEF IInv, TypeOK
  <2>2. keeperDraw' \in [Keepers -> Nat]
    BY <2>1 DEF IInv, TypeOK
  <2> QED
    BY <2>1, <2>2 DEF LoopInv, LoopTypes, LoopTypeOK
<1>2. /\ call[k].stage = "await" /\ call[k].result = "unknown"
      /\ tx = Transaction(k) /\ tx.at = loop[k].at
  BY DEF CalmOK, Transaction
<1>3. /\ ok /\ tx.at \notin {"Draw", "Return"} => keeperDraw' = keeperDraw
      /\ ok /\ tx.at = "Return" => keeperDraw'[k] = 0
      /\ ~ok => keeperDraw' = keeperDraw
  <2>1. CASE ok
    BY <2>1, ExecutePreserves DEF Include
  <2>2. CASE ~ok
    BY <2>2 DEF Include, vars, vaultVars
  <2> QED
    BY <2>1, <2>2
<1> HIDE DEF ok
<1>4. /\ call' = [call EXCEPT ![k].result = IF ok THEN "SUCCESS" ELSE "FAILED"]
      /\ lostRaces' = IF ~ok /\ tx.at = "Fill"
                      THEN [lostRaces EXCEPT ![k] = @ + 1] ELSE lostRaces
      /\ unpaid' = IF ~ok /\ tx.at = "Return"
                   THEN [unpaid EXCEPT ![k] = @ + 1] ELSE unpaid
      /\ UNCHANGED loop
  BY <1>2 DEF Include, ok
<1>5. \A t \in pending' : t.keeper # k
  <2>1. pending' = {t \in pending : t.keeper # k \/ t.seq > tx.seq}
    BY DEF Include
  <2>2. account[k] + 1 \in Nat
    BY <1>1 DEF LoopInv, LoopTypes, LoopTypeOK
  <2>3. \A t \in pending : t.keeper = k => ~(t.seq > tx.seq)
    BY <2>2 DEF LoopInv, PendingOK
  <2> QED
    BY <2>1, <2>3
<1>6. /\ call'[k].stage = "await"
      /\ call'[k].result = IF ok THEN "SUCCESS" ELSE "FAILED"
  BY <1>1, <1>2, <1>4 DEF LoopInv, LoopTypes, LoopTypeOK
<1>7. /\ lostRaces[k] \in Nat /\ unpaid[k] \in Nat
      /\ lostRaces'[k] >= lostRaces[k] /\ unpaid'[k] >= unpaid[k]
      /\ lostRaces'[k] \in Nat /\ unpaid'[k] \in Nat
      /\ ~ok /\ tx.at = "Fill" => lostRaces'[k] > 0
      /\ ~ok /\ tx.at = "Return" => unpaid'[k] > 0
  BY <1>1, <1>4 DEF LoopInv, LoopTypes
<1>8. Explained(k)'
  <2> SUFFICES ASSUME keeperDraw'[k] > 0
               PROVE  \/ lostRaces'[k] > 0 \/ unpaid'[k] > 0
                      \/ loop'[k].at = "Draw" /\ call'[k].result = "SUCCESS"
                      \/ loop'[k].at = "Fill" /\ loop'[k].bid > 0
                      \/ loop'[k].at = "Return" /\ call'[k].result # "SUCCESS"
    BY DEF Explained
  <2>1. CASE tx.at = "Draw" /\ ok
    BY <1>2, <1>4, <1>6, <2>1
  <2>2. CASE tx.at = "Return"
    BY <1>2, <1>3, <1>4, <1>6, <1>7, <2>2
  <2>3. CASE tx.at # "Return" /\ ~(tx.at = "Draw" /\ ok)
    <3>1. keeperDraw[k] > 0
      BY <1>3, <2>3
    <3>2. \/ lostRaces[k] > 0 \/ unpaid[k] > 0
          \/ loop[k].at = "Fill" /\ loop[k].bid > 0
      <4>1. Explained(k)
        BY DEF CalmOK
      <4>2. call[k].result # "SUCCESS" /\ loop[k].at # "Return"
        BY <1>2, <2>3
      <4> QED
        BY <3>1, <4>1, <4>2 DEF Explained
    <3> QED
      BY <1>4, <1>7, <3>2
  <2> QED
    BY <2>1, <2>2, <2>3
<1>9. loop'[k].at = "Draw" => loop'[k].bid > 0
  BY <1>4 DEF CalmOK
<1> QED
  BY <1>2, <1>4, <1>5, <1>6, <1>7, <1>8, <1>9 DEF CalmOK

LEMMA CalmStep ==
  IInv /\ LoopInv /\ CalmInv /\ [LoopNext]_allVars => CalmInv'
<1> SUFFICES ASSUME IInv, LoopInv, CalmInv, [LoopNext]_allVars,
                    ~world'.faulty, NEW j \in Keepers
             PROVE  CalmOK(j)'
  BY DEF CalmInv
<1>1. UNCHANGED world
  BY DEF LoopNext, KeeperStep, Crash, Include, World, loopVars, allVars
<1>2. ~world.faulty /\ CalmOK(j)
  BY <1>1 DEF CalmInv
<1>3. CASE \E k \in Keepers : KeeperStep(k)
  <2>1. PICK k \in Keepers : KeeperStep(k)
    BY <1>3
  <2>2. UNCHANGED <<account, restarts, keeperDraw, lostRaces>>
    BY <2>1 DEF KeeperStep, vars, vaultVars
  <2>3. CASE j = k
    <3>1. CASE Send(k)
      BY <1>2, <2>1, <2>3, <3>1, CalmSend DEF KeeperStep
    <3>2. CASE ~Send(k)
      <4>1. UNCHANGED <<pending, unpaid>>
        BY <2>1, <3>2 DEF KeeperStep
      <4>2. Quiet(k)
        BY <2>2, <4>1 DEF Quiet, LoopInv, LoopTypes
      <4> QED
        BY <1>2, <2>1, <2>3, <3>2, <4>2, CalmAwait, CalmScanning
           DEF KeeperStep, Fault
    <3> QED
      BY <3>1, <3>2
  <2>4. CASE j # k
    <3>1. /\ loop'[j] = loop[j] /\ call'[j] = call[j] /\ unpaid'[j] = unpaid[j]
          /\ \A tx \in pending' : tx.keeper = j => tx \in pending
      <4>1. loop \in [Keepers -> LoopRecord] /\ call \in [Keepers -> CallRecord]
        BY DEF LoopInv, LoopTypes, LoopTypeOK, LoopRecord, CallRecord
      <4>2. loop'[j] = loop[j] /\ call'[j] = call[j]
        BY <2>1, <2>4, <4>1, OthersStand DEF KeeperStep
      <4>3. CASE Send(k)
        <5>1. \A tx \in pending' : tx \in pending \/ tx = Transaction(k)
          BY <4>3 DEF Send
        <5>2. Transaction(k).keeper = k
          BY DEF Transaction
        <5>3. unpaid'[j] = unpaid[j]
          BY <2>4, <4>3 DEF Send, LoopInv, LoopTypes
        <5> QED
          BY <2>4, <4>2, <5>1, <5>2, <5>3
      <4>4. CASE ~Send(k)
        BY <2>1, <4>2, <4>4 DEF KeeperStep
      <4> QED
        BY <4>3, <4>4
    <3> QED
      BY <1>2, <2>2, <3>1, CalmElsewhere
  <2> QED
    BY <2>3, <2>4
<1>4. CASE \E k \in Keepers : Crash(k)
  BY <1>2, <1>4 DEF Crash
<1>5. CASE \E tx \in pending : Include(tx)
  <2>1. PICK tx \in pending : Include(tx)
    BY <1>5
  <2>2. CASE j = tx.keeper
    BY <1>2, <2>1, <2>2, CalmInclude
  <2>3. CASE j # tx.keeper
    <3>1. /\ tx.keeper \in Keepers /\ keeperDraw'[j] = keeperDraw[j]
      <4>1. tx.keeper \in Keepers
        BY DEF LoopInv, LoopTypes, LoopTypeOK
      <4>2. CASE Allowed(tx)
        BY <2>1, <2>3, <4>1, <4>2, ExecutePreserves DEF Include
      <4>3. CASE ~Allowed(tx)
        BY <2>1, <4>1, <4>3 DEF Include, vars, vaultVars
      <4> QED
        BY <4>1, <4>2, <4>3
    <3>2. /\ loop'[j] = loop[j] /\ call'[j] = call[j]
          /\ account'[j] = account[j] /\ restarts'[j] = restarts[j]
          /\ lostRaces'[j] = lostRaces[j] /\ unpaid'[j] = unpaid[j]
          /\ pending' \subseteq pending
      BY <2>1, <2>3, <3>1 DEF Include, LoopInv, LoopTypes, LoopTypeOK
    <3> QED
      BY <1>2, <3>1, <3>2, CalmElsewhere
  <2> QED
    BY <2>2, <2>3
<1>6. CASE World
  <2>1. UNCHANGED <<loop, call, account, restarts, pending, lostRaces, unpaid,
                    keeperDraw>>
    BY <1>6, WorldPreserves DEF World, loopVars, raceHistory
  <2> QED
    BY <1>2, <2>1, CalmElsewhere
<1>7. CASE UNCHANGED allVars
  <2>1. UNCHANGED <<loop, call, account, restarts, pending, lostRaces, unpaid,
                    keeperDraw>>
    BY <1>7 DEF allVars, loopVars, raceHistory, vars, vaultVars
  <2> QED
    BY <1>2, <2>1, CalmElsewhere
<1> QED
  BY <1>3, <1>4, <1>5, <1>6, <1>7 DEF LoopNext

LEMMA CalmInvariance == LoopSpec => []CalmInv
<1>1. LoopInit => CalmInv
  BY DEF LoopInit, Init, VaultInit, CalmInv, CalmOK, Explained, AtStart, NewCall
<1> QED
  BY <1>1, LoopInvariance, CalmStep, PTL DEF LoopSpec

\* handleLiquidation, on a network without faults, for every number of keepers:
\* whoever owes the vault between two polls was beaten to an auction after
\* sending its fill, or had a return refused that it could not pay.
THEOREM OwingIsExplained == LoopSpec => []OnlyLosersOwe
<1>1. LoopInv /\ CalmInv => OnlyLosersOwe
  BY DEF CalmInv, CalmOK, Explained, OnlyLosersOwe
<1> QED
  BY <1>1, CalmInvariance, LoopInvariance, PTL
=============================================================================
