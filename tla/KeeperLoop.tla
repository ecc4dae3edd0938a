----------------------------- MODULE KeeperLoop -----------------------------
(***************************************************************************)
(* Several keepers (keeper/main.go) at work: each scans the pool, opens an *)
(* auction, draws the bid from the vault, fills the auction and returns    *)
(* the capital with a tenth on top.  A keeper's step is one round trip to  *)
(* the network; transactions it has sent are included in the ledger later, *)
(* or never, and it may not learn which.  The contracts are those of       *)
(* NectarVault and LiquidationLab.                                         *)
(***************************************************************************)
EXTENDS NectarVault, LiquidationLab

CONSTANTS
  Deposits,     \* the amounts deposited
  Nobody,       \* stands for no position
  Pct,          \* the part of a position that keepers put up for auction
  Worlds,       \* what may go wrong, of which one is chosen: faulty, whether
                \* round trips fail, transactions get lost and keepers die;
                \* clearable, whose auctions the lab's admin may clear;
                \* and cycles, a bound of the model: the cycles of one run of
                \* a keeper
  MaxRestarts   \* bound of the model: how often a keeper is restarted

ASSUME LoopAssumption ==
  /\ Deposits \subseteq Amounts
  /\ {0, 1} \subseteq ResponseTimes
  /\ Nobody \notin Borrowers
  /\ Pct \in Nat
  /\ Worlds \subseteq [faulty : BOOLEAN, clearable : SUBSET Borrowers, cycles : Nat]
  /\ MaxRestarts \in Nat

VARIABLES
  world,        \* the world it is
  loop,         \* per keeper: where it is, and its local variables
  call,         \* per keeper: the state of InvokeWithRetry and Invoke
  account,      \* per keeper: the sequence number of its account
  pending,      \* the transactions sent and not yet included
  liquidations, \* per keeper: appMetrics.liquidationsTotal
  restarts      \* per keeper: how often it has been restarted

loopVars == <<world, loop, call, account, pending, liquidations, restarts>>

\* History variables.
VARIABLES
  fills,        \* per keeper: the auctions it filled on the ledger
  lostRaces,    \* per keeper: its fills that failed on the ledger, because
                \* another keeper was first
  unpaid        \* per keeper: its returns that the vault refused, because it
                \* cannot pay what it wants to return

raceHistory == <<fills, lostRaces, unpaid>>

allVars == <<vars, labVars, loopVars, raceHistory>>

-----------------------------------------------------------------------------
(* What a keeper holds.                                                    *)

\* The calls a keeper makes to contracts, named for where it makes them.
Calls == {"Register", "Create", "Draw", "Fill", "Return"}

\* MaxAttempts of the RetryConfig that the call is made with.
MaxAttempts(at) == IF at = "Draw" THEN 2 ELSE 3

\* Between them: not running, waiting for the next poll, at the next underwater
\* position, at get_auction.
Steps == Calls \cup {"Off", "Idle", "Scan", "Auction"}

\* at: the step; cycle: the polls so far; work: the underwater positions not
\* yet handled; user, bid, ms: the position at hand, bidAmt, responseMs.
AtStart == [at |-> "Off", cycle |-> 0, work |-> {}, user |-> Nobody,
            bid |-> 0, ms |-> 0]

\* stage: whether Invoke is about to read the account ("read"), to simulate
\* and send ("send"), or to poll for the result ("await"); sent: the
\* transaction it waits for, result: what the ledger did with it.
NewCall == [attempt |-> 1, stage |-> "read", seq |-> 0, result |-> "unknown"]

\* proceeds, in both branches that return capital.
Proceeds(bid) == bid + bid \div 10

\* The transaction that k sends at its current step.
Transaction(k) ==
  [keeper |-> k, at |-> loop[k].at, user |-> loop[k].user, bid |-> loop[k].bid,
   ms |-> loop[k].ms, seq |-> call[k].seq,
   id |-> <<restarts[k], loop[k].cycle, call[k].attempt>>]

-----------------------------------------------------------------------------
(* Where the loop goes when a call is over.                                *)

Goto(k, at) ==
  /\ loop' = [loop EXCEPT ![k].at = at]
  /\ call' = [call EXCEPT ![k] = NewCall]

\* handleLiquidation is done with a position, or returns an error.
NextPosition(k) ==
  /\ loop' = [loop EXCEPT ![k].at = "Scan", ![k].user = Nobody,
                          ![k].bid = 0, ![k].ms = 0]
  /\ call' = [call EXCEPT ![k] = NewCall]

\* Mistake: the error of vault.Draw is ignored, too.
GiveUpButFill(k) ==
  CASE loop[k].at = "Register" -> Goto(k, "Idle")
    [] loop[k].at = "Draw" -> Goto(k, "Fill")
    [] OTHER -> NextPosition(k)

\* The call failed for good.  registry.Register's error is ignored.
GiveUp(k) ==
  IF loop[k].at = "Register" THEN Goto(k, "Idle") ELSE NextPosition(k)

\* Mistake: the capital is not returned after a fill.
FilledAndKept(k) ==
  /\ liquidations' = [liquidations EXCEPT ![k] = @ + 1]
  /\ NextPosition(k)

\* The fill succeeded: it is counted, and there is something to return
\* unless nothing was drawn.
Filled(k) ==
  /\ liquidations' = [liquidations EXCEPT ![k] = @ + 1]
  /\ IF loop[k].bid > 0
     THEN /\ loop' = [loop EXCEPT ![k].at = "Return", ![k].ms = 1]
          /\ call' = [call EXCEPT ![k] = NewCall]
     ELSE NextPosition(k)

\* Mistake: an auction that somebody else filled is counted, too.
AlreadyFilledCounted(k) ==
  /\ liquidations' = [liquidations EXCEPT ![k] = @ + 1]
  /\ IF loop[k].bid > 0 THEN Goto(k, "Return") ELSE NextPosition(k)

\* ErrAlreadyFilled: what was drawn is returned, and responseMs stays 0.
AlreadyFilled(k) ==
  /\ UNCHANGED liquidations
  /\ IF loop[k].bid > 0 THEN Goto(k, "Return") ELSE NextPosition(k)

Succeeded(k) ==
  CASE loop[k].at = "Register" -> Goto(k, "Idle") /\ UNCHANGED liquidations
    [] loop[k].at = "Create" -> Goto(k, "Auction") /\ UNCHANGED liquidations
    [] loop[k].at = "Draw" -> Goto(k, "Fill") /\ UNCHANGED liquidations
    [] loop[k].at = "Fill" -> Filled(k)
    [] loop[k].at = "Return" -> NextPosition(k) /\ UNCHANGED liquidations

\* Mistake: attempts are not counted.
RetriedForever(k) ==
  /\ call' = [call EXCEPT ![k] = [NewCall EXCEPT !.attempt = call[k].attempt]]
  /\ UNCHANGED loop

\* Mistake: one attempt too many.
RetriedOnceMore(k) ==
  IF call[k].attempt <= MaxAttempts(loop[k].at)
  THEN /\ call' = [call EXCEPT ![k] =
                      [NewCall EXCEPT !.attempt = call[k].attempt + 1]]
       /\ UNCHANGED loop
  ELSE GiveUp(k)

\* InvokeWithRetry after an error that isRetryable.
Retried(k) ==
  IF call[k].attempt < MaxAttempts(loop[k].at)
  THEN /\ call' = [call EXCEPT ![k] =
                      [NewCall EXCEPT !.attempt = call[k].attempt + 1]]
       /\ UNCHANGED loop
  ELSE GiveUp(k)

-----------------------------------------------------------------------------
(* The contracts' part of a transaction.                                   *)

\* The call returns Ok on the ledger as it is now.
Allowed(tx) ==
  CASE tx.at = "Register" -> RegisterAllowed(tx.keeper)
    [] tx.at = "Create" -> AuctionAllowed(tx.user)
    [] tx.at = "Draw" -> DrawAllowed(tx.keeper, tx.bid)
    [] tx.at = "Fill" -> SubmitAllowed(tx.user)
    [] tx.at = "Return" -> ReturnAllowed(tx.keeper, Proceeds(tx.bid))

Execute(tx) ==
  \/ /\ tx.at = "Register"
     /\ Register(tx.keeper)
     /\ UNCHANGED <<vaultVars, history, labVars>>
  \/ /\ tx.at = "Create"
     /\ NewLiquidationAuction(tx.user, Pct)
     /\ UNCHANGED vars
  \/ /\ tx.at = "Draw"
     /\ Draw(tx.keeper, tx.bid)
     /\ UNCHANGED labVars
  \/ /\ tx.at = "Fill"
     /\ Submit(tx.user)
     /\ UNCHANGED vars
  \/ /\ tx.at = "Return"
     /\ ReturnProceeds(tx.keeper, Proceeds(tx.bid), tx.ms)
     /\ UNCHANGED labVars

\* The network includes one transaction per sequence number, and charges the
\* account for it also when the call fails.
Include(tx) ==
  LET k == tx.keeper
      ok == Allowed(tx)
  IN  /\ tx.seq = account[k] + 1
      /\ account' = [account EXCEPT ![k] = @ + 1]
      /\ pending' = {t \in pending : t.keeper # k \/ t.seq > tx.seq}
      /\ IF ok THEN Execute(tx) ELSE UNCHANGED <<vars, labVars>>
      /\ call' = IF call[k].stage = "await" /\ tx = Transaction(k)
                 THEN [call EXCEPT ![k].result =
                         IF ok THEN "SUCCESS" ELSE "FAILED"]
                 ELSE call
      /\ fills' = IF ok /\ tx.at = "Fill"
                  THEN [fills EXCEPT ![k] = @ + 1] ELSE fills
      /\ lostRaces' = IF ~ok /\ tx.at = "Fill"
                      THEN [lostRaces EXCEPT ![k] = @ + 1] ELSE lostRaces
      /\ unpaid' = IF ~ok /\ tx.at = "Return"
                   THEN [unpaid EXCEPT ![k] = @ + 1] ELSE unpaid
      /\ UNCHANGED <<world, loop, liquidations, restarts>>

-----------------------------------------------------------------------------
(* The keeper's steps.                                                     *)

\* The contracts are deployed before keepers are started.
Deployed == rconfig # NoConfig /\ vconfig # NoConfig /\ reserveList # <<>>

Start(k) ==
  /\ loop[k].at = "Off" /\ Deployed
  /\ Goto(k, "Register")
  /\ UNCHANGED liquidations

\* The positions that may be found underwater: prices are not modelled, but
\* without debt the health factor is infinite.
Liquidatable ==
  {u \in DOMAIN positions : Total(positions[u].liabilities) > 0}

\* A tick: LoadPool, GetPositions, CalcHealthFactor.
Poll(k) ==
  /\ loop[k].at = "Idle" /\ loop[k].cycle < world.cycles
  /\ \E work \in SUBSET Liquidatable :
       loop' = [loop EXCEPT ![k].at = "Scan", ![k].cycle = @ + 1,
                            ![k].work = work]
  /\ UNCHANGED <<call, liquidations>>

\* The loop over the positions, in the order of a Go map.
Scan(k) ==
  /\ loop[k].at = "Scan"
  /\ IF loop[k].work = {}
     THEN loop' = [loop EXCEPT ![k].at = "Idle"]
     ELSE \E u \in loop[k].work :
            loop' = [loop EXCEPT ![k].at = "Create", ![k].user = u,
                                 ![k].work = @ \ {u}]
  /\ UNCHANGED <<call, liquidations>>

\* get_auction, the sum of its bids, and Profitability.  Without a bid the
\* profit is infinite; otherwise it depends on prices and may be below
\* MinProfit.
GetAuction(k) ==
  /\ loop[k].at = "Auction"
  /\ IF AuctionExists(loop[k].user)
     THEN LET bid == Total(auctions[loop[k].user].bid)
          IN  \/ bid > 0 /\ NextPosition(k)
              \/ /\ loop' = [loop EXCEPT ![k].bid = bid,
                                         ![k].at = IF bid > 0 THEN "Draw"
                                                   ELSE "Fill"]
                 /\ call' = [call EXCEPT ![k] = NewCall]
     ELSE NextPosition(k)
  /\ UNCHANGED liquidations

\* GetAccount asks another server than the one that transactions are sent to,
\* and it may lag behind.
SequencesFor(k) ==
  {account[k] + 1} \cup (IF world.faulty /\ account[k] > 0 THEN {account[k]} ELSE {})

ReadAccount(k) ==
  /\ loop[k].at \in Calls /\ call[k].stage = "read"
  /\ \E seq \in SequencesFor(k) :
       call' = [call EXCEPT ![k].stage = "send", ![k].seq = seq]
  /\ UNCHANGED <<loop, liquidations>>

\* Mistake: a lost race is taken for an error of the pool.
RefusedAsError(k) ==
  /\ IF loop[k].at = "Create" /\ AuctionExists(loop[k].user)
     THEN Goto(k, "Auction") ELSE GiveUp(k)
  /\ UNCHANGED liquidations

\* The simulation failed, with an error that names the contract's code.
Refused(k) ==
  CASE loop[k].at = "Create" /\ AuctionExists(loop[k].user) ->
         Goto(k, "Auction") /\ UNCHANGED liquidations
    [] loop[k].at = "Fill" -> AlreadyFilled(k)
    [] OTHER -> GiveUp(k) /\ UNCHANGED liquidations

\* Simulate, and Send unless that fails.  A sequence number that has been used
\* is an error of Send that isRetryable does not recognise.
Send(k) ==
  /\ loop[k].at \in Calls /\ call[k].stage = "send"
  /\ unpaid' = IF loop[k].at = "Return" /\ ~Allowed(Transaction(k))
               THEN [unpaid EXCEPT ![k] = @ + 1] ELSE unpaid
  /\ IF ~Allowed(Transaction(k))
     THEN Refused(k) /\ UNCHANGED pending
     ELSE IF call[k].seq # account[k] + 1
     THEN GiveUp(k) /\ UNCHANGED <<pending, liquidations>>
     ELSE /\ pending' = pending \cup {Transaction(k)}
          /\ call' = [call EXCEPT ![k].stage = "await"]
          /\ UNCHANGED <<loop, liquidations>>

\* AwaitTx sees the result.  A call that failed on the ledger is reported
\* without the contract's code: isAlreadyFilled and isAuctionExists do not
\* recognise it.
Await(k) ==
  /\ loop[k].at \in Calls /\ call[k].stage = "await"
  /\ \/ call[k].result = "SUCCESS" /\ Succeeded(k)
     \/ call[k].result = "FAILED" /\ GiveUp(k) /\ UNCHANGED liquidations

\* A round trip fails: in AwaitTx also when the transaction may still be
\* included, or has been.
Fault(k) ==
  /\ world.faulty
  /\ \/ loop[k].at \in Calls /\ (Retried(k) \/ GiveUp(k))
     \/ loop[k].at = "Auction" /\ NextPosition(k)
  /\ UNCHANGED liquidations

\* The process dies; it keeps nothing on disk.
Crash(k) ==
  /\ world.faulty /\ loop[k].at # "Off" /\ restarts[k] < MaxRestarts
  /\ restarts' = [restarts EXCEPT ![k] = @ + 1]
  /\ loop' = [loop EXCEPT ![k] = AtStart]
  /\ call' = [call EXCEPT ![k] = NewCall]
  /\ liquidations' = [liquidations EXCEPT ![k] = 0]
  /\ UNCHANGED <<world, account, pending, vars, labVars, raceHistory>>

KeeperStep(k) ==
  /\ \/ Send(k)
     \/ /\ \/ Start(k) \/ Poll(k) \/ Scan(k) \/ GetAuction(k)
           \/ ReadAccount(k) \/ Await(k) \/ Fault(k)
        /\ UNCHANGED <<pending, unpaid>>
  /\ UNCHANGED <<world, account, restarts, vars, labVars, fills, lostRaces>>

-----------------------------------------------------------------------------
(* The rest of the world: the contracts are set up, someone deposits, the  *)
(* pool's positions change, keepers are slashed.                           *)
World ==
  /\ \/ /\ \/ \E c \in RegistryConfigs :
                RegistryInitialize(c) /\ UNCHANGED <<vaultVars, history>>
           \/ \E c \in VaultConfigs : VaultInitialize(c)
           \/ \E u \in Users, a \in Deposits : Deposit(u, a)
           \/ \E k \in Keepers : SlashKeeper(k)
           \/ Tick
        /\ UNCHANGED labVars
     \/ /\ \/ LabInitialize
           \/ \E a \in Assets : AddReserve(a)
           \/ \E u \in Borrowers, p \in Positions : SetPosition(u, p)
           \/ \E u \in world.clearable : ClearAuction(u)
        /\ UNCHANGED vars
  /\ UNCHANGED <<loopVars, raceHistory>>

LoopInit ==
  /\ Init
  /\ LabInit
  /\ world \in Worlds
  /\ loop = [k \in Keepers |-> AtStart]
  /\ call = [k \in Keepers |-> NewCall]
  /\ account = [k \in Keepers |-> 0]
  /\ pending = {}
  /\ liquidations = [k \in Keepers |-> 0]
  /\ restarts = [k \in Keepers |-> 0]
  /\ fills = [k \in Keepers |-> 0]
  /\ lostRaces = [k \in Keepers |-> 0]
  /\ unpaid = [k \in Keepers |-> 0]

LoopNext ==
  \/ \E k \in Keepers : KeeperStep(k) \/ Crash(k)
  \/ \E tx \in pending : Include(tx)
  \/ World

LoopSpec == LoopInit /\ [][LoopNext]_allVars

\* Every round trip ends, since the HTTP client and AwaitTx have timeouts; and
\* when the network is not faulty it includes what is sent.
LoopFairness ==
  /\ \A k \in Keepers : WF_allVars(KeeperStep(k))
  /\ WF_allVars(~world.faulty /\ \E tx \in pending : Include(tx))

FairLoopSpec == LoopSpec /\ LoopFairness

-----------------------------------------------------------------------------
LoopTypeOK ==
  /\ loop \in [Keepers ->
       [at : Steps, cycle : 0 .. world.cycles, work : SUBSET Borrowers,
        user : Borrowers \cup {Nobody}, bid : Nat, ms : {0, 1}]]
  /\ call \in [Keepers ->
       [attempt : 1 .. 3, stage : {"read", "send", "await"}, seq : Nat,
        result : {"unknown", "SUCCESS", "FAILED"}]]
  /\ account \in [Keepers -> Nat]
  /\ \A tx \in pending : tx.keeper \in Keepers /\ tx.at \in Calls

\* vault.Draw, InvokeWithRetry: a keeper that goes on to fill an auction has
\* the capital for it out of the vault, whatever transactions of earlier
\* attempts and earlier cycles are still about.
DrawnWhileFilling ==
  \A k \in Keepers :
    loop[k].at = "Fill" => keeperDraw[k] >= loop[k].bid

\* handleLiquidation: a keeper counts no liquidation that did not happen, in
\* spite of retries, lost races and restarts.
CountedFillsHappened ==
  \A k \in Keepers : liquidations[k] <= fills[k]

\* handleLiquidation, on a network without faults: between polls a keeper owes
\* the vault nothing, unless another keeper beat it to an auction after both
\* had sent their fill, or it could not pay the tenth on top of its draw.
OnlyLosersOwe ==
  \A k \in Keepers :
    (~world.faulty /\ loop[k].at = "Idle" /\ keeperDraw[k] > 0) =>
      lostRaces[k] > 0 \/ unpaid[k] > 0

\* cycle: every poll comes to an end, whatever the network does, because
\* retries are bounded; so the keeper always polls again.
CyclesEnd ==
  \A k \in Keepers :
    loop[k].at \notin {"Off", "Idle"} ~> loop[k].at \in {"Off", "Idle"}

\* handleLiquidation, for a keeper alone in a world where nothing goes wrong:
\* capital that is drawn comes back to the vault.
CapitalReturns ==
  \A k \in Keepers :
    /\ ~world.faulty /\ world.clearable = {}
    /\ keeperDraw[k] > 0
    ~> keeperDraw[k] = 0

-----------------------------------------------------------------------------
(* What the repository says of the keepers, and the code does not do.     *)

\* README.md, "Multi-Operator Race": the first confirmed transaction wins, the
\* loser gets ErrAlreadyFilled and its capital is returned.
LosersReturn ==
  \A k \in Keepers : loop[k].at = "Idle" => keeperDraw[k] = 0
=============================================================================
