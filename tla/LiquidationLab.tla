--------------------------- MODULE LiquidationLab ---------------------------
(***************************************************************************)
(* contracts/liquidation-lab, the lending pool that keepers are tested     *)
(* against: the admin lists reserves and sets positions, anyone may put a  *)
(* part of a position up for auction, and the first to submit takes it.    *)
(* As in the other contracts, an action is a successful call.              *)
(***************************************************************************)
EXTENDS Naturals, Sequences, Storage

CONSTANTS
  Borrowers,     \* the addresses that may hold a position
  Assets,        \* the tokens that may be listed as reserves
  MaxReserves,   \* bound of the model: the length of the list of reserves
  Positions,     \* the positions that the admin may set
  Denom          \* denom: the pct of new_liquidation_auction that is the whole

ASSUME LabAssumption ==
  /\ MaxReserves \in Nat
  /\ Denom \in Nat \ {0}
  /\ \A p \in Positions :
       /\ DOMAIN p.collateral \subseteq Nat /\ DOMAIN p.liabilities \subseteq Nat
       /\ p.collateral \in [DOMAIN p.collateral -> Nat]
       /\ p.liabilities \in [DOMAIN p.liabilities -> Nat]

VARIABLES
  labReady,     \* DataKey::Admin has been set
  reserveList,  \* DataKey::ReserveList
  positions,    \* DataKey::Position(u): amounts by index in reserveList
  auctions      \* DataKey::Auction(u): amounts by asset

labVars == <<labReady, reserveList, positions, auctions>>

NoPosition == [collateral |-> EmptyStore, liabilities |-> EmptyStore]

\* The part of amounts that goes to auction, by asset instead of by index.
\* Where an asset is listed twice, the later index overwrites the earlier.
Auctioned(amounts, pct) ==
  LET part(i) == (amounts[i] * pct) \div Denom
      indices == {i \in DOMAIN amounts : i < Len(reserveList) /\ part(i) > 0}
      of(a) == {i \in indices : reserveList[i + 1] = a}
  IN  [a \in {reserveList[i + 1] : i \in indices} |->
         part(CHOOSE i \in of(a) : \A j \in of(a) : j <= i)]

-----------------------------------------------------------------------------
LabInit ==
  /\ labReady = FALSE
  /\ reserveList = <<>>
  /\ positions = EmptyStore
  /\ auctions = EmptyStore

LabInitialize ==
  /\ ~labReady
  /\ labReady' = TRUE
  /\ reserveList' = <<>>
  /\ UNCHANGED <<positions, auctions>>

AddReserve(asset) ==
  /\ labReady
  /\ Len(reserveList) < MaxReserves
  /\ reserveList' = Append(reserveList, asset)
  /\ UNCHANGED <<labReady, positions, auctions>>

SetPosition(u, position) ==
  /\ labReady
  /\ positions' = Put(positions, u, position)
  /\ UNCHANGED <<labReady, reserveList, auctions>>

ClearAuction(u) ==
  /\ labReady
  /\ auctions' = Remove(auctions, u)
  /\ UNCHANGED <<labReady, reserveList, positions>>

\* AuctionExists
AuctionExists(u) == u \in DOMAIN auctions

\* new_liquidation_auction finds no auction for u, and a position.  The
\* position may be an empty one, left by an earlier fill.
AuctionAllowed(u) == ~AuctionExists(u) /\ u \in DOMAIN positions

NewLiquidationAuction(u, pct) ==
  /\ AuctionAllowed(u)
  /\ auctions' = Put(auctions, u,
                     [lot |-> Auctioned(positions[u].collateral, pct),
                      bid |-> Auctioned(positions[u].liabilities, pct)])
  /\ UNCHANGED <<labReady, reserveList, positions>>

\* submit does not return AuctionNotFound.
SubmitAllowed(u) == AuctionExists(u)

\* The fill empties the whole position, whatever part of it was auctioned, and
\* is free of charge: the lab moves no tokens.
Submit(u) ==
  /\ SubmitAllowed(u)
  /\ auctions' = Remove(auctions, u)
  /\ positions' = Put(positions, u, NoPosition)
  /\ UNCHANGED <<labReady, reserveList>>
=============================================================================
