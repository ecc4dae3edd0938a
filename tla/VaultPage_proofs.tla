-------------------------- MODULE VaultPage_proofs --------------------------
(***************************************************************************)
(* The vault page keeps its promises whatever the visitor clicks, in       *)
(* whatever order the servers answer, and whatever fails: for any number   *)
(* of wallets, of transactions and of connections.                         *)
(***************************************************************************)
EXTENDS VaultPage, NectarVault_proofs, SequenceTheorems

CallRecord == [op : SubmitOps \cup KeeperOps, who : Wallets, amount : Nat,
               stage : Stages, seq : Nat]

Balances == [shares : Nat, value : Nat]
Deposits == [shares : Nat, last_deposit_time : Nat]
KeeperViews == [stake : Int, has_active_draw : BOOLEAN]
StateViews == [total_usdc : Nat, total_shares : Nat]

-----------------------------------------------------------------------------
(* The inductive invariant, in parts.                                      *)

\* The contracts, which the page finds initialized.
LedgerInv ==
  /\ IInv
  /\ vconfig \in VaultConfigs
  /\ world \in Worlds
  /\ \A u \in DOMAIN depositors : depositors[u].last_deposit_time <= now

\* The network.  An account has one transaction pending at most, and that one
\* has the account's sequence number.
NetworkInv ==
  /\ calls \in Seq(CallRecord) /\ Len(calls) <= world.calls
  /\ account \in [Wallets -> Nat]
  /\ outcome \in [Ids -> {"NOT_FOUND", "SUCCESS", "FAILED"}]
  /\ pending \subseteq DOMAIN calls
  /\ \A c \in Ids \ DOMAIN calls : outcome[c] = "NOT_FOUND"
  /\ \A c \in pending : /\ outcome[c] = "NOT_FOUND"
                        /\ calls[c].stage \in {"await", "over"}
                        /\ calls[c].seq = account[calls[c].who]
  /\ \A c, d \in pending : calls[c].who = calls[d].who => c = d
  /\ \A c \in DOMAIN calls :
       /\ calls[c].stage \in {"prepare", "sign"} => outcome[c] = "NOT_FOUND"
       /\ calls[c].stage = "refresh" => calls[c].op \in SubmitOps
       /\ calls[c].stage = "query" => calls[c].op = "register"

\* The form: what it says, and which transactions it waits for.
FormInv ==
  /\ wallet \in Wallets \cup {NoWallet}
  /\ tab \in SubmitOps /\ amount \in Nat
  /\ txStatus \in {"idle", "signing", "confirmed", "error"}
  /\ txHash \in DOMAIN calls \cup {0}
  /\ error \in {"", "cap", "cooldown", "failed", "onchain", "connect"}
  /\ txStatus = "confirmed" => /\ txHash \in DOMAIN calls
                               /\ outcome[txHash] = "SUCCESS"
                               /\ calls[txHash].op \in SubmitOps
  /\ txStatus = "error" /\ error = "onchain" =>
       txHash \in DOMAIN calls /\ outcome[txHash] = "FAILED"
  /\ txStatus = "idle" => Submitting \subseteq abandoned
  /\ \A c, d \in Submitting \ abandoned : c = d

Open == {c \in DOMAIN calls : calls[c].op \in KeeperOps /\ calls[c].stage # "over"}

\* The panel: its one transaction, and the one query that ends it.
PanelInv ==
  /\ keeperBusy \in BOOLEAN
  /\ keeperBusy <=> Open # {}
  /\ \A c, d \in Open : c = d
  /\ \A r \in reads : r.kind = "keeper" =>
       /\ r.cause \in DOMAIN calls
       /\ calls[r.cause].op = "register" /\ calls[r.cause].stage = "query"
  /\ \A q, r \in reads : q.kind = "keeper" /\ r.kind = "keeper" => q = r

\* A record of the wallet u, read from the ledger earlier, or null.
StaleDepositor(d, u) ==
  d # Null => /\ d \in Deposits /\ u \in DOMAIN depositors
              /\ d.last_deposit_time <= depositors[u].last_deposit_time

\* The queries and what they answered.
ReadOK(r) ==
  /\ r = [kind |-> r.kind, who |-> r.who, cause |-> r.cause, answer |-> r.answer]
  /\ r.kind \in {"balance", "meta", "keeper"}
  /\ r.kind # "meta" => r.who \in Wallets
  /\ r.answer # Null =>
       /\ r.kind = "balance" =>
            /\ r.answer.balance \in Balances \cup {Null}
            /\ StaleDepositor(r.answer.depositor, r.who)
            /\ r.answer.keeper \in KeeperViews \cup {Null}
       /\ r.kind = "meta" =>
            /\ r.answer.config \in VaultConfigs \cup {Null}
            /\ r.answer.state \in StateViews \cup {Null}
       /\ r.kind = "keeper" => r.answer.keeper \in KeeperViews \cup {Null}

ShownInv ==
  /\ \A r \in reads : ReadOK(r)
  /\ vaultShares \in Nat /\ vaultUsdcValue \in Nat /\ clock \in Int
  /\ owner \in [shares : Wallets \cup {NoWallet}, depositor : Wallets \cup {NoWallet}]
  /\ StaleDepositor(depositor, owner.depositor)
  /\ keeperInfo \in KeeperViews \cup {Null}
  /\ vaultCfg \in VaultConfigs \cup {Null}
  /\ vaultState \in StateViews \cup {Null}

\* A handler that polls for a transaction that the network has not taken.
Polled(c) ==
  At(c, "await") /\ ~Found(c) /\ c \notin pending =>
    \E d \in DOMAIN calls \ {c} :
      /\ calls[d].who = calls[c].who /\ calls[d].seq = calls[c].seq
      /\ calls[d].stage \notin {"prepare", "sign"}
      /\ d \in pending \/ Found(d)

PollInv == world.faults = {} => \A c \in DOMAIN calls : Polled(c)

PageInv ==
  /\ LedgerInv
  /\ NetworkInv
  /\ FormInv
  /\ PanelInv
  /\ ShownInv
  /\ PollInv

-----------------------------------------------------------------------------
(* Steps that change one call.                                             *)

\* What moving a call to another stage keeps.
Moved(c, s) ==
  /\ calls' \in Seq(CallRecord)
  /\ Len(calls') = Len(calls) /\ DOMAIN calls' = DOMAIN calls
  /\ calls'[c].stage = s
  /\ \A d \in DOMAIN calls :
       /\ calls'[d].op = calls[d].op /\ calls'[d].who = calls[d].who
       /\ d # c => calls'[d] = calls[d]

LEMMA CallMoves ==
  ASSUME calls \in Seq(CallRecord), NEW c \in DOMAIN calls,
         NEW x \in CallRecord, x.op = calls[c].op, x.who = calls[c].who,
         calls' = [calls EXCEPT ![c] = x]
  PROVE  Moved(c, x.stage) /\ calls'[c] = x
<1>1. Len(calls) \in Nat /\ DOMAIN calls = 1 .. Len(calls)
  BY LenProperties
<1>2. /\ calls' \in Seq(CallRecord) /\ Len(calls') = Len(calls)
      /\ \A d \in 1 .. Len(calls) : calls'[d] = IF d = c THEN x ELSE calls[d]
  BY <1>1, ExceptSeq
<1>3. DOMAIN calls' = DOMAIN calls
  OBVIOUS
<1> QED
  BY <1>1, <1>2, <1>3 DEF Moved

LEMMA StageMoves ==
  ASSUME calls \in Seq(CallRecord), NEW c \in DOMAIN calls, NEW s \in Stages,
         To(c, s)
  PROVE  Moved(c, s) /\ calls'[c].seq = calls[c].seq
<1>1. calls[c] \in CallRecord
  BY LenProperties, ElementOfSeq
<1> DEFINE x == [calls[c] EXCEPT !.stage = s]
<1>2. /\ x \in CallRecord /\ x.stage = s /\ x.op = calls[c].op
      /\ x.who = calls[c].who /\ x.seq = calls[c].seq
  BY <1>1 DEF CallRecord
<1>3. calls' = [calls EXCEPT ![c] = x]
  BY DEF To
<1> HIDE DEF x
<1> QED
  BY <1>2, <1>3, CallMoves

\* getAccount gives a call its sequence number.
LEMMA PreparedMoves ==
  ASSUME calls \in Seq(CallRecord), NEW c \in DOMAIN calls, NEW n \in Nat,
         calls' = [calls EXCEPT ![c].stage = "sign", ![c].seq = n]
  PROVE  Moved(c, "sign") /\ calls'[c].seq = n
<1>1. calls[c] \in CallRecord
  BY LenProperties, ElementOfSeq
<1> DEFINE x == [calls[c] EXCEPT !.stage = "sign", !.seq = n]
<1>2. /\ x \in CallRecord /\ x.stage = "sign" /\ x.op = calls[c].op
      /\ x.who = calls[c].who /\ x.seq = n
  BY <1>1 DEF CallRecord, Stages
<1>3. calls' = [calls EXCEPT ![c] = x]
  <2> DEFINE y == [calls[c] EXCEPT !.stage = "sign"]
             f == [calls EXCEPT ![c] = y]
  <2>1. calls' = [f EXCEPT ![c] = [f[c] EXCEPT !.seq = n]]
    OBVIOUS
  <2>2. f[c] = y /\ DOMAIN f = DOMAIN calls
    OBVIOUS
  <2>3. [y EXCEPT !.seq = n] = x
    BY <1>1 DEF CallRecord
  <2> QED
    BY <2>1, <2>2, <2>3
<1> HIDE DEF x
<1>4. Moved(c, x.stage) /\ calls'[c] = x
  BY <1>2, <1>3, CallMoves, Zenon
<1> QED
  BY <1>2, <1>4, Zenon

\* handleSubmit and the panel's handlers add a call at the end.
LEMMA CallAppended ==
  ASSUME calls \in Seq(CallRecord), wallet \in Wallets, world.calls \in Nat,
         NEW op \in SubmitOps \cup KeeperOps, NEW a \in Nat, Start(op, a)
  PROVE  LET n == Len(calls) + 1
         IN  /\ calls' \in Seq(CallRecord) /\ Len(calls') = n
             /\ n <= world.calls /\ n \notin DOMAIN calls
             /\ DOMAIN calls' = DOMAIN calls \cup {n}
             /\ calls'[n].op = op /\ calls'[n].who = wallet
             /\ calls'[n].stage = "prepare"
             /\ \A d \in DOMAIN calls : calls'[d] = calls[d]
<1> DEFINE x == [op |-> op, who |-> wallet, amount |-> a, stage |-> "prepare",
                 seq |-> 0]
<1>1. x \in CallRecord /\ x.op = op /\ x.who = wallet /\ x.stage = "prepare"
  BY DEF CallRecord, Stages
<1>2. calls' = Append(calls, x) /\ Len(calls) < world.calls
  BY DEF Start
<1> HIDE DEF x
<1>3. Len(calls) \in Nat /\ DOMAIN calls = 1 .. Len(calls)
  BY LenProperties
<1>4. /\ calls' \in Seq(CallRecord) /\ Len(calls') = Len(calls) + 1
      /\ calls'[Len(calls) + 1] = x
      /\ \A d \in 1 .. Len(calls) : calls'[d] = calls[d]
  BY <1>1, <1>2, AppendProperties
<1>5. DOMAIN calls' = 1 .. Len(calls) + 1
  BY <1>4, LenProperties
<1> QED
  BY <1>1, <1>2, <1>3, <1>4, <1>5

-----------------------------------------------------------------------------
(* The network, action by action.                                          *)

LEMMA NetworkWhenMoved ==
  ASSUME NetworkInv, UNCHANGED <<world, account, outcome>>,
         NEW c \in DOMAIN calls, NEW s \in {"await", "refresh", "query", "over"},
         To(c, s),
         \/ pending' = pending
         \/ /\ pending' = Sent(c) /\ s \in {"await", "over"}
            /\ calls[c].stage = "sign"
            /\ calls[c].seq = account[calls[c].who],
         s = "refresh" => calls[c].op \in SubmitOps,
         s = "query" => calls[c].op = "register",
         s \in {"refresh", "query"} => c \notin pending
  PROVE  NetworkInv'
<1>1. Moved(c, s) /\ calls'[c].seq = calls[c].seq
  BY StageMoves DEF NetworkInv, Stages
<1>2. /\ calls' \in Seq(CallRecord) /\ Len(calls') = Len(calls)
      /\ DOMAIN calls' = DOMAIN calls /\ calls'[c].stage = s
      /\ \A d \in DOMAIN calls :
           /\ calls'[d].op = calls[d].op /\ calls'[d].who = calls[d].who
           /\ calls'[d].seq = calls[d].seq
           /\ d # c => calls'[d].stage = calls[d].stage
  BY <1>1 DEF Moved
<1>3. \/ pending' = pending
      \/ /\ pending' = pending \cup {c}
         /\ \A d \in pending : calls[d].who # calls[c].who
         /\ calls[c].stage = "sign" /\ s \in {"await", "over"}
         /\ calls[c].seq = account[calls[c].who]
  BY DEF Sent
<1>4. \A d \in DOMAIN calls :
        /\ calls[d].stage \in {"prepare", "sign"} => outcome[d] = "NOT_FOUND"
        /\ calls[d].stage = "refresh" => calls[d].op \in SubmitOps
        /\ calls[d].stage = "query" => calls[d].op = "register"
  BY DEF NetworkInv
<1>5. \A d \in DOMAIN calls' :
        /\ calls'[d].stage \in {"prepare", "sign"} => outcome[d] = "NOT_FOUND"
        /\ calls'[d].stage = "refresh" => calls'[d].op \in SubmitOps
        /\ calls'[d].stage = "query" => calls'[d].op = "register"
  BY <1>2, <1>4
<1>6. \A d \in pending' :
        /\ d \in DOMAIN calls /\ outcome[d] = "NOT_FOUND"
        /\ calls'[d].stage \in {"await", "over"}
        /\ calls[d].seq = account[calls[d].who]
  <2> SUFFICES ASSUME NEW d \in pending'
               PROVE  /\ d \in DOMAIN calls /\ outcome[d] = "NOT_FOUND"
                      /\ calls'[d].stage \in {"await", "over"}
                      /\ calls[d].seq = account[calls[d].who]
    OBVIOUS
  <2>1. CASE d \in pending
    <3>1. /\ d \in DOMAIN calls /\ outcome[d] = "NOT_FOUND"
          /\ calls[d].stage \in {"await", "over"}
          /\ calls[d].seq = account[calls[d].who]
      BY <2>1 DEF NetworkInv
    <3>2. d = c => s \in {"await", "over"}
      BY <2>1
    <3> QED
      BY <1>2, <3>1, <3>2
  <2>2. CASE d \notin pending
    <3>1. d = c /\ calls[c].stage = "sign" /\ s \in {"await", "over"}
      BY <1>3, <2>2
    <3> QED
      BY <1>2, <1>3, <1>4, <2>2, <3>1
  <2> QED
    BY <2>1, <2>2
<1>7. \A d, e \in pending' : calls[d].who = calls[e].who => d = e
  BY <1>3 DEF NetworkInv
<1> QED
  BY <1>2, <1>5, <1>6, <1>7 DEF NetworkInv

LEMMA NetworkWhenPrepared ==
  ASSUME NetworkInv, UNCHANGED <<world, networkVars>>,
         NEW c \in DOMAIN calls, calls[c].stage = "prepare",
         calls' = [calls EXCEPT ![c].stage = "sign",
                                ![c].seq = account[calls[c].who]]
  PROVE  NetworkInv'
<1>1. calls[c] \in CallRecord /\ calls \in Seq(CallRecord)
  BY LenProperties, ElementOfSeq DEF NetworkInv
<1>2. account[calls[c].who] \in Nat
  BY <1>1 DEF NetworkInv, CallRecord
<1>3. Moved(c, "sign")
  BY <1>1, <1>2, PreparedMoves
<1>4. c \notin pending
  BY DEF NetworkInv
<1>5. /\ calls' \in Seq(CallRecord) /\ Len(calls') = Len(calls)
      /\ DOMAIN calls' = DOMAIN calls /\ calls'[c].stage = "sign"
      /\ \A d \in DOMAIN calls \ {c} : calls'[d] = calls[d]
  BY <1>3, Zenon DEF Moved
<1>6. outcome[c] = "NOT_FOUND"
  BY DEF NetworkInv
<1> DEFINE f == calls'
<1>7. \A d \in DOMAIN f :
        /\ f[d].stage \in {"prepare", "sign"} => outcome[d] = "NOT_FOUND"
        /\ f[d].stage = "refresh" => f[d].op \in SubmitOps
        /\ f[d].stage = "query" => f[d].op = "register"
  <2> HIDE DEF f
  <2> QED
    BY <1>5, <1>6 DEF NetworkInv, f
<1>8. /\ \A d \in pending : /\ outcome[d] = "NOT_FOUND"
                            /\ f[d].stage \in {"await", "over"}
                            /\ f[d].seq = account[f[d].who]
      /\ \A d, e \in pending : f[d].who = f[e].who => d = e
  <2>1. \A d \in pending : f[d] = calls[d]
    BY <1>4, <1>5 DEF NetworkInv
  <2> HIDE DEF f
  <2> QED
    BY <2>1 DEF NetworkInv
<1> HIDE DEF f
<1> QED
  BY <1>5, <1>7, <1>8 DEF NetworkInv, networkVars, f

LEMMA NetworkWhenStarted ==
  ASSUME NetworkInv, UNCHANGED <<world, networkVars>>, wallet \in Wallets,
         world.calls \in Nat, DOMAIN calls' \subseteq Ids,
         NEW op \in SubmitOps \cup KeeperOps, NEW a \in Nat, Start(op, a)
  PROVE  NetworkInv'
<1> DEFINE n == Len(calls) + 1
<1>1. /\ calls' \in Seq(CallRecord) /\ Len(calls') = n
      /\ n <= world.calls /\ n \notin DOMAIN calls
      /\ DOMAIN calls' = DOMAIN calls \cup {n}
      /\ calls'[n].stage = "prepare"
      /\ \A d \in DOMAIN calls : calls'[d] = calls[d]
  BY CallAppended DEF NetworkInv
<1> HIDE DEF n
<1>2. n \in Ids /\ outcome[n] = "NOT_FOUND"
  BY <1>1 DEF NetworkInv
<1> QED
  BY <1>1, <1>2 DEF NetworkInv, networkVars

\* The network includes a transaction, or drops it.
LEMMA NetworkWhenOver ==
  ASSUME NetworkInv, UNCHANGED <<world, calls>>, NEW c \in pending,
         DOMAIN calls \subseteq Ids, pending' = pending \ {c},
         \/ UNCHANGED <<account, outcome>>
         \/ /\ account' = [account EXCEPT ![calls[c].who] = @ + 1]
            /\ \E o \in {"SUCCESS", "FAILED"} :
                 outcome' = [outcome EXCEPT ![c] = o]
  PROVE  NetworkInv'
<1>1. CASE UNCHANGED <<account, outcome>>
  BY <1>1 DEF NetworkInv
<1>2. CASE /\ account' = [account EXCEPT ![calls[c].who] = @ + 1]
           /\ \E o \in {"SUCCESS", "FAILED"} :
                outcome' = [outcome EXCEPT ![c] = o]
  <2>1. PICK o \in {"SUCCESS", "FAILED"} : outcome' = [outcome EXCEPT ![c] = o]
    BY <1>2
  <2>2. c \in DOMAIN calls /\ c \in Ids /\ calls[c].stage \in {"await", "over"}
    BY DEF NetworkInv
  <2>3. calls[c].who \in Wallets
    <3>1. calls[c] \in CallRecord
      BY <2>2, LenProperties, ElementOfSeq DEF NetworkInv
    <3> QED
      BY <3>1 DEF CallRecord
  <2>4. /\ account' \in [Wallets -> Nat]
        /\ \A w \in Wallets \ {calls[c].who} : account'[w] = account[w]
    BY <1>2, <2>3 DEF NetworkInv
  <2>5. /\ outcome' \in [Ids -> {"NOT_FOUND", "SUCCESS", "FAILED"}]
        /\ \A d \in Ids \ {c} : outcome'[d] = outcome[d]
    BY <2>1, <2>2 DEF NetworkInv
  <2>6. \A d \in pending' : /\ d \in DOMAIN calls /\ d # c
                            /\ calls[d].who \in Wallets \ {calls[c].who}
    <3>1. \A d \in pending' : d \in DOMAIN calls /\ d \in pending /\ d # c
      BY DEF NetworkInv
    <3>2. \A d \in DOMAIN calls : calls[d] \in CallRecord
      BY LenProperties, ElementOfSeq DEF NetworkInv
    <3> QED
      BY <3>1, <3>2 DEF NetworkInv, CallRecord
  <2> QED
    BY <2>2, <2>4, <2>5, <2>6 DEF NetworkInv
<1> QED
  BY <1>1, <1>2

\* The transactions that a world allows have their numbers.
LEMMA WorldBounds ==
  ASSUME world \in Worlds
  PROVE  /\ world.calls \in Nat /\ 1 .. world.calls \subseteq Ids
         /\ world.wallets \subseteq Wallets
         /\ world.skew \in Nat
BY PageAssumption DEF Ids

LEMMA CallsInIds ==
  ASSUME LedgerInv, NetworkInv
  PROVE  DOMAIN calls \subseteq Ids
<1>1. Len(calls) \in Nat /\ DOMAIN calls = 1 .. Len(calls)
  BY LenProperties DEF NetworkInv
<1> QED
  BY <1>1, WorldBounds DEF LedgerInv, NetworkInv

\* The form and the panel start calls for the wallet that is connected.
LEMMA NetworkAtClick ==
  ASSUME LedgerInv, NetworkInv, FormInv, UNCHANGED <<world, networkVars>>,
         Connected, NEW op \in SubmitOps \cup KeeperOps, NEW a \in Nat,
         Start(op, a)
  PROVE  NetworkInv'
<1>1. wallet \in Wallets
  BY DEF FormInv, Connected
<1>2. world.calls \in Nat /\ 1 .. world.calls \subseteq Ids
  BY WorldBounds DEF LedgerInv
<1>3. DOMAIN calls' \subseteq Ids
  <2>1. calls' \in Seq(CallRecord) /\ Len(calls') <= world.calls
    BY <1>1, <1>2, CallAppended DEF NetworkInv
  <2>2. Len(calls') \in Nat /\ DOMAIN calls' = 1 .. Len(calls')
    BY <2>1, LenProperties
  <2> QED
    BY <1>2, <2>1, <2>2
<1> QED
  BY <1>1, <1>2, <1>3, NetworkWhenStarted

LEMMA NetworkStep ==
  ASSUME LedgerInv, NetworkInv, FormInv, PanelInv, PageNext
  PROVE  NetworkInv'
<1>1. CASE UNCHANGED <<world, calls, networkVars>>
  BY <1>1 DEF NetworkInv, networkVars
<1>2. CASE Connect \/ Disconnect \/ TabClick \/ ResetClick \/ Enter
  BY <1>1, <1>2 DEF Connect, Disconnect, TabClick, ResetClick, Enter, Page
<1>3. CASE SubmitClick
  <2>1. UNCHANGED <<world, networkVars>> /\ (Start(tab, amount) \/ UNCHANGED calls)
    BY <1>3 DEF SubmitClick, Page
  <2>2. Connected /\ tab \in SubmitOps /\ amount \in Nat
    BY <1>3 DEF SubmitClick, SubmitEnabled, FormView, FormInv
  <2> QED
    BY <1>1, <2>1, <2>2, NetworkAtClick
<1>4. CASE RegisterClick \/ DeregisterClick
  <2>1. /\ UNCHANGED <<world, networkVars>> /\ Connected
        /\ Start("register", 0) \/ Start("deregister", 0)
    BY <1>4 DEF RegisterClick, DeregisterClick, PanelEnabled, Page
  <2> QED
    BY <2>1, NetworkAtClick DEF KeeperOps
<1>5. CASE ReadStep
  <2>1. PICK r \in reads : Answer(r) \/ Arrive(r)
    BY <1>5 DEF ReadStep
  <2>2. CASE Answer(r)
    BY <1>1, <2>2 DEF Answer
  <2>3. CASE Arrive(r)
    <3>1. UNCHANGED <<world, networkVars>>
      BY <2>3 DEF Arrive
    <3>2. CASE BalanceArrives(r) \/ MetaArrives(r)
      BY <1>1, <3>1, <3>2 DEF BalanceArrives, MetaArrives
    <3>3. CASE KeeperArrives(r)
      <4>1. r.cause \in DOMAIN calls /\ To(r.cause, "over")
        BY <2>1, <3>3 DEF KeeperArrives, PanelInv, Over, To
      <4> QED
        BY <3>1, <4>1, NetworkWhenMoved DEF networkVars
    <3> QED
      BY <2>3, <3>2, <3>3 DEF Arrive
  <2> QED
    BY <2>1, <2>2, <2>3
<1>6. CASE TickClock \/ Elsewhere
  BY <1>1, <1>6 DEF TickClock, Elsewhere
<1>7. ASSUME NEW c, Prepare(c) PROVE NetworkInv'
  <2>1. /\ c \in DOMAIN calls /\ calls[c].stage = "prepare"
        /\ UNCHANGED <<world, networkVars>>
    BY <1>7 DEF Prepare, At, OnlyTheCall
  <2>2. CASE Accepted(c)
    BY <1>7, <2>1, <2>2, NetworkWhenPrepared DEF Prepare
  <2>3. CASE ~Accepted(c)
    <3>1. To(c, "over")
      BY <1>7, <2>3 DEF Prepare, Throw, Over, To
    <3> QED
      BY <2>1, <3>1, NetworkWhenMoved DEF networkVars
  <2> QED
    BY <2>2, <2>3
<1>8. ASSUME NEW c, Sign(c) \/ Fault(c) PROVE NetworkInv'
  <2>1. /\ c \in DOMAIN calls /\ UNCHANGED <<world, account, outcome>>
        /\ To(c, "await") \/ To(c, "over")
        /\ \/ pending' = pending
           \/ /\ pending' = Sent(c) /\ calls[c].stage = "sign"
              /\ calls[c].seq = account[calls[c].who]
    BY <1>8 DEF Sign, Fault, At, OnlyTheCall, Throw, Over, To
  <2> QED
    BY <2>1, NetworkWhenMoved
<1>9. ASSUME NEW c, Include(c) PROVE NetworkInv'
  <2>1. /\ c \in pending /\ UNCHANGED <<world, calls>>
        /\ pending' = pending \ {c}
        /\ account' = [account EXCEPT ![calls[c].who] = @ + 1]
        /\ \E o \in {"SUCCESS", "FAILED"} : outcome' = [outcome EXCEPT ![c] = o]
    BY <1>9 DEF Include
  <2> QED
    BY <2>1, CallsInIds, NetworkWhenOver
<1>10. ASSUME NEW c, Drop(c) PROVE NetworkInv'
  <2>1. /\ c \in pending /\ UNCHANGED <<world, calls, account, outcome>>
        /\ pending' = pending \ {c}
    BY <1>10 DEF Drop, OnlyTheCall
  <2> QED
    BY <2>1, CallsInIds, NetworkWhenOver
<1>11. ASSUME NEW c, Await(c) PROVE NetworkInv'
  <2>1. /\ c \in DOMAIN calls /\ c \notin pending
        /\ UNCHANGED <<world, networkVars>>
    BY <1>11 DEF Await, At, Found, NetworkInv
  <2>2. \/ calls[c].op \in SubmitOps /\ (To(c, "refresh") \/ To(c, "over"))
        \/ calls[c].op = "register" /\ To(c, "query")
        \/ To(c, "over")
    BY <1>11 DEF Await, SubmitFound, RegisterFound, DeregisterFound, Over, To
  <2> QED
    BY <2>1, <2>2, NetworkWhenMoved DEF networkVars
<1>12. ASSUME NEW c, Reconnect(c) PROVE NetworkInv'
  <2>1. /\ c \in DOMAIN calls /\ To(c, "over") /\ UNCHANGED <<world, networkVars>>
    BY <1>12 DEF Reconnect, At, Throw, Over, To
  <2> QED
    BY <2>1, NetworkWhenMoved DEF networkVars
<1> QED
  BY <1>2, <1>3, <1>4, <1>5, <1>6, <1>7, <1>8, <1>9, <1>10, <1>11, <1>12
     DEF PageNext, Click

-----------------------------------------------------------------------------
(* The form, action by action.                                             *)

\* A step that leaves the form alone, starts none of its transactions, and
\* changes no outcome that is known.
LEMMA FormStands ==
  ASSUME FormInv, UNCHANGED <<formVars, abandoned>>,
         wallet' \in Wallets \cup {NoWallet},
         DOMAIN calls \subseteq DOMAIN calls',
         \A d \in DOMAIN calls :
           /\ calls'[d].op = calls[d].op
           /\ outcome[d] # "NOT_FOUND" => outcome'[d] = outcome[d],
         Submitting' \subseteq Submitting
  PROVE  FormInv'
<1>1. UNCHANGED <<tab, amount, txStatus, txHash, error, abandoned>>
  BY DEF formVars
<1>2. /\ txStatus = "confirmed" =>
           /\ txHash \in DOMAIN calls' /\ outcome'[txHash] = "SUCCESS"
           /\ calls'[txHash].op \in SubmitOps
      /\ txStatus = "error" /\ error = "onchain" =>
           txHash \in DOMAIN calls' /\ outcome'[txHash] = "FAILED"
  BY DEF FormInv
<1>3. /\ txStatus = "idle" => Submitting' \subseteq abandoned
      /\ \A c, d \in Submitting' \ abandoned : c = d
  BY DEF FormInv
<1> QED
  BY <1>1, <1>2, <1>3 DEF FormInv

\* A call that is over, or that waits for a refresh, waits for nothing more.
LEMMA SubmittingShrinks ==
  ASSUME NEW c \in DOMAIN calls, NEW s, Moved(c, s),
         \/ s \in {"refresh", "over"}
         \/ calls[c].stage \notin {"refresh", "over"}
         \/ calls[c].op \notin SubmitOps
  PROVE  Submitting' \subseteq Submitting
BY DEF Submitting, Moved

LEMMA FormWhenMoved ==
  ASSUME FormInv, NetworkInv, UNCHANGED <<formVars, outcome, abandoned>>,
         wallet' \in Wallets \cup {NoWallet},
         NEW c \in DOMAIN calls, NEW s \in Stages, Moved(c, s),
         \/ s \in {"refresh", "over"}
         \/ calls[c].stage \notin {"refresh", "over"}
         \/ calls[c].op \notin SubmitOps
  PROVE  FormInv'
<1>1. Submitting' \subseteq Submitting
  BY SubmittingShrinks
<1>2. /\ DOMAIN calls' = DOMAIN calls
      /\ \A d \in DOMAIN calls : calls'[d].op = calls[d].op
  BY DEF Moved
<1> QED
  BY <1>1, <1>2, FormStands

\* The catch clauses, whichever transaction throws.
LEMMA FormWhenThrown ==
  ASSUME FormInv, NetworkInv, UNCHANGED <<wallet, outcome, abandoned>>,
         NEW c \in DOMAIN calls, Throw(c)
  PROVE  FormInv'
<1>1. Moved(c, "over")
  BY StageMoves DEF NetworkInv, Throw, Over, To, Stages
<1>2. Submitting' \subseteq Submitting /\ DOMAIN calls' = DOMAIN calls
  BY <1>1, SubmittingShrinks DEF Moved
<1>3. CASE calls[c].op \in SubmitOps
  <2>1. /\ txStatus' = "error" /\ error' = "failed"
        /\ UNCHANGED <<tab, amount, txHash>>
    BY <1>3 DEF Throw
  <2> QED
    BY <1>2, <2>1 DEF FormInv
<1>4. CASE calls[c].op \notin SubmitOps
  <2>1. UNCHANGED formVars
    BY <1>4 DEF Throw
  <2> QED
    BY <1>1, <2>1, FormWhenMoved DEF Stages, FormInv
<1> QED
  BY <1>3, <1>4

\* resetTx: whatever is in progress is abandoned.
LEMMA FormWhenReset ==
  ASSUME FormInv, ResetTx, UNCHANGED <<calls, outcome>>, tab' \in SubmitOps,
         wallet' \in Wallets \cup {NoWallet}
  PROVE  FormInv'
<1>1. Submitting' = Submitting
  BY DEF Submitting
<1> QED
  BY <1>1 DEF FormInv, ResetTx

\* handleSubmit, which only an idle form allows.
LEMMA FormWhenSubmitted ==
  ASSUME LedgerInv, NetworkInv, FormInv, SubmitClick
  PROVE  FormInv'
<1>1. /\ txStatus = "idle" /\ wallet \in Wallets
      /\ error' = Preflight
      /\ UNCHANGED <<tab, amount, txHash, abandoned, wallet, outcome>>
  BY DEF SubmitClick, SubmitEnabled, FormView, Connected, FormInv, Page,
         networkVars
<1>2. CASE Preflight = ""
  <2> DEFINE n == Len(calls) + 1
  <2>1. txStatus' = "signing" /\ Start(tab, amount)
    BY <1>2 DEF SubmitClick
  <2>2. /\ n \notin DOMAIN calls /\ DOMAIN calls' = DOMAIN calls \cup {n}
        /\ \A d \in DOMAIN calls : calls'[d] = calls[d]
    BY <1>1, <2>1, WorldBounds, CallAppended DEF LedgerInv, NetworkInv, FormInv
  <2> HIDE DEF n
  <2>3. Submitting' \subseteq Submitting \cup {n}
    BY <2>2 DEF Submitting
  <2> QED
    BY <1>1, <1>2, <2>1, <2>2, <2>3 DEF FormInv
<1>3. CASE Preflight # ""
  <2>1. UNCHANGED <<txStatus, calls>> /\ error' \in {"cap", "cooldown"}
    BY <1>1, <1>3 DEF SubmitClick, Preflight
  <2>2. Submitting' = Submitting
    BY <2>1 DEF Submitting
  <2> QED
    BY <1>1, <2>1, <2>2 DEF FormInv
<1> QED
  BY <1>2, <1>3

\* What is shown in cents is a number of them.
LEMMA CentsAreNat ==
  ASSUME NEW x \in Nat
  PROVE  InCents(x, Cent) \in Nat /\ InCents(x, Cent) * Cent \in Nat
<1> DEFINE a == 2 * x + Cent
           b == 2 * Cent
           q == InCents(x, Cent)
<1>1. a \in Nat /\ b \in Nat \ {0} /\ Cent \in Nat
  BY PageAssumption
<1>2. q = a \div b
  BY DEF InCents
<1> HIDE DEF a, b
<1>3. q \in Nat
  BY <1>1, <1>2
<1> HIDE DEF q
<1>4. q * Cent \in Nat
  BY <1>1, <1>3, ProductOfNat
<1> QED
  BY <1>3, <1>4 DEF q

LEMMA FormStep ==
  ASSUME LedgerInv, NetworkInv, FormInv, PanelInv, ShownInv, PageNext
  PROVE  FormInv'
<1>0. wallet \in Wallets \cup {NoWallet} /\ world.wallets \subseteq Wallets
  BY WorldBounds DEF FormInv, LedgerInv
<1>1. CASE UNCHANGED <<wallet, formVars, calls, outcome, abandoned>>
  <2>1. Submitting' = Submitting
    BY <1>1 DEF Submitting
  <2> QED
    BY <1>0, <1>1, <2>1, FormStands
<1>2. CASE Connect
  <2>1. /\ UNCHANGED <<tab, amount, txStatus, txHash, calls, outcome, abandoned>>
        /\ error' \in {"", "connect"} /\ FormView = "connect"
        /\ wallet' \in Wallets \cup {NoWallet}
    BY <1>0, <1>2 DEF Connect, SetWallet, networkVars
  <2>2. Submitting' = Submitting
    BY <2>1 DEF Submitting
  <2> QED
    BY <2>1, <2>2 DEF FormInv
<1>3. CASE Disconnect \/ TabClick \/ ResetClick
  <2>1. /\ ResetTx /\ UNCHANGED <<calls, outcome>>
        /\ wallet' \in {wallet, NoWallet} /\ tab' \in {tab} \cup SubmitOps
    BY <1>3 DEF Disconnect, TabClick, ResetClick, Page, networkVars
  <2> QED
    BY <1>0, <2>1, FormWhenReset DEF FormInv
<1>4. CASE Enter
  <2>1. UNCHANGED <<wallet, tab, txStatus, txHash, error, calls, outcome, abandoned>>
    BY <1>4 DEF Enter, Page, networkVars
  <2>2. amount' \in Nat
    BY <1>4, CentsAreNat, PageAssumption DEF Enter, ShownInv
  <2>3. Submitting' = Submitting
    BY <2>1 DEF Submitting
  <2> QED
    BY <2>1, <2>2, <2>3 DEF FormInv
<1>5. CASE SubmitClick
  BY <1>5, FormWhenSubmitted
<1>6. CASE RegisterClick \/ DeregisterClick
  <2> DEFINE n == Len(calls) + 1
  <2>1. PICK op \in KeeperOps : Start(op, 0)
    BY <1>6 DEF RegisterClick, DeregisterClick, KeeperOps
  <2>2. /\ UNCHANGED <<wallet, formVars, outcome, abandoned>>
        /\ wallet \in Wallets
    BY <1>6 DEF RegisterClick, DeregisterClick, PanelEnabled, Connected, Page,
                networkVars, FormInv
  <2>3. /\ n \notin DOMAIN calls /\ DOMAIN calls' = DOMAIN calls \cup {n}
        /\ calls'[n].op = op
        /\ \A d \in DOMAIN calls : calls'[d] = calls[d]
    BY <2>1, <2>2, WorldBounds, CallAppended DEF LedgerInv, NetworkInv
  <2> HIDE DEF n
  <2>4. Submitting' \subseteq Submitting
    BY <2>3 DEF Submitting, SubmitOps, KeeperOps
  <2> QED
    BY <1>0, <2>2, <2>3, <2>4, FormStands
<1>7. CASE ReadStep
  <2>1. PICK r \in reads : Answer(r) \/ Arrive(r)
    BY <1>7 DEF ReadStep
  <2>2. CASE Answer(r)
    BY <1>1, <2>2 DEF Answer, networkVars
  <2>3. CASE Arrive(r)
    <3>1. UNCHANGED <<wallet, formVars, outcome, abandoned>>
      BY <2>3 DEF Arrive, networkVars
    <3>2. CASE BalanceArrives(r) \/ MetaArrives(r)
      BY <1>1, <3>1, <3>2 DEF BalanceArrives, MetaArrives
    <3>3. CASE KeeperArrives(r)
      <4>1. r.cause \in DOMAIN calls /\ To(r.cause, "over")
        BY <2>1, <3>3 DEF KeeperArrives, PanelInv, Over, To
      <4>2. Moved(r.cause, "over")
        BY <4>1, StageMoves DEF Stages, NetworkInv
      <4> QED
        BY <1>0, <3>1, <4>1, <4>2, FormWhenMoved DEF Stages
    <3> QED
      BY <2>3, <3>2, <3>3 DEF Arrive
  <2> QED
    BY <2>1, <2>2, <2>3
<1>8. CASE TickClock \/ Elsewhere
  BY <1>1, <1>8 DEF TickClock, Elsewhere, networkVars
<1>9. ASSUME NEW c, Prepare(c) PROVE FormInv'
  <2>1. /\ c \in DOMAIN calls /\ calls[c].stage = "prepare"
        /\ UNCHANGED <<wallet, outcome, abandoned>>
    BY <1>9 DEF Prepare, At, OnlyTheCall, networkVars
  <2>2. CASE Accepted(c)
    <3>1. /\ UNCHANGED formVars
          /\ calls' = [calls EXCEPT ![c].stage = "sign",
                                    ![c].seq = account[calls[c].who]]
      BY <1>9, <2>2 DEF Prepare
    <3>2. calls[c] \in CallRecord
      BY <2>1, LenProperties, ElementOfSeq DEF NetworkInv
    <3>3. account[calls[c].who] \in Nat
      BY <3>2 DEF NetworkInv, CallRecord
    <3>4. Moved(c, "sign")
      BY <2>1, <3>1, <3>3, PreparedMoves DEF NetworkInv
    <3>5. UNCHANGED formVars /\ "sign" \in Stages
      BY <3>1, Zenon DEF Stages
    <3> QED
      BY <1>0, <2>1, <3>4, <3>5, FormWhenMoved
  <2>3. CASE ~Accepted(c)
    <3>1. Throw(c)
      BY <1>9, <2>3 DEF Prepare
    <3> QED
      BY <2>1, <3>1, FormWhenThrown
  <2> QED
    BY <2>2, <2>3
<1>10. ASSUME NEW c, Sign(c) \/ Fault(c) PROVE FormInv'
  <2>1. /\ c \in DOMAIN calls /\ UNCHANGED <<wallet, outcome, abandoned>>
        /\ \/ Throw(c)
           \/ calls[c].stage = "sign" /\ To(c, "await") /\ UNCHANGED formVars
    BY <1>10 DEF Sign, Fault, At, OnlyTheCall
  <2>2. CASE Throw(c)
    BY <2>1, <2>2, FormWhenThrown
  <2>3. CASE calls[c].stage = "sign" /\ To(c, "await") /\ UNCHANGED formVars
    <3>1. Moved(c, "await") /\ "await" \in Stages
      BY <2>1, <2>3, StageMoves DEF Stages, NetworkInv
    <3> QED
      BY <1>0, <2>1, <2>3, <3>1, FormWhenMoved
  <2> QED
    BY <2>1, <2>2, <2>3
<1>11. ASSUME NEW c, Include(c) PROVE FormInv'
  <2>1. /\ UNCHANGED <<wallet, formVars, calls, abandoned>> /\ c \in pending
        /\ \E o : outcome' = [outcome EXCEPT ![c] = o]
    BY <1>11 DEF Include
  <2>2. \A d \in DOMAIN calls : outcome[d] # "NOT_FOUND" => outcome'[d] = outcome[d]
    BY <2>1, CallsInIds DEF NetworkInv
  <2>3. Submitting' = Submitting
    BY <2>1 DEF Submitting
  <2> QED
    BY <1>0, <2>1, <2>2, <2>3, FormStands
<1>12. ASSUME NEW c, Drop(c) PROVE FormInv'
  BY <1>1, <1>12 DEF Drop, OnlyTheCall
<1>13. ASSUME NEW c, Await(c) PROVE FormInv'
  <2>1. /\ c \in DOMAIN calls /\ calls[c].stage = "await" /\ Found(c)
        /\ UNCHANGED <<wallet, outcome, abandoned>>
    BY <1>13 DEF Await, At, networkVars
  <2>2. CASE SubmitFound(c)
    <3>1. /\ calls[c].op \in SubmitOps /\ txHash' = c
          /\ UNCHANGED <<tab, amount>>
          /\ To(c, "refresh") \/ To(c, "over")
          /\ \/ outcome[c] = "SUCCESS" /\ txStatus' = "confirmed" /\ error' = error
             \/ /\ outcome[c] # "SUCCESS" /\ txStatus' = "error"
                /\ error' = "onchain"
      BY <2>2 DEF SubmitFound, Succeeded, Over, To
    <3>2. Moved(c, "refresh") \/ Moved(c, "over")
      BY <2>1, <3>1, StageMoves DEF Stages, NetworkInv
    <3>3. /\ Submitting' \subseteq Submitting /\ DOMAIN calls' = DOMAIN calls
          /\ calls'[c].op = calls[c].op
      BY <2>1, <3>2, SubmittingShrinks DEF Moved
    <3>4. outcome[c] # "SUCCESS" => outcome[c] = "FAILED"
      BY <2>1, CallsInIds DEF Found, NetworkInv
    <3> QED
      BY <2>1, <3>1, <3>3, <3>4 DEF FormInv
  <2>3. CASE RegisterFound(c) \/ DeregisterFound(c)
    <3>1. /\ UNCHANGED formVars /\ calls[c].op \notin SubmitOps
          /\ \E s \in Stages : To(c, s)
      BY <2>3 DEF RegisterFound, DeregisterFound, SubmitOps, Over, To, Stages
    <3>2. PICK s \in Stages : Moved(c, s)
      BY <2>1, <3>1, StageMoves DEF NetworkInv
    <3> QED
      BY <1>0, <2>1, <3>1, <3>2, FormWhenMoved
  <2> QED
    BY <1>13, <2>2, <2>3 DEF Await
<1>14. ASSUME NEW c, Reconnect(c) PROVE FormInv'
  <2>1. /\ c \in DOMAIN calls /\ UNCHANGED <<outcome, abandoned>>
        /\ wallet' \in Wallets \cup {NoWallet}
        /\ \/ Over(c) /\ UNCHANGED formVars
           \/ Throw(c) /\ UNCHANGED wallet
    BY <1>0, <1>14 DEF Reconnect, At, SetWallet, networkVars
  <2>2. CASE Over(c) /\ UNCHANGED formVars
    <3>1. Moved(c, "over") /\ "over" \in Stages
      BY <2>1, <2>2, StageMoves DEF Stages, NetworkInv, Over, To
    <3> QED
      BY <2>1, <2>2, <3>1, FormWhenMoved
  <2>3. CASE Throw(c) /\ UNCHANGED wallet
    BY <2>1, <2>3, FormWhenThrown
  <2> QED
    BY <2>1, <2>2, <2>3
<1> QED
  BY <1>2, <1>3, <1>4, <1>5, <1>6, <1>7, <1>8, <1>9, <1>10, <1>11, <1>12, <1>13,
     <1>14 DEF PageNext, Click

-----------------------------------------------------------------------------
(* The panel, action by action.                                            *)

LEMMA AnsweredFields ==
  ASSUME NEW r, NEW a,
         r = [kind |-> r.kind, who |-> r.who, cause |-> r.cause, answer |-> r.answer]
  PROVE  LET q == [r EXCEPT !.answer = a]
         IN  /\ q = [kind |-> q.kind, who |-> q.who, cause |-> q.cause,
                     answer |-> q.answer]
             /\ q.kind = r.kind /\ q.who = r.who /\ q.cause = r.cause
             /\ q.answer = a
<1> DEFINE k == r.kind
           w == r.who
           c == r.cause
           b == r.answer
<1>1. r = [kind |-> k, who |-> w, cause |-> c, answer |-> b]
  OBVIOUS
<1> HIDE DEF k, w, c, b
<1>2. [r EXCEPT !.answer = a] = [kind |-> k, who |-> w, cause |-> c, answer |-> a]
  BY <1>1
<1> QED
  BY <1>2 DEF k, w, c

\* A query for the keeper's record belongs to the one transaction that is open.
LEMMA KeeperReads ==
  ASSUME PanelInv, NEW r \in reads, r.kind = "keeper"
  PROVE  /\ r.cause \in Open /\ calls[r.cause].stage = "query"
         /\ \A c \in Open : c = r.cause
BY DEF PanelInv, Open, KeeperOps

LEMMA PanelStands ==
  ASSUME PanelInv, UNCHANGED keeperBusy, Open' = Open,
         \A r \in reads' : r.kind = "keeper" => r \in reads,
         \A r \in reads : r.kind = "keeper" =>
           r.cause \in DOMAIN calls' /\ calls'[r.cause] = calls[r.cause]
  PROVE  PanelInv'
<1>1. \A r \in reads' : r.kind = "keeper" =>
        /\ r.cause \in DOMAIN calls'
        /\ calls'[r.cause].op = "register" /\ calls'[r.cause].stage = "query"
  BY DEF PanelInv
<1>2. \A q, r \in reads' : q.kind = "keeper" /\ r.kind = "keeper" => q = r
  BY DEF PanelInv
<1> QED
  BY <1>1, <1>2 DEF PanelInv

\* A transaction of the form moves, or one of the panel's that stays open.
LEMMA PanelWhenMoved ==
  ASSUME PanelInv, UNCHANGED keeperBusy, NEW c \in DOMAIN calls, NEW s,
         Moved(c, s),
         \A r \in reads' : r.kind = "keeper" => r \in reads,
         calls[c].stage # "query",
         calls[c].op \in KeeperOps => calls[c].stage # "over" /\ s # "over"
  PROVE  PanelInv'
<1>1. Open' = Open
  BY DEF Moved, Open
<1>2. ASSUME NEW r \in reads, r.kind = "keeper"
      PROVE  r.cause \in DOMAIN calls' /\ calls'[r.cause] = calls[r.cause]
  BY <1>2, KeeperReads DEF Open, Moved
<1> QED
  BY <1>1, <1>2, PanelStands

LEMMA PanelWhenClosed ==
  ASSUME PanelInv, NEW c \in Open, Moved(c, "over"), keeperBusy' = FALSE,
         \A r \in reads' : r.kind # "keeper"
  PROVE  PanelInv'
<1>1. Open' = {}
  BY DEF PanelInv, Moved, Open
<1> QED
  BY <1>1 DEF PanelInv

LEMMA PanelWhenThrown ==
  ASSUME PanelInv, NetworkInv, UNCHANGED reads, NEW c \in DOMAIN calls,
         calls[c].stage \in {"prepare", "sign", "await", "refresh"}, Throw(c)
  PROVE  PanelInv'
<1>1. Moved(c, "over")
  BY StageMoves DEF NetworkInv, Throw, Over, To, Stages
<1>2. CASE calls[c].op \in SubmitOps
  BY <1>1, <1>2, PanelWhenMoved DEF Throw, SubmitOps, KeeperOps
<1>3. CASE calls[c].op \notin SubmitOps
  <2>1. calls[c] \in CallRecord
    BY LenProperties, ElementOfSeq DEF NetworkInv
  <2>2. c \in Open
    BY <1>3, <2>1 DEF CallRecord, Open
  <2>3. \A r \in reads : r.kind # "keeper"
    BY <2>2, KeeperReads
  <2>4. keeperBusy' = FALSE
    BY <1>3 DEF Throw
  <2> QED
    BY <1>1, <2>2, <2>3, <2>4, PanelWhenClosed
<1> QED
  BY <1>2, <1>3

LEMMA PanelAtClick ==
  ASSUME LedgerInv, NetworkInv, FormInv, PanelInv, Connected, UNCHANGED reads,
         NEW op \in SubmitOps \cup KeeperOps, NEW a \in Nat, Start(op, a),
         \/ op \in SubmitOps /\ UNCHANGED keeperBusy
         \/ op \in KeeperOps /\ ~keeperBusy /\ keeperBusy' = TRUE
  PROVE  PanelInv'
<1> DEFINE n == Len(calls) + 1
<1>1. /\ n \notin DOMAIN calls /\ DOMAIN calls' = DOMAIN calls \cup {n}
      /\ calls'[n].op = op /\ calls'[n].stage = "prepare"
      /\ \A d \in DOMAIN calls : calls'[d] = calls[d]
  BY WorldBounds, CallAppended DEF LedgerInv, NetworkInv, FormInv, Connected
<1> HIDE DEF n
<1>2. CASE op \in SubmitOps /\ UNCHANGED keeperBusy
  <2>1. Open' = Open
    BY <1>1, <1>2 DEF Open, SubmitOps, KeeperOps
  <2> QED
    BY <1>1, <1>2, <2>1, PanelStands DEF PanelInv
<1>3. CASE op \in KeeperOps /\ ~keeperBusy /\ keeperBusy' = TRUE
  <2>1. Open = {}
    BY <1>3 DEF PanelInv
  <2>2. Open' = {n}
    BY <1>1, <1>3, <2>1 DEF Open
  <2>3. \A r \in reads : r.kind # "keeper"
    BY <2>1, KeeperReads
  <2> QED
    BY <1>3, <2>2, <2>3 DEF PanelInv
<1> QED
  BY <1>2, <1>3

\* handleRegisterKeeper: the transaction stays open, with a query of its own.
LEMMA PanelWhenRegistered ==
  ASSUME PanelInv, NetworkInv, NEW c \in DOMAIN calls,
         calls[c].stage = "await", RegisterFound(c)
  PROVE  PanelInv'
<1>1. /\ calls[c].op = "register" /\ UNCHANGED keeperBusy
      /\ reads' = reads \cup {Read("keeper", calls[c].who, c)}
      /\ Moved(c, "query")
  BY StageMoves DEF RegisterFound, NetworkInv, Stages
<1>2. Open' = Open
  BY <1>1 DEF Moved, Open
<1>3. c \in Open
  BY <1>1 DEF Open, KeeperOps
<1>4. \A r \in reads : r.kind # "keeper"
  BY <1>3, KeeperReads
<1> DEFINE q == Read("keeper", calls[c].who, c)
<1>5. q.kind = "keeper" /\ q.cause = c
  BY DEF Read
<1> HIDE DEF q
<1>6. \A r \in reads' : r.kind = "keeper" => r = q
  BY <1>1, <1>4 DEF q
<1>7. /\ c \in DOMAIN calls' /\ calls'[c].op = "register"
      /\ calls'[c].stage = "query"
  BY <1>1 DEF Moved
<1> QED
  BY <1>1, <1>2, <1>5, <1>6, <1>7 DEF PanelInv

\* The answer of a query keeps what the query is for.
LEMMA PanelWhenAnswered ==
  ASSUME PanelInv, ShownInv, NEW r \in reads, Answer(r)
  PROVE  PanelInv'
<1>1. PICK a : reads' = (reads \ {r}) \cup {[r EXCEPT !.answer = a]}
  BY DEF Answer
<1> DEFINE q == [r EXCEPT !.answer = a]
<1>2. q.kind = r.kind /\ q.cause = r.cause
  BY AnsweredFields DEF ShownInv, ReadOK
<1> HIDE DEF q
<1>3. UNCHANGED <<calls, keeperBusy>>
  BY DEF Answer
<1>4. Open' = Open
  BY <1>3 DEF Open
<1>5. \A t \in reads' : t.kind = "keeper" =>
        /\ t.cause \in DOMAIN calls
        /\ calls[t.cause].op = "register" /\ calls[t.cause].stage = "query"
  BY <1>1, <1>2 DEF PanelInv, q
<1>6. \A t, u \in reads' : t.kind = "keeper" /\ u.kind = "keeper" => t = u
  <2>1. reads' = (reads \ {r}) \cup {q}
    BY <1>1 DEF q
  <2> QED
    BY <1>2, <2>1 DEF PanelInv
<1> QED
  BY <1>3, <1>4, <1>5, <1>6 DEF PanelInv

LEMMA PanelStep ==
  ASSUME LedgerInv, NetworkInv, FormInv, PanelInv, ShownInv, PageNext
  PROVE  PanelInv'
<1>1. CASE /\ UNCHANGED <<calls, keeperBusy>>
           /\ \A r \in reads' : r.kind = "keeper" => r \in reads
  <2>1. Open' = Open
    BY <1>1 DEF Open
  <2> QED
    BY <1>1, <2>1, PanelStands DEF PanelInv
<1>2. \A w, c : Read("balance", w, c).kind # "keeper"
                  /\ Read("meta", w, c).kind # "keeper"
  BY DEF Read
<1>3. CASE Connect
  BY <1>1, <1>2, <1>3 DEF Connect, SetWallet
<1>4. CASE Disconnect \/ TabClick \/ ResetClick \/ Enter
  BY <1>1, <1>4 DEF Disconnect, TabClick, ResetClick, Enter, Page
<1>5. CASE SubmitClick
  <2>1. /\ UNCHANGED <<reads, keeperBusy>> /\ Connected
        /\ tab \in SubmitOps /\ amount \in Nat
    BY <1>5 DEF SubmitClick, SubmitEnabled, FormView, Page, FormInv
  <2>2. Start(tab, amount) \/ UNCHANGED calls
    BY <1>5 DEF SubmitClick
  <2> QED
    BY <1>1, <2>1, <2>2, PanelAtClick
<1>6. CASE RegisterClick \/ DeregisterClick
  <2>1. /\ UNCHANGED reads /\ Connected /\ ~keeperBusy /\ keeperBusy' = TRUE
        /\ Start("register", 0) \/ Start("deregister", 0)
    BY <1>6 DEF RegisterClick, DeregisterClick, PanelEnabled, Page
  <2> QED
    BY <2>1, PanelAtClick DEF KeeperOps
<1>7. CASE ReadStep
  <2>1. PICK r \in reads : Answer(r) \/ Arrive(r)
    BY <1>7 DEF ReadStep
  <2>2. CASE Arrive(r)
    <3>1. reads' = reads \ {r}
      BY <2>2 DEF Arrive
    <3>2. CASE BalanceArrives(r) \/ MetaArrives(r)
      BY <1>1, <3>1, <3>2 DEF BalanceArrives, MetaArrives
    <3>3. CASE KeeperArrives(r)
      <4>1. r.cause \in Open /\ To(r.cause, "over") /\ keeperBusy' = FALSE
        BY <3>3, KeeperReads DEF KeeperArrives, Over, To
      <4>2. Moved(r.cause, "over")
        BY <4>1, StageMoves DEF Stages, NetworkInv, Open
      <4>3. \A t \in reads' : t.kind # "keeper"
        BY <3>1, <3>3 DEF KeeperArrives, PanelInv
      <4> QED
        BY <4>1, <4>2, <4>3, PanelWhenClosed
    <3> QED
      BY <2>2, <3>2, <3>3 DEF Arrive
  <2> QED
    BY <2>1, <2>2, PanelWhenAnswered
<1>8. CASE TickClock \/ Elsewhere
  BY <1>1, <1>8 DEF TickClock, Elsewhere
<1>9. ASSUME NEW c, Prepare(c) PROVE PanelInv'
  <2>1. c \in DOMAIN calls /\ calls[c].stage = "prepare" /\ UNCHANGED reads
    BY <1>9 DEF Prepare, At, OnlyTheCall
  <2>2. CASE Accepted(c)
    <3>1. /\ UNCHANGED keeperBusy
          /\ calls' = [calls EXCEPT ![c].stage = "sign",
                                    ![c].seq = account[calls[c].who]]
      BY <1>9, <2>2 DEF Prepare
    <3>2. calls[c] \in CallRecord
      BY <2>1, LenProperties, ElementOfSeq DEF NetworkInv
    <3>3. account[calls[c].who] \in Nat
      BY <3>2 DEF NetworkInv, CallRecord
    <3>4. Moved(c, "sign")
      BY <2>1, <3>1, <3>3, PreparedMoves DEF NetworkInv
    <3>5. UNCHANGED keeperBusy
      BY <3>1, Zenon
    <3> HIDE <3>1
    <3> QED
      BY <2>1, <3>4, <3>5, PanelWhenMoved
  <2>3. CASE ~Accepted(c)
    BY <1>9, <2>1, <2>3, PanelWhenThrown DEF Prepare
  <2> QED
    BY <2>2, <2>3
<1>10. ASSUME NEW c, Sign(c) \/ Fault(c) PROVE PanelInv'
  <2>1. /\ c \in DOMAIN calls /\ UNCHANGED reads
        /\ calls[c].stage \in {"prepare", "sign", "await"}
        /\ \/ Throw(c)
           \/ /\ calls[c].stage = "sign" /\ To(c, "await")
              /\ UNCHANGED keeperBusy
    BY <1>10 DEF Sign, Fault, At, OnlyTheCall
  <2>2. CASE Throw(c)
    BY <2>1, <2>2, PanelWhenThrown
  <2>3. CASE /\ calls[c].stage = "sign" /\ To(c, "await")
             /\ UNCHANGED keeperBusy
    <3>1. Moved(c, "await")
      BY <2>1, <2>3, StageMoves DEF Stages, NetworkInv
    <3> QED
      BY <2>1, <2>3, <3>1, PanelWhenMoved
  <2> QED
    BY <2>1, <2>2, <2>3
<1>11. ASSUME NEW c, Include(c) \/ Drop(c) PROVE PanelInv'
  BY <1>1, <1>11 DEF Include, Drop, OnlyTheCall
<1>12. ASSUME NEW c, Await(c) PROVE PanelInv'
  <2>1. c \in DOMAIN calls /\ calls[c].stage = "await"
    BY <1>12 DEF Await, At
  <2>2. CASE SubmitFound(c)
    <3>1. /\ calls[c].op \in SubmitOps /\ UNCHANGED keeperBusy
          /\ To(c, "refresh") \/ To(c, "over")
          /\ \A r \in reads' : r.kind = "keeper" => r \in reads
      BY <1>2, <2>2 DEF SubmitFound, Over, To
    <3>2. PICK s : Moved(c, s)
      BY <2>1, <3>1, StageMoves DEF Stages, NetworkInv
    <3> QED
      BY <2>1, <3>1, <3>2, PanelWhenMoved DEF SubmitOps, KeeperOps
  <2>3. CASE RegisterFound(c)
    BY <2>1, <2>3, PanelWhenRegistered
  <2>4. CASE DeregisterFound(c)
    <3>1. c \in Open /\ Over(c) /\ keeperBusy' = FALSE /\ UNCHANGED reads
      BY <2>1, <2>4 DEF DeregisterFound, Open, KeeperOps
    <3>2. Moved(c, "over")
      BY <2>1, <3>1, StageMoves DEF Over, To, Stages, NetworkInv
    <3>3. \A r \in reads : r.kind # "keeper"
      BY <2>1, <3>1, KeeperReads
    <3> QED
      BY <3>1, <3>2, <3>3, PanelWhenClosed
  <2> QED
    BY <1>12, <2>2, <2>3, <2>4 DEF Await
<1>13. ASSUME NEW c, Reconnect(c) PROVE PanelInv'
  <2>1. /\ c \in DOMAIN calls /\ calls[c].stage = "refresh"
        /\ calls[c].op \in SubmitOps
    BY <1>13 DEF Reconnect, At, NetworkInv
  <2>2. CASE Over(c) /\ UNCHANGED keeperBusy
    <3>1. Moved(c, "over")
      BY <2>1, <2>2, StageMoves DEF Over, To, Stages, NetworkInv
    <3>2. \A r \in reads' : r.kind = "keeper" => r \in reads
      BY <1>2, <1>13 DEF Reconnect, SetWallet
    <3> QED
      BY <2>1, <2>2, <3>1, <3>2, PanelWhenMoved DEF SubmitOps, KeeperOps
  <2>3. CASE Throw(c) /\ UNCHANGED reads
    BY <2>1, <2>3, PanelWhenThrown
  <2> QED
    BY <1>13, <2>2, <2>3 DEF Reconnect
<1> QED
  BY <1>3, <1>4, <1>5, <1>6, <1>7, <1>8, <1>9, <1>10, <1>11, <1>12, <1>13
     DEF PageNext, Click

-----------------------------------------------------------------------------
(* The ledger, action by action.                                           *)

\* What a step of the contracts keeps of what the page has read: no deposit
\* becomes older.
LedgerKept ==
  /\ DOMAIN depositors \subseteq DOMAIN depositors'
  /\ \A u \in DOMAIN depositors :
       depositors[u].last_deposit_time <= depositors'[u].last_deposit_time

\* The step of one call, whether the page or someone else sends it.
LedgerCall ==
  \/ \E u \in Users, a \in Int : Deposit(u, a) \/ Withdraw(u, a)
  \/ \E k \in Keepers :
       (Register(k) \/ Deregister(k)) /\ UNCHANGED <<vaultVars, history>>
  \/ \E k \in Keepers, a \in Int : Draw(k, a) \/ ReturnProceeds(k, a, 0)
  \/ \E c \in VaultConfigs : VaultSetConfig(c)
  \/ Tick
  \/ UNCHANGED vars

LEMMA LedgerCallKeeps ==
  ASSUME LedgerInv, LedgerCall, UNCHANGED world
  PROVE  LedgerInv' /\ LedgerKept
<1>1. IInv'
  <2>1. CASE \E u \in Users, a \in Int : Deposit(u, a) \/ Withdraw(u, a)
    BY <2>1, DepositPreserves, WithdrawPreserves DEF LedgerInv
  <2>2. CASE \E k \in Keepers :
               (Register(k) \/ Deregister(k)) /\ UNCHANGED <<vaultVars, history>>
    BY <2>2, RegisterPreserves, DeregisterPreserves DEF LedgerInv
  <2>3. CASE \E k \in Keepers, a \in Int : Draw(k, a) \/ ReturnProceeds(k, a, 0)
    BY <2>3, DrawPreserves, ReturnProceedsPreserves DEF LedgerInv
  <2>4. CASE Tick \/ UNCHANGED vars
    BY <2>4, StepPreserves DEF LedgerInv, Next
  <2>5. CASE \E c \in VaultConfigs : VaultSetConfig(c)
    BY <2>5, AdminPreserves DEF LedgerInv
  <2> QED
    BY <2>1, <2>2, <2>3, <2>4, <2>5 DEF LedgerCall
<1>2. vconfig' \in VaultConfigs
  <2>1. vconfig' = vconfig \/ vconfig' \in VaultConfigs
    BY DEF LedgerCall, Deposit, Withdraw, Draw, ReturnProceeds, Tick,
           VaultSetConfig, vaultVars, vars
  <2> QED
    BY <2>1 DEF LedgerInv
<1>3. now \in Nat /\ now' \in Nat /\ now <= now'
  <2>1. now \in Nat /\ now' \in Nat
    BY <1>1, RegistryAssumption DEF LedgerInv, IInv, TypeOK, RegistryTypeOK
  <2>2. now' = now \/ now' = now + 1
    BY DEF LedgerCall, Deposit, Withdraw, Register, Deregister, Draw,
           ReturnProceeds, VaultSetConfig, Tick, vars
  <2> QED
    BY <2>1, <2>2
<1>4. depositors \in [DOMAIN depositors -> Deposits]
  BY DEF LedgerInv, IInv, TypeOK, Deposits
<1>5. CASE \E u \in Users, a \in Int : Deposit(u, a)
  <2>0. PICK u \in Users :
          \E s : depositors' = Put(depositors, u,
                                   [shares |-> s, last_deposit_time |-> now])
    BY <1>5 DEF Deposit
  <2>1. PICK s :
          depositors' = Put(depositors, u, [shares |-> s, last_deposit_time |-> now])
    BY <2>0
  <2> DEFINE x == [shares |-> s, last_deposit_time |-> now]
  <2>2. /\ DOMAIN depositors' = DOMAIN depositors \cup {u}
        /\ depositors'[u] = x
        /\ \A v \in DOMAIN depositors \ {u} : depositors'[v] = depositors[v]
    BY <2>1 DEF Put
  <2>3. x.last_deposit_time = now
    OBVIOUS
  <2> HIDE DEF x
  <2>4. \A v \in DOMAIN depositors :
          depositors[v].last_deposit_time \in Nat
            /\ depositors[v].last_deposit_time <= now
    BY <1>4 DEF LedgerInv, Deposits
  <2>5. \A v \in DOMAIN depositors' :
          depositors'[v].last_deposit_time <= now'
    BY <1>3, <2>2, <2>3, <2>4
  <2>6. \A v \in DOMAIN depositors :
          depositors[v].last_deposit_time <= depositors'[v].last_deposit_time
    BY <1>3, <2>2, <2>3, <2>4
  <2> QED
    BY <1>1, <1>2, <2>2, <2>5, <2>6 DEF LedgerInv, LedgerKept
<1>6. CASE ~ \E u \in Users, a \in Int : Deposit(u, a)
  <2>1. \/ UNCHANGED depositors
        \/ \E u \in DOMAIN depositors : \E s :
             depositors' = [depositors EXCEPT ![u].shares = @ - s]
    BY <1>6 DEF LedgerCall, Withdraw, WithdrawAllowed, Draw, ReturnProceeds,
                VaultSetConfig, Tick, vaultVars, vars
  <2>2. /\ DOMAIN depositors' = DOMAIN depositors
        /\ \A v \in DOMAIN depositors :
             depositors'[v].last_deposit_time = depositors[v].last_deposit_time
    BY <1>4, <2>1 DEF Deposits
  <2>3. \A v \in DOMAIN depositors :
          depositors[v].last_deposit_time \in Nat
            /\ depositors[v].last_deposit_time <= now
    BY <1>4 DEF LedgerInv, Deposits
  <2> QED
    BY <1>1, <1>2, <1>3, <2>2, <2>3 DEF LedgerInv, LedgerKept
<1> QED
  BY <1>5, <1>6

LEMMA LedgerStep ==
  ASSUME LedgerInv, NetworkInv, PageNext
  PROVE  LedgerInv' /\ LedgerKept
<1>1. UNCHANGED world
  BY DEF PageNext, Click, Connect, Disconnect, TabClick, ResetClick, Enter,
         SubmitClick, RegisterClick, DeregisterClick, Page, ReadStep, Answer,
         Arrive, TickClock, Elsewhere, Prepare, Sign, Include, Await,
         Reconnect, Fault, Drop, OnlyTheCall
<1>2. CASE Elsewhere
  <2>1. LedgerCall
    BY <1>2, VaultAssumption DEF Elsewhere, LedgerCall
  <2> QED
    BY <1>1, <2>1, LedgerCallKeeps
<1>3. CASE \E c \in Ids : Include(c)
  <2>1. PICK c \in pending : Execute(c) \/ UNCHANGED vars
    BY <1>3 DEF Include
  <2>2. CASE Execute(c)
    <3>1. calls[c] \in CallRecord
      BY LenProperties, ElementOfSeq DEF NetworkInv
    <3>2. /\ calls[c].who \in Users /\ calls[c].who \in Keepers
          /\ calls[c].amount \in Int
          /\ calls[c].op \in SubmitOps \cup KeeperOps
      BY <3>1, PageAssumption DEF CallRecord
    <3>3. LedgerCall
      <4> DEFINE w == calls[c].who
                 a == calls[c].amount
      <4>1. \/ Deposit(w, a) \/ Withdraw(w, a)
            \/ (Register(w) \/ Deregister(w)) /\ UNCHANGED <<vaultVars, history>>
        BY <2>2, <3>2 DEF Execute, SubmitOps, KeeperOps
      <4> QED
        BY <3>2, <4>1 DEF LedgerCall
    <3> QED
      BY <1>1, <3>3, LedgerCallKeeps
  <2>3. CASE UNCHANGED vars
    BY <1>1, <2>3, LedgerCallKeeps DEF LedgerCall
  <2> QED
    BY <2>1, <2>2, <2>3
<1>4. CASE UNCHANGED vars
  BY <1>1, <1>4, LedgerCallKeeps DEF LedgerCall
<1> QED
  BY <1>2, <1>3, <1>4
     DEF PageNext, Click, Connect, Disconnect, TabClick, ResetClick, Enter,
         SubmitClick, RegisterClick, DeregisterClick, Page, ReadStep, Answer,
         Arrive, TickClock, Prepare, Sign, Await, Reconnect, Fault, Drop,
         OnlyTheCall

-----------------------------------------------------------------------------
(* What the page has read, action by action.                               *)

LEMMA StaleKept ==
  ASSUME LedgerInv, LedgerInv', LedgerKept, NEW d, NEW u, StaleDepositor(d, u)
  PROVE  StaleDepositor(d, u)'
<1> SUFFICES ASSUME d # Null
             PROVE  /\ d \in Deposits /\ u \in DOMAIN depositors'
                    /\ d.last_deposit_time <= depositors'[u].last_deposit_time
  BY DEF StaleDepositor
<1>1. /\ d \in Deposits /\ u \in DOMAIN depositors
      /\ d.last_deposit_time <= depositors[u].last_deposit_time
  BY DEF StaleDepositor
<1>2. /\ u \in DOMAIN depositors'
      /\ depositors[u].last_deposit_time <= depositors'[u].last_deposit_time
  BY <1>1 DEF LedgerKept
<1>3. /\ d.last_deposit_time \in Nat
      /\ depositors[u].last_deposit_time \in Nat
      /\ depositors'[u].last_deposit_time \in Nat
  BY <1>1, <1>2 DEF LedgerInv, IInv, TypeOK, Deposits
<1> QED
  BY <1>1, <1>2, <1>3

LEMMA ReadKept ==
  ASSUME LedgerInv, LedgerInv', LedgerKept, NEW r, ReadOK(r)
  PROVE  ReadOK(r)'
<1>1. StaleDepositor(r.answer.depositor, r.who) =>
        StaleDepositor(r.answer.depositor, r.who)'
  BY StaleKept
<1> QED
  BY <1>1 DEF ReadOK

LEMMA NewRead ==
  ASSUME NEW kind \in {"balance", "meta", "keeper"}, NEW w, NEW c,
         kind # "meta" => w \in Wallets
  PROVE  ReadOK(Read(kind, w, c))
BY DEF ReadOK, Read

LEMMA ShownStands ==
  ASSUME LedgerInv, LedgerInv', LedgerKept, ShownInv,
         UNCHANGED <<positionVars, metaVars, clock, owner>>,
         \A r \in reads' : r \in reads \/ ReadOK(r)
  PROVE  ShownInv'
<1>1. \A r \in reads' : ReadOK(r)'
  BY ReadKept DEF ShownInv
<1>2. StaleDepositor(depositor, owner.depositor)'
  <2>1. StaleDepositor(depositor, owner.depositor)
    BY DEF ShownInv
  <2>2. depositor' = depositor /\ owner' = owner
    BY DEF positionVars
  <2> DEFINE d == depositor
             u == owner.depositor
  <2>3. d' = d /\ u' = u
    BY <2>2
  <2>4. \A x, y : StaleDepositor(x, y) => StaleDepositor(x, y)'
    BY StaleKept
  <2>5. (d # Null => /\ d \in Deposits /\ u \in DOMAIN depositors'
                     /\ d.last_deposit_time <= depositors'[u].last_deposit_time)
    BY <2>1, <2>4 DEF StaleDepositor
  <2> QED
    BY <2>3, <2>5 DEF StaleDepositor
<1> QED
  BY <1>1, <1>2 DEF ShownInv, positionVars, metaVars

\* Each query answers what the ledger holds, or null.
LEMMA AnswerTypes ==
  ASSUME LedgerInv, NEW r, ReadOK(r), NEW a \in Answers(r)
  PROVE  /\ r.kind = "balance" => /\ a.balance \in Balances \cup {Null}
                                  /\ StaleDepositor(a.depositor, r.who)
                                  /\ a.keeper \in KeeperViews \cup {Null}
         /\ r.kind = "meta" => /\ a.config \in VaultConfigs \cup {Null}
                               /\ a.state \in StateViews \cup {Null}
         /\ r.kind = "keeper" => a.keeper \in KeeperViews \cup {Null}
<1>1. /\ total_usdc \in Nat /\ total_shares \in Nat
      /\ total_shares <= total_usdc /\ SharesOf \in [Users -> Nat]
      /\ \A u \in Users : SharesOf[u] <= total_shares
  BY SumsAreNat, TotalBounds, FiniteUsers
     DEF LedgerInv, IInv, TypeOK, SharesAddUp, ShareWorthAtLeastOne
<1>2. StateRecord \in StateViews
  BY <1>1 DEF StateRecord, StateViews
<1>3. ASSUME NEW w \in Wallets
      PROVE  /\ BalanceOf(w) \in Balances
             /\ StaleDepositor(DepositorRecord(w), w)
             /\ KeeperRecord(w) \in KeeperViews \cup {Null}
  <2>1. w \in Users /\ w \in Keepers
    BY PageAssumption
  <2>2. BalanceOf(w) \in Balances
    <3> DEFINE s == SharesOf[w]
    <3>1. s \in Nat /\ s <= total_shares
      BY <1>1, <2>1
    <3>2. s # 0 => UsdcFor(s, total_usdc, total_shares) \in Nat
      <4> HIDE DEF s
      <4>1. s # 0 => total_shares \in Nat \ {0}
        BY <1>1, <3>1
      <4> QED
        BY <1>1, <3>1, <4>1, WithdrawFair
    <3> QED
      BY <3>1, <3>2 DEF BalanceOf, Balances
  <2>3. StaleDepositor(DepositorRecord(w), w)
    <3>1. \A u \in DOMAIN depositors : depositors[u] \in Deposits
      BY DEF LedgerInv, IInv, TypeOK, Deposits
    <3>2. \A x \in Deposits : x.last_deposit_time <= x.last_deposit_time
      BY DEF Deposits
    <3> QED
      BY <3>1, <3>2 DEF DepositorRecord, StaleDepositor
  <2>4. KeeperRecord(w) \in KeeperViews \cup {Null}
    BY DEF LedgerInv, IInv, TypeOK, RegistryTypeOK, KeeperInfo, KeeperRecord,
           KeeperViews
  <2> QED
    BY <2>2, <2>3, <2>4
<1>4. \A x : AnswerOr(x) \subseteq {x, Null}
  BY DEF AnswerOr
<1>5. \A u : StaleDepositor(Null, u)
  BY DEF StaleDepositor
<1>6. CASE r.kind = "balance"
  <2>1. /\ a.balance \in AnswerOr(BalanceOf(r.who))
        /\ a.depositor \in AnswerOr(DepositorRecord(r.who))
        /\ a.keeper \in AnswerOr(KeeperRecord(r.who))
    BY <1>6 DEF Answers
  <2>2. r.who \in Wallets
    BY <1>6 DEF ReadOK
  <2> QED
    BY <1>3, <1>4, <1>5, <1>6, <2>1, <2>2
<1>7. CASE r.kind = "meta"
  <2>1. a.config \in AnswerOr(vconfig) /\ a.state \in AnswerOr(StateRecord)
    BY <1>7 DEF Answers
  <2>2. vconfig \in VaultConfigs
    BY DEF LedgerInv
  <2> QED
    BY <1>2, <1>4, <1>7, <2>1, <2>2
<1>8. CASE r.kind = "keeper"
  <2>1. a.keeper \in AnswerOr(KeeperRecord(r.who)) /\ r.who \in Wallets
    BY <1>8 DEF Answers, ReadOK
  <2> QED
    BY <1>3, <1>4, <1>8, <2>1
<1> QED
  BY <1>6, <1>7, <1>8 DEF ReadOK

LEMMA ShownWhenAnswered ==
  ASSUME LedgerInv, LedgerInv', LedgerKept, ShownInv, NEW r \in reads, Answer(r)
  PROVE  ShownInv'
<1>1. PICK a \in Answers(r) :
        reads' = (reads \ {r}) \cup {[r EXCEPT !.answer = a]}
  BY DEF Answer
<1> DEFINE q == [r EXCEPT !.answer = a]
<1>2. ReadOK(r)
  BY DEF ShownInv
<1>3. /\ q = [kind |-> q.kind, who |-> q.who, cause |-> q.cause,
              answer |-> q.answer]
      /\ q.kind = r.kind /\ q.who = r.who /\ q.answer = a
  BY <1>2, AnsweredFields DEF ReadOK
<1> HIDE DEF q
<1>4. ReadOK(q)
  BY <1>2, <1>3, AnswerTypes DEF ReadOK
<1>5. UNCHANGED <<positionVars, metaVars, clock, owner>>
  BY DEF Answer
<1>6. \A t \in reads' : t \in reads \/ ReadOK(t)
  BY <1>1, <1>4 DEF q
<1> QED
  BY <1>5, <1>6, ShownStands

LEMMA ShownWhenArrived ==
  ASSUME LedgerInv, LedgerInv', LedgerKept, ShownInv, NEW r \in reads, Arrive(r)
  PROVE  ShownInv'
<1>1. r.answer # Null /\ reads' = reads \ {r} /\ clock' = clock /\ ReadOK(r)
  BY DEF Arrive, ShownInv
<1>2. \A t \in reads' : ReadOK(t)'
  BY <1>1, ReadKept DEF ShownInv
<1>3. \A d, u : StaleDepositor(d, u) => StaleDepositor(d, u)'
  BY StaleKept
<1>4. CASE BalanceArrives(r)
  <2>1. /\ r.kind = "balance" /\ r.who \in Wallets
        /\ r.answer.balance \in Balances \cup {Null}
        /\ StaleDepositor(r.answer.depositor, r.who)
        /\ r.answer.keeper \in KeeperViews \cup {Null}
    BY <1>1, <1>4 DEF BalanceArrives, ReadOK
  <2>2. /\ depositor' = r.answer.depositor /\ keeperInfo' = r.answer.keeper
        /\ UNCHANGED metaVars
    BY <1>4 DEF BalanceArrives
  <2>3. /\ vaultShares' \in Nat /\ vaultUsdcValue' \in Nat
        /\ owner'.depositor = r.who
        /\ owner' \in [shares : Wallets \cup {NoWallet},
                       depositor : Wallets \cup {NoWallet}]
    <3>1. CASE r.answer.balance # Null
      BY <1>4, <2>1, <3>1 DEF BalanceArrives, Balances
    <3>2. CASE r.answer.balance = Null
      BY <1>4, <2>1, <3>2 DEF BalanceArrives, ShownInv
    <3> QED
      BY <3>1, <3>2
  <2> DEFINE d == r.answer.depositor
             u == r.who
  <2>4. StaleDepositor(d, u)'
    BY <1>3, <2>1
  <2>5. d # Null => /\ d \in Deposits /\ u \in DOMAIN depositors'
                    /\ d.last_deposit_time <= depositors'[u].last_deposit_time
    BY <2>4 DEF StaleDepositor
  <2>6. StaleDepositor(depositor, owner.depositor)'
    <3>1. depositor' = d /\ owner'.depositor = u
      BY <2>2, <2>3
    <3> HIDE DEF d, u
    <3> QED
      BY <2>5, <3>1 DEF StaleDepositor
  <2> HIDE DEF d, u
  <2> QED
    BY <1>1, <1>2, <2>1, <2>2, <2>3, <2>6 DEF ShownInv, metaVars
<1>5. CASE MetaArrives(r)
  <2>1. /\ r.kind = "meta" /\ UNCHANGED <<positionVars, owner>>
        /\ vaultCfg' \in {r.answer.config, vaultCfg}
        /\ vaultState' \in {r.answer.state, vaultState}
        /\ r.answer.config # Null \/ vaultCfg' = vaultCfg
    BY <1>5 DEF MetaArrives
  <2>2. /\ r.answer.config \in VaultConfigs \cup {Null}
        /\ r.answer.state \in StateViews \cup {Null}
    BY <1>1, <2>1 DEF ReadOK
  <2>3. StaleDepositor(depositor, owner.depositor)'
    <3>1. /\ depositor' = depositor /\ owner' = owner
          /\ StaleDepositor(depositor, owner.depositor)
      BY <2>1 DEF positionVars, ShownInv
    <3> QED
      BY <1>3, <3>1 DEF StaleDepositor
  <2> QED
    BY <1>1, <1>2, <2>1, <2>2, <2>3 DEF ShownInv, positionVars
<1>6. CASE KeeperArrives(r)
  <2>1. /\ r.kind = "keeper" /\ keeperInfo' = r.answer.keeper
        /\ UNCHANGED <<vaultShares, vaultUsdcValue, depositor, metaVars, owner>>
    BY <1>6 DEF KeeperArrives
  <2>2. r.answer.keeper \in KeeperViews \cup {Null}
    BY <1>1, <2>1 DEF ReadOK
  <2>3. StaleDepositor(depositor, owner.depositor)'
    <3>1. StaleDepositor(depositor, owner.depositor)
      BY DEF ShownInv
    <3> QED
      BY <1>3, <2>1, <3>1 DEF StaleDepositor
  <2> QED
    BY <1>1, <1>2, <2>1, <2>2, <2>3 DEF ShownInv, metaVars
<1> QED
  BY <1>4, <1>5, <1>6 DEF Arrive

LEMMA ShownStep ==
  ASSUME LedgerInv, LedgerInv', LedgerKept, NetworkInv, ShownInv, PageNext
  PROVE  ShownInv'
<1>0. /\ world.wallets \subseteq Wallets
      /\ \A c \in DOMAIN calls : calls[c].who \in Wallets
  <2>1. \A c \in DOMAIN calls : calls[c] \in CallRecord
    BY LenProperties, ElementOfSeq DEF NetworkInv
  <2> QED
    BY <2>1, WorldBounds DEF LedgerInv, CallRecord
<1>1. CASE /\ UNCHANGED <<positionVars, metaVars, clock, owner>>
           /\ \A r \in reads' : r \in reads \/ ReadOK(r)
  BY <1>1, ShownStands
<1>2. \A w \in world.wallets : SetWallet(w) =>
        \A r \in reads' : r \in reads \/ ReadOK(r)
  BY <1>0, NewRead DEF SetWallet
<1>3. CASE Connect
  BY <1>1, <1>2, <1>3 DEF Connect
<1>4. CASE Disconnect
  <2>1. /\ vaultShares' = 0 /\ vaultUsdcValue' = 0
        /\ depositor' = Null /\ keeperInfo' = Null
        /\ owner' = [shares |-> NoWallet, depositor |-> NoWallet]
        /\ UNCHANGED <<metaVars, clock, reads>>
    BY <1>4 DEF Disconnect
  <2>2. \A r \in reads' : ReadOK(r)'
    BY <2>1, ReadKept DEF ShownInv
  <2> QED
    BY <2>1, <2>2 DEF ShownInv, metaVars, StaleDepositor
<1>5. CASE \/ TabClick \/ ResetClick \/ Enter \/ SubmitClick
           \/ RegisterClick \/ DeregisterClick \/ Elsewhere
  BY <1>1, <1>5 DEF TabClick, ResetClick, Enter, SubmitClick, RegisterClick,
                    DeregisterClick, Page, Elsewhere
<1>6. CASE ReadStep
  BY <1>6, ShownWhenAnswered, ShownWhenArrived DEF ReadStep
<1>7. CASE TickClock
  <2>1. UNCHANGED <<positionVars, metaVars, reads, owner>>
    BY <1>7 DEF TickClock
  <2>2. clock' \in Int
    <3>1. now \in Nat /\ world.skew \in Nat
      BY RegistryAssumption, WorldBounds
         DEF LedgerInv, IInv, TypeOK, RegistryTypeOK
    <3>2. clock' \in (now - world.skew) .. (now + world.skew)
      BY <1>7 DEF TickClock
    <3> QED
      BY <3>1, <3>2
  <2>3. \A r \in reads' : ReadOK(r)'
    BY <2>1, ReadKept DEF ShownInv
  <2>4. UNCHANGED depositors
    BY <1>7 DEF TickClock, vars, vaultVars
  <2> QED
    BY <2>1, <2>2, <2>3, <2>4
       DEF ShownInv, positionVars, metaVars, StaleDepositor
<1>8. ASSUME NEW c, Prepare(c) \/ Sign(c) \/ Fault(c) \/ Include(c) \/ Drop(c)
      PROVE  ShownInv'
  BY <1>1, <1>8 DEF Prepare, Sign, Fault, Include, Drop, OnlyTheCall
<1>9. ASSUME NEW c, Await(c) PROVE ShownInv'
  <2>1. /\ c \in DOMAIN calls
        /\ UNCHANGED <<vaultShares, vaultUsdcValue, depositor, metaVars, clock,
                       owner>>
    BY <1>9 DEF Await, At
  <2>2. CASE SubmitFound(c) \/ RegisterFound(c)
    <3>1. UNCHANGED keeperInfo
      BY <2>2 DEF SubmitFound, RegisterFound
    <3>2. \A r \in reads' : r \in reads \/ ReadOK(r)
      BY <1>0, <2>1, <2>2, NewRead DEF SubmitFound, RegisterFound
    <3> QED
      BY <1>1, <2>1, <3>1, <3>2 DEF positionVars
  <2>3. CASE DeregisterFound(c)
    <3>1. keeperInfo' = Null /\ UNCHANGED reads
      BY <2>3 DEF DeregisterFound
    <3>2. \A r \in reads' : ReadOK(r)'
      BY <3>1, ReadKept DEF ShownInv
    <3>3. UNCHANGED depositors
      BY <1>9 DEF Await, vars, vaultVars
    <3> QED
      BY <2>1, <3>1, <3>2, <3>3 DEF ShownInv, metaVars, StaleDepositor
  <2> QED
    BY <1>9, <2>2, <2>3 DEF Await
<1>10. ASSUME NEW c, Reconnect(c) PROVE ShownInv'
  BY <1>1, <1>2, <1>10 DEF Reconnect
<1> QED
  BY <1>3, <1>4, <1>5, <1>6, <1>7, <1>8, <1>9, <1>10 DEF PageNext, Click

-----------------------------------------------------------------------------
(* Polling, action by action.                                              *)

LEMMA PollStands ==
  ASSUME PollInv, UNCHANGED world, DOMAIN calls \subseteq DOMAIN calls',
         \A d \in DOMAIN calls :
           /\ calls'[d].who = calls[d].who
           /\ calls[d].stage \notin {"prepare", "sign"} =>
                /\ calls'[d].seq = calls[d].seq
                /\ calls'[d].stage \notin {"prepare", "sign"}
           /\ Found(d) => Found(d)'
           /\ d \in pending => d \in pending' \/ Found(d)',
         \A c \in DOMAIN calls' : At(c, "await")' => At(c, "await") \/ Polled(c)'
  PROVE  PollInv'
<1> SUFFICES ASSUME world.faults = {}, NEW c \in DOMAIN calls', At(c, "await"),
                    ~Found(c)', c \notin pending'
             PROVE  Polled(c)'
  BY DEF PollInv, Polled
<1>1. c \in DOMAIN calls /\ calls[c].stage = "await"
  BY DEF At
<1>2. ~Found(c) /\ c \notin pending /\ Polled(c)
  BY <1>1 DEF PollInv
<1>3. PICK d \in DOMAIN calls \ {c} :
        /\ calls[d].who = calls[c].who /\ calls[d].seq = calls[c].seq
        /\ calls[d].stage \notin {"prepare", "sign"}
        /\ d \in pending \/ Found(d)
  BY <1>2 DEF Polled
<1>4. /\ calls'[c].who = calls[c].who /\ calls'[c].seq = calls[c].seq
      /\ calls'[d].who = calls[d].who /\ calls'[d].seq = calls[d].seq
      /\ calls'[d].stage \notin {"prepare", "sign"}
      /\ d \in pending' \/ Found(d)'
  BY <1>1, <1>3
<1>5. d \in DOMAIN calls' \ {c}
  BY <1>3
<1> QED
  BY <1>3, <1>4, <1>5 DEF Polled

\* A call moves on that has nothing to poll for yet, or nothing any more.
LEMMA PollWhenMoved ==
  ASSUME PollInv, UNCHANGED <<world, outcome, pending>>,
         NEW c \in DOMAIN calls, NEW s \in {"sign", "refresh", "query", "over"},
         Moved(c, s), s = "sign" => calls[c].stage = "prepare",
         s # "sign" => calls'[c].seq = calls[c].seq
  PROVE  PollInv'
<1>1. /\ DOMAIN calls' = DOMAIN calls /\ calls'[c].stage = s
      /\ calls'[c].who = calls[c].who
      /\ \A d \in DOMAIN calls \ {c} : calls'[d] = calls[d]
  BY DEF Moved
<1>2. \A d : Found(d)' <=> Found(d)
  BY DEF Found
<1>3. \A d \in DOMAIN calls' : At(d, "await")' => At(d, "await")
  BY <1>1 DEF At
<1> QED
  BY <1>1, <1>2, <1>3, PollStands

\* The transaction that is sent is pending, or the account has another one,
\* with the same sequence number.
LEMMA PollWhenSent ==
  ASSUME PollInv, NetworkInv, UNCHANGED <<world, outcome>>,
         NEW c \in DOMAIN calls, calls[c].stage = "sign", To(c, "await"),
         calls[c].seq = account[calls[c].who], pending' = Sent(c)
  PROVE  PollInv'
<1>1. /\ DOMAIN calls' = DOMAIN calls /\ calls'[c].stage = "await"
      /\ \A d \in DOMAIN calls :
           /\ calls'[d].who = calls[d].who /\ calls'[d].seq = calls[d].seq
           /\ d # c => calls'[d].stage = calls[d].stage
  BY StageMoves DEF NetworkInv, Stages, Moved
<1>2. \A d : Found(d)' <=> Found(d)
  BY DEF Found
<1>3. pending \subseteq pending'
  BY DEF Sent
<1>4. Polled(c)'
  <2>1. CASE c \in pending'
    BY <2>1 DEF Polled
  <2>2. CASE c \notin pending'
    <3>1. PICK d \in pending : calls[d].who = calls[c].who /\ pending' = pending
      BY <2>2 DEF Sent
    <3>2. /\ d \in DOMAIN calls' /\ d # c /\ calls[d].stage \in {"await", "over"}
          /\ calls[d].seq = calls[c].seq
      BY <1>1, <2>2, <3>1 DEF NetworkInv
    <3>3. /\ calls'[d].who = calls'[c].who /\ calls'[d].seq = calls'[c].seq
          /\ calls'[d].stage \notin {"prepare", "sign"} /\ d \in pending'
      BY <1>1, <3>1, <3>2
    <3> QED
      BY <3>2, <3>3 DEF Polled
  <2> QED
    BY <2>1, <2>2
<1>5. \A d \in DOMAIN calls' : At(d, "await")' => At(d, "await") \/ Polled(d)'
  BY <1>1, <1>4 DEF At
<1>6. \A d \in DOMAIN calls :
        /\ calls'[d].who = calls[d].who
        /\ calls[d].stage \notin {"prepare", "sign"} =>
             /\ calls'[d].seq = calls[d].seq
             /\ calls'[d].stage \notin {"prepare", "sign"}
  BY <1>1
<1> QED
  BY <1>1, <1>2, <1>3, <1>5, <1>6, PollStands

LEMMA PollWhenStarted ==
  ASSUME LedgerInv, NetworkInv, FormInv, PollInv, Connected,
         UNCHANGED <<world, outcome, pending>>,
         NEW op \in SubmitOps \cup KeeperOps, NEW a \in Nat, Start(op, a)
  PROVE  PollInv'
<1> DEFINE n == Len(calls) + 1
<1>1. /\ n \notin DOMAIN calls /\ DOMAIN calls' = DOMAIN calls \cup {n}
      /\ calls'[n].stage = "prepare"
      /\ \A d \in DOMAIN calls : calls'[d] = calls[d]
  BY WorldBounds, CallAppended DEF LedgerInv, NetworkInv, FormInv, Connected
<1> HIDE DEF n
<1>2. \A d : Found(d)' <=> Found(d)
  BY DEF Found
<1>3. \A d \in DOMAIN calls' : At(d, "await")' => At(d, "await")
  BY <1>1 DEF At
<1> QED
  BY <1>1, <1>2, <1>3, PollStands

LEMMA PollStep ==
  ASSUME LedgerInv, NetworkInv, FormInv, PanelInv, PollInv, PageNext
  PROVE  PollInv'
<1>1. CASE UNCHANGED <<world, calls, outcome, pending>>
  <2>1. \A d : /\ Found(d)' <=> Found(d)
               /\ At(d, "await")' <=> At(d, "await")
    BY <1>1 DEF Found, At
  <2> QED
    BY <1>1, <2>1, PollStands
<1>2. CASE Connect \/ Disconnect \/ TabClick \/ ResetClick \/ Enter
  BY <1>1, <1>2 DEF Connect, Disconnect, TabClick, ResetClick, Enter, Page,
                    networkVars
<1>3. CASE SubmitClick
  <2>1. /\ UNCHANGED <<world, outcome, pending>> /\ Connected
        /\ tab \in SubmitOps /\ amount \in Nat
    BY <1>3 DEF SubmitClick, SubmitEnabled, FormView, Page, networkVars, FormInv
  <2>2. Start(tab, amount) \/ UNCHANGED calls
    BY <1>3 DEF SubmitClick
  <2> QED
    BY <1>1, <2>1, <2>2, PollWhenStarted
<1>4. CASE RegisterClick \/ DeregisterClick
  <2>1. /\ UNCHANGED <<world, outcome, pending>> /\ Connected
        /\ Start("register", 0) \/ Start("deregister", 0)
    BY <1>4 DEF RegisterClick, DeregisterClick, PanelEnabled, Page, networkVars
  <2> QED
    BY <2>1, PollWhenStarted DEF KeeperOps
<1>5. CASE ReadStep
  <2>1. PICK r \in reads : Answer(r) \/ Arrive(r)
    BY <1>5 DEF ReadStep
  <2>2. UNCHANGED <<world, outcome, pending>>
    BY <2>1 DEF Answer, Arrive, networkVars
  <2>3. CASE Arrive(r) /\ KeeperArrives(r)
    <3>1. r.cause \in DOMAIN calls /\ To(r.cause, "over")
      BY <2>3 DEF KeeperArrives, PanelInv, Over, To
    <3>2. Moved(r.cause, "over") /\ calls'[r.cause].seq = calls[r.cause].seq
      BY <3>1, StageMoves DEF Stages, NetworkInv
    <3> QED
      BY <2>2, <3>1, <3>2, PollWhenMoved
  <2>4. CASE ~(Arrive(r) /\ KeeperArrives(r))
    BY <1>1, <2>1, <2>2, <2>4 DEF Answer, Arrive, BalanceArrives, MetaArrives
  <2> QED
    BY <2>3, <2>4
<1>6. CASE TickClock \/ Elsewhere
  BY <1>1, <1>6 DEF TickClock, Elsewhere, networkVars
<1>7. ASSUME NEW c \in DOMAIN calls, Over(c), UNCHANGED <<world, outcome, pending>>
      PROVE  PollInv'
  <2>1. Moved(c, "over") /\ calls'[c].seq = calls[c].seq
    BY <1>7, StageMoves DEF Over, To, Stages, NetworkInv
  <2> QED
    BY <1>7, <2>1, PollWhenMoved
<1>8. ASSUME NEW c, Prepare(c) PROVE PollInv'
  <2>1. /\ c \in DOMAIN calls /\ calls[c].stage = "prepare"
        /\ UNCHANGED <<world, outcome, pending>>
    BY <1>8 DEF Prepare, At, OnlyTheCall, networkVars
  <2>2. CASE Accepted(c)
    <3>1. calls' = [calls EXCEPT ![c].stage = "sign",
                                 ![c].seq = account[calls[c].who]]
      BY <1>8, <2>2 DEF Prepare
    <3>2. calls[c] \in CallRecord
      BY <2>1, LenProperties, ElementOfSeq DEF NetworkInv
    <3>3. account[calls[c].who] \in Nat
      BY <3>2 DEF NetworkInv, CallRecord
    <3>4. Moved(c, "sign")
      BY <2>1, <3>1, <3>3, PreparedMoves DEF NetworkInv
    <3> HIDE <3>1
    <3> QED
      BY <2>1, <3>4, PollWhenMoved
  <2>3. CASE ~Accepted(c)
    BY <1>7, <1>8, <2>1, <2>3 DEF Prepare, Throw
  <2> QED
    BY <2>2, <2>3
<1>9. ASSUME NEW c, Sign(c) PROVE PollInv'
  <2>1. /\ c \in DOMAIN calls /\ calls[c].stage = "sign"
        /\ UNCHANGED <<world, outcome>>
    BY <1>9 DEF Sign, At, OnlyTheCall
  <2> QED
    BY <1>7, <1>9, <2>1, PollWhenSent DEF Sign, Throw
<1>10. ASSUME NEW c, Fault(c) \/ Drop(c) PROVE PollInv'
  <2>1. world.faults # {} /\ UNCHANGED world
    BY <1>10 DEF Fault, Drop, OnlyTheCall
  <2> QED
    BY <2>1 DEF PollInv
<1>11. ASSUME NEW c, Include(c) PROVE PollInv'
  <2>1. /\ UNCHANGED <<world, calls>> /\ c \in pending
        /\ pending' = pending \ {c}
        /\ \E o \in {"SUCCESS", "FAILED"} : outcome' = [outcome EXCEPT ![c] = o]
    BY <1>11 DEF Include
  <2>2. /\ Found(c)'
        /\ \A d \in Ids : Found(d) => Found(d)'
    BY <2>1, CallsInIds DEF Found, NetworkInv
  <2>3. \A d : At(d, "await")' <=> At(d, "await")
    BY <2>1 DEF At
  <2> QED
    BY <2>1, <2>2, <2>3, CallsInIds, PollStands
<1>12. ASSUME NEW c, Await(c) PROVE PollInv'
  <2>1. c \in DOMAIN calls /\ UNCHANGED <<world, outcome, pending>>
    BY <1>12 DEF Await, At, networkVars
  <2>2. PICK s \in {"refresh", "query", "over"} : To(c, s)
    BY <1>12 DEF Await, SubmitFound, RegisterFound, DeregisterFound, Over, To
  <2>3. Moved(c, s) /\ calls'[c].seq = calls[c].seq
    BY <2>1, <2>2, StageMoves DEF Stages, NetworkInv
  <2> QED
    BY <2>1, <2>3, PollWhenMoved
<1>13. ASSUME NEW c, Reconnect(c) PROVE PollInv'
  BY <1>7, <1>13 DEF Reconnect, At, Throw, networkVars
<1> QED
  BY <1>2, <1>3, <1>4, <1>5, <1>6, <1>8, <1>9, <1>10, <1>11, <1>12, <1>13
     DEF PageNext, Click

-----------------------------------------------------------------------------
(* The page has been opened.                                               *)

\* The contracts that a visitor finds, on its first visit or a later one.
LEMMA LedgerFound ==
  ASSUME world \in Worlds, LedgerInit
  PROVE  LedgerInv
<1> DEFINE known == IF world.past THEN world.wallets ELSE {}
           n == Cardinality(known)
           stake == IF known = {} THEN 0 ELSE rconfig.min_stake
<1>1. /\ known \subseteq Wallets /\ known \subseteq Users /\ known \subseteq Keepers
      /\ known \in SUBSET Users /\ known \in SUBSET Keepers
  BY PageAssumption
<1>2. IsFiniteSet(known) /\ n \in Nat
  <2>1. IsFiniteSet(known)
    BY <1>1, FiniteUsers, FS_Subset
  <2> HIDE DEF known
  <2> QED
    BY <2>1, FS_CardinalityType
<1>3. /\ rconfig \in RegistryConfigs /\ stake \in Nat
      /\ \A w \in known : InitialBalance[w] - Deposited - stake \in Nat
  <2>1. rconfig \in RegistryConfigs
    BY DEF LedgerInit
  <2>2. \A w \in known : /\ rconfig.min_stake >= 0
                         /\ InitialBalance[w] >= Deposited + rconfig.min_stake
    BY <1>1, <2>1, PastAssumption
  <2>3. rconfig.min_stake \in Int
    BY <2>1, RegistryAssumption
  <2>4. \A w \in known : InitialBalance[w] \in Nat
    BY <1>1, VaultAssumption
  <2> HIDE DEF known
  <2> QED
    BY <2>1, <2>2, <2>3, <2>4, PageAssumption DEF stake
<1>4. n * Deposited \in Nat /\ n * stake \in Nat
  <2> HIDE DEF n, stake
  <2> QED
    BY <1>2, <1>3, ProductOfNat, PageAssumption
<1>5. /\ VaultAddr \notin known /\ RegistryAddr \notin known
      /\ VaultAddr # RegistryAddr
      /\ VaultAddr \in Accounts /\ RegistryAddr \in Accounts
  BY <1>1, RegistryAssumption
<1> HIDE DEF known
<1>6. /\ now = 2 /\ paused = FALSE
      /\ vconfig \in VaultConfigs
      /\ usdc = [a \in Accounts |->
           CASE a = VaultAddr -> n * Deposited
             [] a = RegistryAddr -> n * stake
             [] a \in known -> InitialBalance[a] - Deposited - stake
             [] OTHER -> InitialBalance[a]]
      /\ info = [w \in known |-> NewKeeper(stake)]
      /\ keeperCount = n
      /\ total_usdc = n * Deposited /\ total_shares = n * Deposited
      /\ total_profit = 0 /\ active_liq = 0
      /\ depositors =
           [w \in known |-> [shares |-> Deposited, last_deposit_time |-> 1]]
      /\ keeperDraw = [k \in Keepers |-> 0]
      /\ windfall = 0 /\ writtenOff = 0 /\ slashed = {}
  <2>1. n * rconfig.min_stake = n * stake
    <3>1. CASE known = {}
      <4>1. n = 0 /\ rconfig.min_stake \in Int
        BY <1>3, <3>1, FS_EmptySet, RegistryAssumption
      <4> HIDE DEF n
      <4> QED
        BY <3>1, <4>1
    <3>2. CASE known # {}
      BY <3>2
    <3> QED
      BY <3>1, <3>2
  <2>2. \A w \in known : stake = rconfig.min_stake
    OBVIOUS
  <2>3. vconfig = world.config
    BY DEF LedgerInit
  <2>4. vconfig \in VaultConfigs
    BY <2>3, PageAssumption
  <2> HIDE DEF stake
  <2> QED
    BY <2>1, <2>2, <2>4 DEF LedgerInit, known
<1> HIDE DEF n, stake
<1>7. /\ usdc \in [Accounts -> Nat]
      /\ usdc[VaultAddr] = n * Deposited /\ usdc[RegistryAddr] = n * stake
  <2> DEFINE bal(a) == CASE a = VaultAddr -> n * Deposited
                         [] a = RegistryAddr -> n * stake
                         [] a \in known -> InitialBalance[a] - Deposited - stake
                         [] OTHER -> InitialBalance[a]
  <2>1. usdc = [a \in Accounts |-> bal(a)]
    BY <1>6
  <2>2. \A a \in Accounts : bal(a) \in Nat
    BY <1>3, <1>4, VaultAssumption
  <2>3. bal(VaultAddr) = n * Deposited /\ bal(RegistryAddr) = n * stake
    BY <1>5
  <2> HIDE DEF bal
  <2> QED
    BY <1>5, <2>1, <2>2, <2>3
<1>8. /\ DOMAIN info = known /\ info \in [known -> KeeperInfo]
      /\ \A w \in known : /\ info[w].stake = stake /\ info[w].total_profit = 0
                          /\ ~info[w].has_active_draw
  <2>1. NewKeeper(stake) \in KeeperInfo
    BY <1>3, RegistryAssumption DEF NewKeeper, KeeperInfo
  <2>2. /\ NewKeeper(stake).stake = stake /\ NewKeeper(stake).total_profit = 0
        /\ ~NewKeeper(stake).has_active_draw
    BY DEF NewKeeper
  <2> QED
    BY <1>6, <2>1, <2>2
<1>9. /\ DOMAIN depositors = known
      /\ depositors \in [known -> [shares : Nat, last_deposit_time : Nat]]
      /\ \A w \in known : /\ depositors[w].shares = Deposited
                          /\ depositors[w].last_deposit_time = 1
  BY <1>6, PageAssumption
<1>10. TypeOK
  <2>1. now \in 0 .. MaxTime
    BY <1>6, PastAssumption, RegistryAssumption
  <2>2. RegistryTypeOK
    BY <1>1, <1>2, <1>3, <1>6, <1>7, <1>8, <2>1 DEF RegistryTypeOK
  <2> QED
    BY <1>1, <1>4, <1>6, <1>9, <2>2 DEF TypeOK
<1>11. Total(SharesOf) = n * Deposited
  <2>1. HoldTheSame(Users, known, Deposited, SharesOf)
    BY <1>1, <1>2, <1>9, PageAssumption DEF SharesOf, HoldTheSame
  <2>2. Total(SharesOf) = Cardinality(known) * Deposited
    BY <2>1, TotalOfEqual
  <2> QED
    BY <2>2 DEF n
<1>12. Total(StakeOf) = n * stake
  <2>1. HoldTheSame(Keepers, known, stake, StakeOf)
    BY <1>1, <1>2, <1>3, <1>8 DEF StakeOf, HoldTheSame
  <2>2. Total(StakeOf) = Cardinality(known) * stake
    BY <2>1, TotalOfEqual
  <2> QED
    BY <2>2 DEF n
<1>13. Total(CreditOf) = 0 /\ Total(keeperDraw) = 0
  <2>1. CreditOf \in [Keepers -> Nat] /\ \A k \in Keepers : CreditOf[k] = 0
    BY <1>1, <1>8 DEF CreditOf
  <2>2. keeperDraw \in [Keepers -> Nat] /\ \A k \in Keepers : keeperDraw[k] = 0
    BY <1>6
  <2> QED
    BY <2>1, <2>2, TotalOfNothing
<1>14. /\ SharesAddUp /\ ShareWorthAtLeastOne /\ CashConserved /\ ActiveLiqIsOut
       /\ StakesInv /\ CreditBacked
  BY <1>3, <1>4, <1>6, <1>7, <1>8, <1>11, <1>12, <1>13
     DEF SharesAddUp, ShareWorthAtLeastOne, CashConserved, ActiveLiqIsOut,
         StakesInv, StakesBacked, CreditBacked
<1>15. DrawsTracked /\ Uninitialized
  BY <1>6, <1>8, VaultAssumption DEF DrawsTracked, Uninitialized
<1> QED
  BY <1>6, <1>9, <1>10, <1>14, <1>15 DEF LedgerInv, IInv

LEMMA PageOpened == PageInit => PageInv
<1> SUFFICES ASSUME PageInit PROVE PageInv
  OBVIOUS
<1>1. world \in Worlds /\ LedgerInit
  BY DEF PageInit
<1>2. LedgerInv
  BY <1>1, LedgerFound
<1>3. /\ calls = <<>> /\ DOMAIN calls = {} /\ calls \in Seq(CallRecord)
      /\ Len(calls) = 0
  <2>1. calls = <<>>
    BY DEF PageInit
  <2>2. <<>> \in Seq(CallRecord) /\ Len(<<>>) = 0 /\ DOMAIN <<>> = {}
    OBVIOUS
  <2> QED
    BY <2>1, <2>2
<1>4. Submitting = {} /\ Open = {}
  BY <1>3 DEF Submitting, Open
<1>5. NetworkInv
  <2>1. account \in [Wallets -> Nat] /\ pending = {}
        /\ outcome = [c \in Ids |-> "NOT_FOUND"] /\ world.calls \in Nat
    BY <1>1, WorldBounds DEF PageInit
  <2> QED
    BY <1>3, <2>1 DEF NetworkInv
<1>6. FormInv
  BY <1>4 DEF PageInit, FormInv, SubmitOps
<1>7. reads = {Read("meta", NoWallet, 0)}
  BY DEF PageInit
<1>8. PanelInv
  <2>1. \A r \in reads : r.kind = "meta"
    BY <1>7 DEF Read
  <2> QED
    BY <1>4, <2>1 DEF PageInit, PanelInv
<1>9. ShownInv
  <2>1. \A r \in reads : ReadOK(r)
    BY <1>7, NewRead
  <2>2. clock = now /\ now = 2
    BY DEF PageInit, LedgerInit
  <2>3. owner \in [shares : Wallets \cup {NoWallet}, depositor : Wallets \cup {NoWallet}]
    BY DEF PageInit
  <2>4. StaleDepositor(depositor, owner.depositor)
    BY DEF PageInit, StaleDepositor
  <2>5. /\ vaultShares = 0 /\ vaultUsdcValue = 0 /\ keeperInfo = Null
        /\ vaultCfg = Null /\ vaultState = Null
    BY DEF PageInit
  <2> QED
    BY <2>1, <2>2, <2>3, <2>4, <2>5 DEF ShownInv
<1>10. PollInv
  BY <1>3 DEF PollInv
<1> QED
  BY <1>2, <1>5, <1>6, <1>8, <1>9, <1>10 DEF PageInv

-----------------------------------------------------------------------------
(* All of it together.                                                     *)

LEMMA PageIdle ==
  ASSUME PageInv, UNCHANGED pageVars
  PROVE  PageInv'
<1>1. UNCHANGED <<world, wallet, formVars, positionVars, metaVars, keeperBusy,
                  clock, reads, calls, networkVars, vars, owner, abandoned>>
  BY DEF pageVars
<1>2. LedgerInv' /\ LedgerKept
  <2>1. LedgerCall
    BY <1>1 DEF LedgerCall
  <2> QED
    BY <1>1, <2>1, LedgerCallKeeps DEF PageInv
<1>3. NetworkInv'
  BY <1>1 DEF PageInv, NetworkInv, networkVars
<1>4. FormInv'
  BY <1>1, FormStands DEF PageInv, FormInv, Submitting, networkVars
<1>5. PanelInv'
  BY <1>1, PanelStands DEF PageInv, PanelInv, Open
<1>6. ShownInv'
  BY <1>1, <1>2, ShownStands DEF PageInv
<1>7. PollInv'
  <2>1. \A d : /\ Found(d)' <=> Found(d)
               /\ At(d, "await")' <=> At(d, "await")
    BY <1>1 DEF Found, At, networkVars
  <2> QED
    BY <1>1, <2>1, PollStands DEF PageInv, networkVars
<1> QED
  BY <1>2, <1>3, <1>4, <1>5, <1>6, <1>7 DEF PageInv

LEMMA PageStep == PageInv /\ [PageNext]_pageVars => PageInv'
<1> SUFFICES ASSUME PageInv, PageNext PROVE PageInv'
  BY PageIdle
<1> USE DEF PageInv
<1>1. LedgerInv' /\ LedgerKept
  BY LedgerStep
<1>2. NetworkInv'
  BY NetworkStep
<1>3. FormInv'
  BY FormStep
<1>4. PanelInv'
  BY PanelStep
<1>5. ShownInv'
  BY <1>1, ShownStep
<1>6. PollInv'
  BY PollStep
<1> QED
  BY <1>1, <1>2, <1>3, <1>4, <1>5, <1>6

\* The page's inductive invariant holds in every behaviour.
THEOREM PageInvariance == PageSpec => []PageInv
<1> QED
  BY PageOpened, PageStep, PTL DEF PageSpec

\* The contracts keep their promises behind the page, too, whatever the page
\* sends them: the page adds no way of calling them.
THEOREM ContractsStandBehindThePage ==
  PageSpec => [](SharesAddUp /\ ShareWorthAtLeastOne /\ CashConserved /\ DrawsTracked)
<1>1. PageInv => SharesAddUp /\ ShareWorthAtLeastOne /\ CashConserved /\ DrawsTracked
  BY DEF PageInv, LedgerInv, IInv
<1> QED
  BY <1>1, PageInvariance, PTL

-----------------------------------------------------------------------------
(* What the invariant says of the page.                                    *)

LEMMA AtMostOne ==
  ASSUME NEW S, \A c, d \in S : c = d
  PROVE  Cardinality(S) <= 1
<1>1. CASE S = {}
  <2>1. Cardinality({}) = 0
    BY FS_EmptySet
  <2> QED
    BY <1>1, <2>1
<1>2. CASE S # {}
  <2>1. PICK c \in S : TRUE
    BY <1>2
  <2>2. S = {c}
    BY <2>1
  <2>3. Cardinality({c}) = 1
    BY FS_Singleton
  <2> QED
    BY <2>2, <2>3
<1> QED
  BY <1>1, <1>2

\* handleSubmit, resetTx: the form has one transaction in progress at most,
\* apart from those that it was reset from.
THEOREM OneSubmitAtATime == PageSpec => []NoDoubleSubmit
<1>1. PageInv => NoDoubleSubmit
  <2> SUFFICES ASSUME PageInv PROVE NoDoubleSubmit
    OBVIOUS
  <2> DEFINE left == Submitting \ abandoned
  <2>1. \A c, d \in left : c = d
    BY DEF PageInv, FormInv
  <2> HIDE DEF left
  <2>2. Cardinality(left) <= 1
    BY <2>1, AtMostOne
  <2> QED
    BY <2>2 DEF NoDoubleSubmit, left
<1> QED
  BY <1>1, PageInvariance, PTL

\* handleRegisterKeeper, handleDeregisterKeeper: the buttons of the panel are
\* disabled exactly while one of its transactions is in progress.
THEOREM PanelIsBusy == PageSpec => []BusyMeansBusy
<1>1. PageInv => BusyMeansBusy
  <2> SUFFICES ASSUME PageInv PROVE BusyMeansBusy
    OBVIOUS
  <2>1. /\ keeperBusy \in BOOLEAN /\ (keeperBusy <=> Open # {})
        /\ \A c, d \in Open : c = d
    BY DEF PageInv, PanelInv
  <2>2. Cardinality(Open) <= 1
    BY <2>1, AtMostOne
  <2>3. keeperBusy = (Open # {})
    BY <2>1
  <2> QED
    BY <2>2, <2>3 DEF BusyMeansBusy, Open
<1> QED
  BY <1>1, PageInvariance, PTL

\* handleSubmit: a transaction that the card calls confirmed is included, one
\* that it says failed on-chain has failed, whatever other calls are open.
THEOREM TheCardIsTrue == PageSpec => []CardTellsTheTruth
<1>1. PageInv => CardTellsTheTruth
  BY DEF PageInv, FormInv, CardTellsTheTruth
<1> QED
  BY <1>1, PageInvariance, PTL

\* handleSubmit's pre-flight checks: with the configuration that the vault has,
\* a clock that is not behind the ledger's and a count that is not above the
\* vault's, the page refuses only what the vault refuses, however old the record
\* is that it has read.
THEOREM RefusalsAreFair == PageSpec => []NoVainRefusal
<1>1. ASSUME PageInv, SubmitEnabled, vaultCfg = vconfig, Preflight = "cooldown",
             clock >= now, owner.depositor = wallet
      PROVE  ~WithdrawAllowed(wallet, amount)
  <2>1. CooldownRemaining > 0
    BY <1>1 DEF Preflight
  <2>2. depositor # Null
    BY <2>1 DEF CooldownRemaining
  <2>3. /\ clock \in Int /\ depositor \in Deposits
        /\ wallet \in DOMAIN depositors
        /\ depositor.last_deposit_time <= depositors[wallet].last_deposit_time
    BY <1>1, <2>2 DEF PageInv, ShownInv, StaleDepositor
  <2>4. vconfig.withdraw_cooldown \in Nat
    BY <1>1, VaultAssumption DEF PageInv, LedgerInv
  <2>5. now \in Nat /\ depositors[wallet].last_deposit_time \in Nat
    BY <1>1, <2>3, RegistryAssumption
       DEF PageInv, LedgerInv, IInv, TypeOK, RegistryTypeOK
  <2>6. depositor.last_deposit_time \in Nat
    BY <2>3 DEF Deposits
  <2>7. depositor.last_deposit_time + vconfig.withdraw_cooldown > clock
    BY <1>1, <2>1, <2>3, <2>4, <2>6 DEF CooldownRemaining, SaturatingSub
  <2> DEFINE last == depositors[wallet].last_deposit_time
             cooldown == vconfig.withdraw_cooldown
  <2>8. last + cooldown > now /\ 0 < cooldown
    <3>1. cooldown > 0
      BY <1>1, <2>1 DEF CooldownRemaining
    <3> DEFINE seen == depositor.last_deposit_time
    <3>2. seen \in Nat /\ seen <= last /\ seen + cooldown > clock /\ clock >= now
      BY <1>1, <2>3, <2>6, <2>7
    <3> HIDE DEF last, cooldown, seen
    <3> QED
      BY <2>3, <2>4, <2>5, <3>1, <3>2 DEF last, cooldown
  <2> HIDE DEF last, cooldown
  <2>9. ~(SaturatingSub(now, last) >= cooldown)
    BY <2>4, <2>5, <2>8 DEF SaturatingSub, last, cooldown
  <2> QED
    BY <2>9 DEF WithdrawAllowed, last, cooldown
<1>2. ASSUME PageInv, SubmitEnabled, vaultCfg = vconfig, Preflight = "cap",
             Overview.tvl <= total_usdc
      PROVE  ~DepositAllowed(wallet, amount)
  <2>1. Cap > 0 /\ Overview.tvl + amount > Cap
    BY <1>2 DEF Preflight
  <2>2. Cap = IF vaultCfg = Null THEN 0 ELSE vconfig.deposit_cap
    BY <1>2 DEF Cap
  <2>3. Cap = vconfig.deposit_cap /\ Cap \in Int
    BY <1>2, <2>1, <2>2, VaultAssumption DEF PageInv, LedgerInv
  <2>4. amount \in Nat /\ total_usdc \in Nat
    BY <1>2 DEF PageInv, LedgerInv, FormInv, IInv, TypeOK
  <2>5. Overview.tvl \in Nat
    BY <1>2 DEF PageInv, ShownInv, StateViews, Overview
  <2>6. total_usdc + amount > Cap
    BY <1>2, <2>1, <2>3, <2>4, <2>5
  <2> QED
    BY <2>1, <2>3, <2>6 DEF DepositAllowed
<1>3. PageInv => NoVainRefusal
  BY <1>1, <1>2 DEF NoVainRefusal
<1> QED
  BY <1>3, PageInvariance, PTL

\* buildAndSubmit: where nothing goes wrong, a handler polls for a transaction
\* that the network has, or whose sequence number another one has taken.
THEOREM PollingEnds == PageSpec => []NoPollInVain
<1>1. PageInv => NoPollInVain
  BY DEF PageInv, PollInv, Polled, NoPollInVain
<1> QED
  BY <1>1, PageInvariance, PTL

\* The page's state keeps its types, the amounts it derives and shows included.
THEOREM PageTypeCorrect == PageSpec => []PageTypeOK
<1>1. PageInv => PageTypeOK
  <2> SUFFICES ASSUME PageInv PROVE PageTypeOK
    OBVIOUS
  <2>1. /\ world \in Worlds /\ DOMAIN calls \subseteq Ids
        /\ pending \subseteq Ids /\ txHash \in Ids \cup {0}
    BY CallsInIds DEF PageInv, LedgerInv, NetworkInv, FormInv
  <2>2. Position.shares \in Nat /\ Position.value \in Nat
    <3>1. vaultShares \in Nat /\ vaultUsdcValue \in Nat
      BY DEF PageInv, ShownInv
    <3>2. InCents(vaultShares, Cent) \in Nat /\ InCents(vaultUsdcValue, Cent) \in Nat
      BY <3>1, CentsAreNat
    <3> QED
      BY <3>2 DEF Position
  <2>3. Overview.tvl \in Nat
    BY DEF PageInv, ShownInv, StateViews, Overview
  <2>4. depositor # Null => depositor \in Deposits
    BY DEF PageInv, ShownInv, StaleDepositor
  <2>5. CooldownRemaining \in Nat
    <3>1. CASE vaultCfg # Null /\ depositor # Null
      <4>1. vaultCfg.withdraw_cooldown \in Nat /\ clock \in Int
        BY <3>1, VaultAssumption DEF PageInv, LedgerInv, ShownInv
      <4>2. depositor.last_deposit_time \in Nat
        BY <2>4, <3>1 DEF Deposits
      <4> QED
        BY <4>1, <4>2 DEF CooldownRemaining, SaturatingSub
    <3>2. CASE ~(vaultCfg # Null /\ depositor # Null)
      BY <3>2 DEF CooldownRemaining
    <3> QED
      BY <3>1, <3>2
  <2>6. /\ depositor = Null \/ DOMAIN depositor = {"shares", "last_deposit_time"}
        /\ keeperInfo = Null \/ keeperInfo.has_active_draw \in BOOLEAN
    BY <2>4 DEF PageInv, ShownInv, Deposits, KeeperViews
  <2>7. \A r \in reads : r.kind \in {"balance", "meta", "keeper"}
    BY DEF PageInv, ShownInv, ReadOK
  <2>8. /\ keeperBusy \in BOOLEAN /\ calls \in Seq(CallRecord)
        /\ outcome \in [Ids -> {"NOT_FOUND", "SUCCESS", "FAILED"}]
        /\ wallet \in Wallets \cup {NoWallet}
        /\ tab \in SubmitOps /\ amount \in Nat
        /\ txStatus \in {"idle", "signing", "confirmed", "error"}
        /\ error \in {"", "cap", "cooldown", "failed", "onchain", "connect"}
    BY DEF PageInv, NetworkInv, FormInv, PanelInv
  <2> QED
    BY <2>1, <2>2, <2>3, <2>5, <2>6, <2>7, <2>8 DEF PageTypeOK, CallRecord
<1> QED
  BY <1>1, PageInvariance, PTL
=============================================================================
