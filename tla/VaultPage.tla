----------------------------- MODULE VaultPage ------------------------------
(***************************************************************************)
(* The vault page of the frontend (frontend/app/vault/VaultApp.tsx over    *)
(* frontend/lib/stellar.ts) in front of the contracts of NectarVault.  A   *)
(* step is one turn of the browser's event loop: a click, the answer of a  *)
(* wallet or of a server.  Between an await and its answer anything else   *)
(* may happen, and handlers go on with the values they were started with.  *)
(***************************************************************************)
EXTENDS NectarVault, Display

CONSTANTS
  Wallets,   \* the addresses the visitor has a wallet for
  NoWallet,  \* wallet === null
  Null,      \* a query that returned null
  Typed,     \* the amounts the visitor types, or finds in the wallet
  Deposited, \* what the visitor has deposited before
  Cent,      \* the smallest amount that is shown
  Worlds     \* the worlds to look at: what may go wrong in them, who else
             \* calls the contracts, how far the browser's clock may be off,
             \* the vault's configuration when the page is opened, whether the
             \* visitor has deposited and registered before, and their bounds:
             \* the wallets that the visitor uses, the transactions started,
             \* the connections made by the button, the last timestamp

\* What may go wrong: requests to the network fail, transactions that were sent
\* are never included, connecting throws.
Faults == {"rpc", "loss", "wallet"}

\* Who calls the contracts without the page: keepers draw and return, others
\* deposit and withdraw, the admin configures the vault.
Others == {"keepers", "depositors", "admin"}

ASSUME PageAssumption ==
  /\ Wallets \subseteq Users \cap Keepers
  /\ NoWallet \notin Wallets
  /\ Typed \subseteq Nat \ {0}
  /\ Deposited \in Nat \ {0} /\ Cent \in Nat \ {0}
  /\ Worlds \subseteq [faults : SUBSET Faults, wallets : SUBSET Wallets,
                       calls : Nat, picks : Nat, time : Nat,
                       others : SUBSET Others, skew : Nat, past : BOOLEAN,
                       config : VaultConfigs]

\* A visitor that has been here before had what was deposited and staked.
ASSUME PastAssumption ==
  /\ \A c \in RegistryConfigs, w \in Wallets :
       c.min_stake >= 0 /\ InitialBalance[w] >= Deposited + c.min_stake
  /\ MaxTime >= 2

VARIABLES
  world,
  wallet, tab, amount, txStatus, txHash, error,   \* useState; no hash is 0
  vaultShares, vaultUsdcValue, depositor,         \* useState
  vaultCfg, vaultState,                           \* useState
  keeperInfo, keeperBusy,                         \* useState
  clock,       \* useState: now, the browser's, in the ledger's units
  picks,       \* the connections made by the button
  reads,       \* the queries in flight
  calls,       \* the transactions the visitor has started, in order; the
               \* number of a call is its hash
  account,     \* per wallet: the sequence number of its account
  pending,     \* the calls sent and not yet included
  outcome      \* per call: what getTransaction answers

formVars == <<tab, amount, txStatus, txHash, error>>
positionVars == <<vaultShares, vaultUsdcValue, depositor, keeperInfo>>
metaVars == <<vaultCfg, vaultState>>
networkVars == <<account, pending, outcome>>

(* History variables.                                                      *)
VARIABLES
  owner,      \* the wallet whose vaultShares and whose depositor are shown
  abandoned   \* the form's transactions in progress when it was reset

pageVars == <<world, wallet, formVars, positionVars, metaVars, keeperBusy,
              clock, picks, reads, calls, networkVars, vars, owner,
              abandoned>>

Ids == UNION {1 .. v.calls : v \in Worlds}
SubmitOps == {"deposit", "withdraw"}
KeeperOps == {"register", "deregister"}

\* The form's transactions that are not over, as far as the form is concerned.
Submitting == {c \in DOMAIN calls : /\ calls[c].op \in SubmitOps
                                    /\ calls[c].stage \notin {"refresh", "over"}}

-----------------------------------------------------------------------------
(* What the page derives from its state, and shows.                        *)

Connected == wallet # NoWallet

\* liveTvl, livePrice
Overview ==
  IF vaultState = Null THEN [tvl |-> 0, price |-> SharePrice(0, 0)]
  ELSE [tvl |-> vaultState.total_usdc,
        price |-> SharePrice(vaultState.total_usdc, vaultState.total_shares)]

Cap == IF vaultCfg = Null THEN 0 ELSE vaultCfg.deposit_cap

\* Mistake: the seconds since the deposit are not subtracted.
WholeCooldown ==
  IF vaultCfg # Null /\ depositor # Null THEN vaultCfg.withdraw_cooldown ELSE 0

\* Mistake: the difference is not kept from falling below zero.
SignedCooldown ==
  IF vaultCfg # Null /\ depositor # Null
  THEN depositor.last_deposit_time + vaultCfg.withdraw_cooldown - clock ELSE 0

\* cooldownRemaining
CooldownRemaining ==
  IF /\ vaultCfg # Null /\ depositor # Null
     /\ vaultCfg.withdraw_cooldown > 0 /\ depositor.last_deposit_time > 0
  THEN SaturatingSub(depositor.last_deposit_time + vaultCfg.withdraw_cooldown,
                     clock)
  ELSE 0

\* The card of the position.
Position ==
  [shares |-> InCents(vaultShares, Cent), value |-> InCents(vaultUsdcValue, Cent),
   withdrawal |-> IF CooldownRemaining = 0 THEN <<>>
                  ELSE FormatDuration(CooldownRemaining)]

\* The card of the form, below its tabs.
FormView ==
  IF ~Connected THEN "connect"
  ELSE IF txStatus \in {"confirmed", "error"} THEN txStatus
  ELSE "input"

\* Mistake: the button only looks at the amount.
SubmitWithAmount == FormView = "input" /\ amount > 0

SubmitEnabled == FormView = "input" /\ amount > 0 /\ txStatus = "idle"

\* Mistake: the buttons of the panel stay enabled.
PanelAlways == Connected

\* The panel of the keeper's operator: its buttons.
PanelEnabled == Connected /\ ~keeperBusy

-----------------------------------------------------------------------------
(* Queries.  Each is a call that is only simulated, and null stands for    *)
(* every failure, a record that does not exist among them.  The queries of *)
(* one refresh are sent together, and answered together.                   *)

\* cause: the call that waits for the answer, if it is positive.
Read(kind, who, cause) ==
  [kind |-> kind, who |-> who, cause |-> cause, answer |-> Null]

ReadsOf(c) == {r \in reads : r.cause = c}

\* queryVaultBalance
BalanceOf(w) ==
  [shares |-> SharesOf[w],
   value |-> IF SharesOf[w] = 0 THEN 0
             ELSE UsdcFor(SharesOf[w], total_usdc, total_shares)]

\* queryDepositor
DepositorRecord(w) == IF w \in DOMAIN depositors THEN depositors[w] ELSE Null

\* queryKeeper
KeeperRecord(w) ==
  IF w \in DOMAIN info
  THEN [stake |-> info[w].stake, has_active_draw |-> info[w].has_active_draw]
  ELSE Null

\* queryVaultState
StateRecord == [total_usdc |-> total_usdc, total_shares |-> total_shares]

\* simulateRead: the answer, or null if a request failed.
AnswerOr(x) == {x} \cup (IF "rpc" \in world.faults THEN {Null} ELSE {})

Answers(r) ==
  CASE r.kind = "balance" ->
         [balance : AnswerOr(BalanceOf(r.who)),
          depositor : AnswerOr(DepositorRecord(r.who)),
          keeper : AnswerOr(KeeperRecord(r.who))]
    [] r.kind = "meta" ->
         [config : AnswerOr(vconfig), state : AnswerOr(StateRecord)]
    [] r.kind = "keeper" -> [keeper : AnswerOr(KeeperRecord(r.who))]

Answer(r) ==
  /\ r.answer = Null
  /\ \E a \in Answers(r) : reads' = (reads \ {r}) \cup {[r EXCEPT !.answer = a]}
  /\ UNCHANGED <<world, wallet, formVars, positionVars, metaVars, keeperBusy,
                 clock, picks, calls, networkVars, vars, owner, abandoned>>

Over(c) == calls' = [calls EXCEPT ![c].stage = "over"]

\* The end of refreshVaultBalance.
BalanceArrives(r) ==
  /\ r.kind = "balance"
  /\ IF r.answer.balance # Null
     THEN /\ vaultShares' = r.answer.balance.shares
          /\ vaultUsdcValue' = r.answer.balance.value
          /\ owner' = [shares |-> r.who, depositor |-> r.who]
     ELSE /\ owner' = [owner EXCEPT !.depositor = r.who]
          /\ UNCHANGED <<vaultShares, vaultUsdcValue>>
  /\ depositor' = r.answer.depositor
  /\ keeperInfo' = r.answer.keeper
  /\ UNCHANGED <<metaVars, keeperBusy, calls>>

\* The end of refreshVaultMeta.
MetaArrives(r) ==
  /\ r.kind = "meta"
  /\ vaultCfg' = IF r.answer.config # Null THEN r.answer.config
                 ELSE vaultCfg
  /\ vaultState' = IF r.answer.state # Null THEN r.answer.state
                   ELSE vaultState
  /\ UNCHANGED <<positionVars, keeperBusy, calls, owner>>

\* The end of handleRegisterKeeper.
KeeperArrives(r) ==
  /\ r.kind = "keeper"
  /\ keeperInfo' = r.answer.keeper
  /\ keeperBusy' = FALSE
  /\ Over(r.cause)
  /\ UNCHANGED <<vaultShares, vaultUsdcValue, depositor, metaVars, owner>>

Arrive(r) ==
  /\ r.answer # Null
  /\ reads' = reads \ {r}
  /\ BalanceArrives(r) \/ MetaArrives(r) \/ KeeperArrives(r)
  /\ UNCHANGED <<world, wallet, formVars, clock, picks, networkVars, vars,
                 abandoned>>

-----------------------------------------------------------------------------
(* Transactions: depositToVault, withdrawFromVault and buildAndSubmit.     *)

Start(op, a) ==
  /\ Len(calls) < world.calls
  /\ calls' = Append(calls, [op |-> op, who |-> wallet, amount |-> a,
                             stage |-> "prepare", seq |-> 0])

At(c, stage) == c \in DOMAIN calls /\ calls[c].stage = stage

To(c, stage) == calls' = [calls EXCEPT ![c].stage = stage]

\* The contract would accept the call now.
Accepted(c) ==
  LET w == calls[c].who
      a == calls[c].amount
  IN  CASE calls[c].op = "deposit" -> DepositAllowed(w, a)
        [] calls[c].op = "withdraw" -> WithdrawAllowed(w, a)
        [] calls[c].op = "register" -> RegisterAllowed(w)
        [] calls[c].op = "deregister" -> DeregisterAllowed(w)

Execute(c) ==
  LET w == calls[c].who
      a == calls[c].amount
  IN  CASE calls[c].op = "deposit" -> Deposit(w, a)
        [] calls[c].op = "withdraw" -> Withdraw(w, a)
        [] calls[c].op = "register" ->
             Register(w) /\ UNCHANGED <<vaultVars, history>>
        [] calls[c].op = "deregister" ->
             Deregister(w) /\ UNCHANGED <<vaultVars, history>>

\* The catch clauses of the handlers.
Throw(c) ==
  /\ Over(c)
  /\ IF calls[c].op \in SubmitOps
     THEN /\ txStatus' = "error" /\ error' = "failed"
          /\ UNCHANGED <<tab, amount, txHash, keeperBusy>>
     ELSE keeperBusy' = FALSE /\ UNCHANGED formVars

OnlyTheCall ==
  UNCHANGED <<world, wallet, positionVars, metaVars, clock, picks, reads,
              vars, owner, abandoned>>

\* getAccount, then simulateTransaction.
Prepare(c) ==
  /\ At(c, "prepare")
  /\ IF Accepted(c)
     THEN /\ calls' = [calls EXCEPT ![c].stage = "sign",
                                    ![c].seq = account[calls[c].who]]
          /\ UNCHANGED <<formVars, keeperBusy>>
     ELSE Throw(c)
  /\ UNCHANGED networkVars
  /\ OnlyTheCall

\* sendTransaction.  An account has one transaction pending at most: another
\* one is answered TRY_AGAIN_LATER, which the page takes for PENDING.
Sent(c) == IF \E d \in pending : calls[d].who = calls[c].who THEN pending
           ELSE pending \cup {c}

\* signTransaction, which the visitor may decline, then sendTransaction, which
\* answers ERROR when the sequence number has been used.
Sign(c) ==
  /\ At(c, "sign")
  /\ \/ /\ calls[c].seq = account[calls[c].who]
        /\ To(c, "await") /\ UNCHANGED <<formVars, keeperBusy>>
        /\ pending' = Sent(c)
     \/ Throw(c) /\ UNCHANGED pending
  /\ UNCHANGED <<account, outcome>>
  /\ OnlyTheCall

\* A request to the network fails; the transaction may have been sent.
Fault(c) ==
  /\ "rpc" \in world.faults
  /\ \E s \in {"prepare", "sign", "await"} : At(c, s)
  /\ Throw(c)
  /\ \/ UNCHANGED pending
     \/ /\ At(c, "sign") /\ calls[c].seq = account[calls[c].who]
        /\ pending' = Sent(c)
  /\ UNCHANGED <<account, outcome>>
  /\ OnlyTheCall

\* The network includes a transaction, or lets its 60 seconds pass.
Include(c) ==
  /\ c \in pending
  /\ pending' = pending \ {c}
  /\ account' = [account EXCEPT ![calls[c].who] = @ + 1]
  /\ IF Accepted(c)
     THEN Execute(c) /\ outcome' = [outcome EXCEPT ![c] = "SUCCESS"]
     ELSE UNCHANGED vars /\ outcome' = [outcome EXCEPT ![c] = "FAILED"]
  /\ UNCHANGED <<world, wallet, formVars, positionVars, metaVars, keeperBusy,
                 clock, picks, reads, calls, owner, abandoned>>

Drop(c) ==
  /\ "loss" \in world.faults /\ c \in pending
  /\ pending' = pending \ {c}
  /\ UNCHANGED <<account, outcome, formVars, keeperBusy, calls>>
  /\ OnlyTheCall

\* Mistake: a transaction that failed counts as not found yet.
FoundSuccess(c) == outcome[c] = "SUCCESS"

\* getTransaction no longer answers NOT_FOUND.
Found(c) == outcome[c] # "NOT_FOUND"

\* Mistake: every transaction that was found was a success.
AnySuccess(c) == TRUE

\* result.success
Succeeded(c) == outcome[c] = "SUCCESS"

\* handleSubmit after its call.
SubmitFound(c) ==
  /\ calls[c].op \in SubmitOps
  /\ txHash' = c
  /\ IF Succeeded(c)
     THEN /\ txStatus' = "confirmed" /\ UNCHANGED error
          /\ To(c, "refresh")
          /\ reads' = reads \cup {Read("balance", calls[c].who, c),
                                  Read("meta", NoWallet, c)}
     ELSE /\ txStatus' = "error" /\ error' = "onchain"
          /\ Over(c)
          /\ UNCHANGED reads
  /\ UNCHANGED <<tab, amount, keeperInfo, keeperBusy>>

\* The handlers of the panel do not look at success.
RegisterFound(c) ==
  /\ calls[c].op = "register"
  /\ To(c, "query")
  /\ reads' = reads \cup {Read("keeper", calls[c].who, c)}
  /\ UNCHANGED <<formVars, keeperInfo, keeperBusy>>

DeregisterFound(c) ==
  /\ calls[c].op = "deregister"
  /\ Over(c)
  /\ keeperInfo' = Null
  /\ keeperBusy' = FALSE
  /\ UNCHANGED <<formVars, reads>>

Await(c) ==
  /\ At(c, "await")
  /\ Found(c)
  /\ SubmitFound(c) \/ RegisterFound(c) \/ DeregisterFound(c)
  /\ UNCHANGED <<world, wallet, vaultShares, vaultUsdcValue, depositor,
                 metaVars, clock, picks, networkVars, vars, owner,
                 abandoned>>

-----------------------------------------------------------------------------
(* Wallets: connectWallet and disconnectWallet.  While the picker is open   *)
(* the page does nothing that its answer depends on, so that opening it    *)
(* and answering are one step.                                             *)

\* setWallet, and the effect that a new address has.
SetWallet(w) ==
  /\ wallet' = w
  /\ reads' = IF w = wallet THEN reads
              ELSE reads \cup {Read("balance", w, -picks)}

\* The reconnection that ends handleSubmit: a wallet is picked, the picker is
\* closed, or connecting throws.
Reconnect(c) ==
  /\ At(c, "refresh") /\ ReadsOf(c) = {}
  /\ \/ /\ \E w \in world.wallets : SetWallet(w)
        /\ Over(c) /\ UNCHANGED <<formVars, keeperBusy>>
     \/ /\ Over(c) /\ UNCHANGED <<wallet, reads, formVars, keeperBusy>>
     \/ /\ "wallet" \in world.faults
        /\ Throw(c) /\ UNCHANGED <<wallet, reads>>
  /\ UNCHANGED <<world, positionVars, metaVars, clock, picks, networkVars,
                 vars, owner, abandoned>>

\* handleConnect.
Connect ==
  /\ FormView = "connect" /\ picks < world.picks
  /\ picks' = picks + 1
  /\ \/ (\E w \in world.wallets : SetWallet(w)) /\ error' = ""
     \/ error' = "" /\ UNCHANGED <<wallet, reads>>
     \/ "wallet" \in world.faults /\ error' = "connect" /\ UNCHANGED <<wallet, reads>>
  /\ UNCHANGED <<world, tab, amount, txStatus, txHash, positionVars, metaVars,
                 keeperBusy, clock, calls, networkVars, vars, owner, abandoned>>

-----------------------------------------------------------------------------
(* The form and the panel.                                                 *)

ResetTx ==
  /\ txStatus' = "idle" /\ txHash' = 0 /\ amount' = 0 /\ error' = ""
  /\ abandoned' = Submitting

\* handleDisconnect.
Disconnect ==
  /\ Connected
  /\ wallet' = NoWallet
  /\ vaultShares' = 0 /\ vaultUsdcValue' = 0
  /\ depositor' = Null /\ keeperInfo' = Null
  /\ owner' = [shares |-> NoWallet, depositor |-> NoWallet]
  /\ ResetTx
  /\ UNCHANGED <<world, tab, metaVars, keeperBusy, clock, picks, reads, calls,
                 networkVars, vars>>

Page ==
  UNCHANGED <<world, wallet, positionVars, metaVars, clock, picks, reads,
              networkVars, vars, owner>>

\* One of the tabs, which also resets the form.
TabClick ==
  /\ tab' \in SubmitOps
  /\ ResetTx
  /\ UNCHANGED <<keeperBusy, calls>>
  /\ Page

\* New deposit, Try Again.
ResetClick ==
  /\ FormView \in {"confirmed", "error"}
  /\ ResetTx
  /\ UNCHANGED <<tab, keeperBusy, calls>>
  /\ Page

\* The visitor types an amount, or takes the maximum.
Enter ==
  /\ FormView = "input"
  /\ \/ amount' \in Typed
     \/ tab = "withdraw" /\ amount' = InCents(vaultShares, Cent) * Cent
  /\ UNCHANGED <<tab, txStatus, txHash, error, keeperBusy, calls, abandoned>>
  /\ Page

\* The checks before the transaction.
Preflight ==
  IF tab = "deposit" /\ Cap > 0 /\ Overview.tvl + amount > Cap THEN "cap"
  ELSE IF tab = "withdraw" /\ CooldownRemaining > 0 THEN "cooldown"
  ELSE ""

SubmitClick ==
  /\ SubmitEnabled
  /\ error' = Preflight
  /\ IF Preflight = "" THEN txStatus' = "signing" /\ Start(tab, amount)
     ELSE UNCHANGED <<txStatus, calls>>
  /\ UNCHANGED <<tab, amount, txHash, keeperBusy, abandoned>>
  /\ Page

RegisterClick ==
  /\ PanelEnabled /\ keeperInfo = Null
  /\ keeperBusy' = TRUE
  /\ Start("register", 0)
  /\ UNCHANGED <<formVars, abandoned>>
  /\ Page

DeregisterClick ==
  /\ PanelEnabled /\ keeperInfo # Null /\ ~keeperInfo.has_active_draw
  /\ keeperBusy' = TRUE
  /\ Start("deregister", 0)
  /\ UNCHANGED <<formVars, abandoned>>
  /\ Page

\* setNow, once a second.  The clock is the browser's, which nobody sets by the
\* ledger's.
TickClock ==
  /\ clock' \in (now - world.skew) .. (now + world.skew)
  /\ clock' # clock
  /\ UNCHANGED <<world, wallet, formVars, positionVars, metaVars, keeperBusy,
                 picks, reads, calls, networkVars, vars, owner, abandoned>>

-----------------------------------------------------------------------------
\* The contracts have been initialized, and the visitor has either not called
\* them yet, or has deposited with each wallet and registered it as a keeper.
LedgerInit ==
  LET known == IF world.past THEN world.wallets ELSE {}
      n == Cardinality(known)
  IN  /\ now = 2
      /\ rconfig \in RegistryConfigs /\ paused = FALSE
      /\ vconfig = world.config
      /\ usdc = [a \in Accounts |->
           CASE a = VaultAddr -> n * Deposited
             [] a = RegistryAddr -> n * rconfig.min_stake
             [] a \in known -> InitialBalance[a] - Deposited - rconfig.min_stake
             [] OTHER -> InitialBalance[a]]
      /\ info = [w \in known |-> NewKeeper(rconfig.min_stake)]
      /\ keeperList \in [1 .. n -> known]
      /\ {keeperList[i] : i \in 1 .. n} = known
      /\ keeperCount = n
      /\ total_usdc = n * Deposited /\ total_shares = n * Deposited
      /\ total_profit = 0 /\ active_liq = 0
      /\ depositors =
           [w \in known |-> [shares |-> Deposited, last_deposit_time |-> 1]]
      /\ keeperDraw = [k \in Keepers |-> 0]
      /\ windfall = 0 /\ writtenOff = 0 /\ slashed = {}

\* The page has been opened, and its effects have run once.
PageInit ==
  /\ world \in Worlds
  /\ LedgerInit
  /\ wallet = NoWallet /\ tab = "deposit" /\ amount = 0
  /\ txStatus = "idle" /\ txHash = 0 /\ error = ""
  /\ vaultShares = 0 /\ vaultUsdcValue = 0
  /\ depositor = Null /\ keeperInfo = Null
  /\ vaultCfg = Null /\ vaultState = Null
  /\ keeperBusy = FALSE /\ clock = now
  /\ picks = 0
  /\ reads = {Read("meta", NoWallet, 0)}
  /\ calls = <<>>
  /\ account = [w \in Wallets |-> 0]
  /\ pending = {} /\ outcome = [c \in Ids |-> "NOT_FOUND"]
  /\ owner = [shares |-> NoWallet, depositor |-> NoWallet]
  /\ abandoned = {}

\* The ledger moves on without the page.
Elsewhere ==
  /\ \/ now < world.time /\ Tick
     \/ /\ "keepers" \in world.others
        /\ \E k \in Keepers, a \in Amounts : Draw(k, a) \/ ReturnProceeds(k, a, 0)
     \/ /\ "depositors" \in world.others
        /\ \E u \in Users \ world.wallets, a \in Amounts :
             Deposit(u, a) \/ Withdraw(u, a)
     \/ /\ "admin" \in world.others
        /\ \E c \in VaultConfigs : VaultSetConfig(c)
  /\ UNCHANGED <<world, wallet, formVars, positionVars, metaVars, keeperBusy,
                 clock, picks, reads, calls, networkVars, owner, abandoned>>

ReadStep == \E r \in reads : Answer(r) \/ Arrive(r)

Click == \/ Connect \/ Disconnect \/ TabClick \/ ResetClick \/ Enter
         \/ SubmitClick \/ RegisterClick \/ DeregisterClick

PageNext ==
  \/ Click
  \/ ReadStep \/ TickClock \/ Elsewhere
  \/ \E c \in Ids : \/ Prepare(c) \/ Sign(c) \/ Include(c) \/ Await(c)
                    \/ Reconnect(c) \/ Fault(c) \/ Drop(c)

PageSpec == PageInit /\ [][PageNext]_pageVars

-----------------------------------------------------------------------------
Stages == {"prepare", "sign", "await", "refresh", "query", "over"}

PageTypeOK ==
  /\ world \in Worlds
  /\ wallet \in Wallets \cup {NoWallet}
  /\ tab \in SubmitOps /\ amount \in Nat
  /\ txStatus \in {"idle", "signing", "confirmed", "error"}
  /\ txHash \in Ids \cup {0}
  /\ error \in {"", "cap", "cooldown", "failed", "onchain", "connect"}
  /\ Position.shares \in Nat /\ Position.value \in Nat
  /\ depositor = Null \/ DOMAIN depositor = {"shares", "last_deposit_time"}
  /\ keeperInfo = Null \/ keeperInfo.has_active_draw \in BOOLEAN
  /\ Overview.tvl \in Nat /\ CooldownRemaining \in Nat
  /\ keeperBusy \in BOOLEAN
  /\ calls \in Seq([op : SubmitOps \cup KeeperOps, who : Wallets, amount : Nat,
                    stage : Stages, seq : Nat])
  /\ \A r \in reads : r.kind \in {"balance", "meta", "keeper"}
  /\ pending \subseteq Ids
  /\ outcome \in [Ids -> {"NOT_FOUND", "SUCCESS", "FAILED"}]

\* handleSubmit: whatever other calls are in progress, what the card says of
\* the transaction whose hash it shows is what the ledger says: a confirmed one
\* is included and has moved the money, one that failed on-chain has not.
CardTellsTheTruth ==
  FormView # "connect" =>
    /\ txStatus = "confirmed" => /\ outcome[txHash] = "SUCCESS"
                                 /\ calls[txHash].op \in SubmitOps
    /\ txStatus = "error" /\ error = "onchain" => outcome[txHash] = "FAILED"

\* handleSubmit, resetTx: the form starts no second transaction while one that
\* it started is in progress, unless the visitor has reset it in between.
NoDoubleSubmit == Cardinality(Submitting \ abandoned) <= 1

\* handleRegisterKeeper, handleDeregisterKeeper: the panel is busy exactly
\* while one of its transactions is in progress, across disconnecting,
\* switching wallets and failures.
BusyMeansBusy ==
  LET open == {c \in DOMAIN calls : calls[c].op \in KeeperOps /\ calls[c].stage # "over"}
  IN  keeperBusy = (open # {}) /\ Cardinality(open) <= 1

\* handleSubmit's pre-flight checks, the cooldown's countdown: with the vault's
\* configuration as it is, and a clock that is not behind the ledger's, the page
\* refuses no withdrawal that the contract would accept, however old the record
\* of the deposit is that it counts from; nor a deposit, if the vault counts no
\* less USDC than it did when the page read it.
NoVainRefusal ==
  (SubmitEnabled /\ vaultCfg = vconfig) =>
    /\ (Preflight = "cooldown" /\ clock >= now /\ owner.depositor = wallet) =>
         ~WithdrawAllowed(wallet, amount)
    /\ (Preflight = "cap" /\ Overview.tvl <= total_usdc) =>
         ~DepositAllowed(wallet, amount)

\* depositToVault, withdrawFromVault, buildAndSubmit: while nothing goes wrong,
\* a handler polls for a transaction that the network has taken, unless the
\* visitor started two at once and the other one used the sequence number.
NoPollInVain ==
  \A c \in DOMAIN calls :
    (world.faults = {} /\ At(c, "await") /\ ~Found(c) /\ c \notin pending) =>
      \E d \in DOMAIN calls \ {c} :
        /\ calls[d].who = calls[c].who /\ calls[d].seq = calls[c].seq
        /\ d \in pending \/ Found(d)

-----------------------------------------------------------------------------
(* What the repository's texts say of the page, and the code does not do.  *)

\* The comment on top of VaultApp.tsx: the share count must come from the
\* chain, and no wrong numbers flash between disconnecting and the first read.
\* A read of the wallet that has left may arrive late, and its shares are then
\* shown as those of the wallet that connects next.
SharesAreTheWallets ==
  (Connected /\ vaultShares > 0) => owner.shares = wallet
=============================================================================
