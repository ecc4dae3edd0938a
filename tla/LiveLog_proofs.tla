--------------------------- MODULE LiveLog_proofs ---------------------------
(***************************************************************************)
(* The page never has two connections, nor is it ever left with neither a  *)
(* connection nor a timer, whatever the keeper and the network do; it      *)
(* waits longer after every failure; and its log is in the order in which  *)
(* the keeper's events happened, whatever connections they came over.      *)
(***************************************************************************)
EXTENDS LiveLog, EventStream_proofs, FunctionTheorems

\* What useSSEEvents keeps, by itself; the keeper's state has no part in it.
HookInv ==
  /\ es \in Requests \cup {NoRequest}
  /\ backoff \in 1 .. MaxBackoff /\ timer \in Nat
  /\ stopped \in BOOLEAN
  /\ issued = {} => es = NoRequest /\ timer = 0 /\ ~stopped
  /\ OneConnection

\* The invariant is about the hook's variables only.
LEMMA HookStands ==
  ASSUME HookInv, UNCHANGED <<issued, es, backoff, timer, stopped>>
  PROVE  HookInv'
BY DEF HookInv, OneConnection

\* A new connection is one.
LEMMA ConnectConnects ==
  ASSUME Connect
  PROVE  es' \in Requests /\ issued' # {}
<1> DEFINE r == CHOOSE q \in Requests : Unused(q)
<1>1. r \in Requests
  BY DEF Connect
<1>2. es' = r /\ issued' = issued \cup {r}
  BY DEF Connect, ConnectAs
<1> QED
  BY <1>1, <1>2

\* Every action of the hook keeps the invariant; no other touches it.
LEMMA HookPreserves == HookInv /\ [LiveNext]_liveVars => HookInv'
<1> SUFFICES ASSUME HookInv, [LiveNext]_liveVars PROVE HookInv'
  OBVIOUS
<1>1. /\ NoRequest \notin Requests /\ MaxBackoff \in Nat \ {0}
      /\ es \in Requests \cup {NoRequest} /\ backoff \in 1 .. MaxBackoff
      /\ timer \in Nat /\ stopped \in BOOLEAN
  BY LiveAssumption DEF HookInv
<1>2. CASE Mount
  <2>1. issued = {} /\ ~stopped /\ UNCHANGED <<backoff, timer, stopped>>
    BY <1>2 DEF Mount, heroVars
  <2>2. es' \in Requests /\ issued' # {}
    BY <1>2, ConnectConnects DEF Mount
  <2> QED
    BY <1>1, <2>1, <2>2 DEF HookInv, OneConnection
<1>3. CASE Open
  <2>1. UNCHANGED <<issued, es, timer, stopped>> /\ backoff' = 1
    BY <1>3 DEF Open, heroVars, BackoffReset
  <2> QED
    BY <1>1, <2>1 DEF HookInv, OneConnection
<1>4. CASE Error
  <2>1. /\ es # NoRequest /\ es' = NoRequest /\ timer' = backoff
        /\ UNCHANGED <<issued, backoff, stopped>>
    BY <1>4 DEF Error, Broken, RetryAfter
  <2>2. issued # {} /\ ~stopped
    BY <1>1, <2>1 DEF HookInv, OneConnection
  <2> QED
    BY <1>1, <2>1, <2>2 DEF HookInv, OneConnection
<1>5. CASE TimerFires
  <2>1. /\ timer # 0 /\ timer' = 0 /\ UNCHANGED stopped
        /\ backoff' = Doubled
    BY <1>5 DEF TimerFires, heroVars
  <2>2. ~stopped
    BY <1>1, <2>1 DEF HookInv, OneConnection
  <2>3. es' \in Requests /\ issued' # {}
    BY <1>5, <2>2, ConnectConnects DEF TimerFires, Stopped
  <2>4. backoff' \in 1 .. MaxBackoff
    BY <1>1, <2>1 DEF Doubled
  <2> QED
    BY <1>1, <2>1, <2>2, <2>3, <2>4 DEF HookInv, OneConnection
<1>6. CASE Unmount
  <2>1. /\ issued # {} /\ stopped' = TRUE /\ timer' = 0 /\ es' = NoRequest
        /\ UNCHANGED <<issued, backoff>>
    BY <1>6 DEF Unmount, Stopped
  <2> QED
    BY <1>1, <2>1 DEF HookInv, OneConnection
<1>7. CASE Message \/ Render \/ Cycle \/ Keeper \/ Break \/ Unreachable
  BY <1>7, HookStands DEF Message, Render, Cycle, Keeper, Break, Unreachable,
                          clientVars, heroVars
<1>8. CASE \E r \in issued : Serve(r) \/ WrittenToClient(r) \/ Closed(r)
  BY <1>8, HookStands DEF Serve, WrittenToClient, Closed, clientVars, heroVars
<1>9. CASE UNCHANGED liveVars
  BY <1>9, HookStands DEF liveVars, clientVars, heroVars
<1> QED
  BY <1>2, <1>3, <1>4, <1>5, <1>6, <1>7, <1>8, <1>9 DEF LiveNext

\* At first there is nothing to connect for.
LEMMA HookInit == LiveInit => HookInv
<1> SUFFICES ASSUME LiveInit PROVE HookInv
  OBVIOUS
<1>1. /\ issued = {} /\ es = NoRequest /\ timer = 0 /\ backoff = 1
      /\ stopped = FALSE
  BY DEF LiveInit
<1>2. 1 \in 1 .. MaxBackoff
  BY LiveAssumption
<1> QED
  BY <1>1, <1>2 DEF HookInv, OneConnection

\* useSSEEvents: while the page is shown it has either one connection or one
\* timer, and neither once it has been left, for all bounds and any backoff.
THEOREM NeverTwoNeverNone == LiveSpec => []OneConnection
<1>1. HookInv => OneConnection
  BY DEF HookInv
<1> QED
  BY <1>1, HookInit, HookPreserves, PTL DEF LiveSpec

-----------------------------------------------------------------------------
(* The keeper keeps what it promises its clients, although requests end    *)
(* and are used again.                                                     *)

\* The keeper knows nothing of a request that was not sent.
KeeperInv ==
  /\ SliceInv /\ StreamInv
  /\ issued \subseteq Requests /\ es \in issued \cup {NoRequest}
  /\ \A r \in Requests \ issued : handler[r] = "new"

\* The slices have no part in what the clients do.
LEMMA SlicesUntouched ==
  ASSUME SliceInv, UNCHANGED <<memory, ring, snap, published, taken>>
  PROVE  SliceInv'
BY DEF SliceInv, SnapshotIntact

\* A connection that nobody knows of may begin again.
LEMMA UnusedIs ==
  ASSUME KeeperInv, NEW r \in Requests, Unused(r)
  PROVE  handler[r] \in {"new", "over"} /\ r \notin Remaining
<1>1. CASE r \notin issued
  BY <1>1 DEF KeeperInv, StreamInv, RequestOK, Fresh
<1>2. CASE handler[r] = "over" /\ \A i \in next .. Len(targets) : targets[i] # r
  BY <1>2 DEF Remaining
<1> QED
  BY <1>1, <1>2 DEF Unused

\* new EventSource(url)
LEMMA ConnectKeepsStream ==
  ASSUME KeeperInv, NEW r \in Requests, Unused(r), ConnectAs(r)
  PROVE  SliceInv' /\ StreamInv'
<1>1. /\ handler \in [Requests -> Handlers] /\ gone \subseteq Requests
      /\ chan \in [Requests -> Seq(1 .. MaxEvents)]
      /\ \A q \in Requests : Len(chan[q]) <= Buffer
      /\ received \in [Requests -> Seq(1 .. MaxEvents)]
      /\ dropped \in [Requests -> SUBSET (1 .. MaxEvents)]
      /\ joined \in [Requests -> Nat]
  BY DEF KeeperInv, StreamInv, StreamTypes, StreamTypeOK
<1>2. /\ handler' = [handler EXCEPT ![r] = "new"]
      /\ chan' = [chan EXCEPT ![r] = <<>>]
      /\ received' = [received EXCEPT ![r] = <<>>]
      /\ dropped' = [dropped EXCEPT ![r] = {}]
      /\ joined' = [joined EXCEPT ![r] = 0]
      /\ gone' = gone \ {r}
      /\ UNCHANGED <<memory, ring, snap, broadcastVars, subs, sseActive, taken>>
  BY DEF ConnectAs, ringVars
<1>3. handler[r] \in {"new", "over"} /\ r \notin Remaining
  BY UnusedIs
<1>4. /\ handler' \in [Requests -> Handlers] /\ handler'[r] = "new"
      /\ \A q \in Requests \ {r} : handler'[q] = handler[q]
      /\ {q \in Requests : handler'[q] \in Live}
           = {q \in Requests : handler[q] \in Live} \ {r}
      /\ CountedHandlers' = CountedHandlers \ {r}
  BY <1>1, <1>2, HandlerMoves DEF Handlers, Live
<1>5. /\ {q \in Requests : handler'[q] \in Live}
           = {q \in Requests : handler[q] \in Live}
      /\ CountedHandlers' = CountedHandlers
  BY <1>3, <1>4 DEF CountedHandlers, Live
<1>6. /\ chan' \in [Requests -> Seq(1 .. MaxEvents)]
      /\ received' \in [Requests -> Seq(1 .. MaxEvents)]
      /\ dropped' \in [Requests -> SUBSET (1 .. MaxEvents)]
      /\ joined' \in [Requests -> Nat]
      /\ chan'[r] = <<>> /\ received'[r] = <<>> /\ dropped'[r] = {}
      /\ \A q \in Requests \ {r} : /\ chan'[q] = chan[q] /\ received'[q] = received[q]
                                   /\ dropped'[q] = dropped[q]
                                   /\ joined'[q] = joined[q]
  <2>1. <<>> \in Seq(1 .. MaxEvents)
    OBVIOUS
  <2> QED
    BY <1>1, <1>2, <2>1
<1>7. StreamTypes'
  <2>1. \A q \in Requests : Len(chan'[q]) <= Buffer
    <3>1. Len(<<>>) = 0 /\ Buffer \in Nat
      BY StreamAssumption
    <3> QED
      BY <1>1, <1>6, <3>1
  <2> QED
    BY <1>1, <1>2, <1>4, <1>6, <2>1
       DEF KeeperInv, StreamInv, StreamTypes, StreamTypeOK, broadcastVars
<1>8. NobodyLeftBehind'
  <2>1. /\ ToSet(subs)' = {q \in Requests : handler'[q] \in Live}
        /\ IsInjective(subs)'
        /\ sseActive' = Cardinality(CountedHandlers)'
    BY <1>2, <1>5, RosterIs DEF KeeperInv, StreamInv
  <2> QED
    BY <2>1 DEF NobodyLeftBehind, Live, CountedHandlers
<1>9. ASSUME NEW q \in Requests PROVE RequestOK(q)'
  <2>1. CASE q # r
    BY <1>2, <1>4, <1>6, <2>1, SameBroadcast, RequestStands
       DEF KeeperInv, StreamInv
  <2>2. CASE q = r
    BY <1>2, <1>3, <1>4, <1>6, <2>2, SameBroadcast DEF RequestOK, Live, Fresh
  <2> QED
    BY <2>1, <2>2
<1> QED
  BY <1>2, <1>5, <1>7, <1>8, <1>9, SlicesUntouched
     DEF KeeperInv, StreamInv, broadcastVars

\* What happens to the keeper is one of its own steps, a new request, or a
\* request that never arrived.
LEMMA StreamSteps ==
  ASSUME KeeperInv, [LiveNext]_liveVars
  PROVE  \/ /\ [StreamNext]_streamVars /\ UNCHANGED issued
            /\ \A q \in Requests \ issued : handler'[q] = handler[q]
         \/ \E r \in Requests : Unused(r) /\ ConnectAs(r)
         \/ Unreachable
<1>1. Connect => \E r \in Requests : Unused(r) /\ ConnectAs(r)
  BY DEF Connect
<1>2. CASE Mount \/ TimerFires
  <2>1. UNCHANGED streamVars => UNCHANGED handler
    BY DEF streamVars, sseVars
  <2> QED
    BY <1>1, <1>2, <2>1 DEF Mount, TimerFires
<1>3. CASE Open \/ Message \/ Error \/ Unmount \/ Render \/ Cycle
  BY <1>3 DEF Open, Message, Error, Unmount, Render, Cycle, clientVars,
              streamVars, sseVars
<1>4. CASE Keeper
  <2>1. UNCHANGED handler
    BY <1>4 DEF Keeper, AddEvent, Broadcast, CopySubs, SendNext, EndBroadcast,
                sseVars
  <2> QED
    BY <1>4, <2>1 DEF Keeper, StreamNext, clientVars
<1>5. CASE Break
  <2>1. es \in Requests
    BY <1>5 DEF Break, KeeperInv
  <2> QED
    BY <1>5, <2>1 DEF Break, StreamNext, HangUp
<1>6. CASE Unreachable
  BY <1>6
<1>7. ASSUME NEW r \in issued, Serve(r) \/ WrittenToClient(r) \/ Closed(r)
      PROVE  /\ StreamNext /\ UNCHANGED issued
             /\ \A q \in Requests \ issued : handler'[q] = handler[q]
  <2>1. r \in Requests
    BY DEF KeeperInv
  <2>2. StreamNext /\ UNCHANGED issued
    BY <1>7, <2>1 DEF Serve, WrittenToClient, Closed, StreamNext, clientVars
  <2>3. \/ UNCHANGED handler
        \/ \E h \in Handlers : handler' = [handler EXCEPT ![r] = h]
    BY <1>7 DEF Serve, WrittenToClient, Closed, Accept, Proceed, Count,
                Subscribe, WriteFails, Return, Leave, Receive, Written, Notice,
                HangUp, Handlers
  <2>4. handler \in [Requests -> Handlers]
    BY DEF KeeperInv, StreamInv, StreamTypes, StreamTypeOK
  <2> QED
    BY <2>2, <2>3, <2>4
<1>8. CASE UNCHANGED liveVars
  BY <1>8 DEF liveVars, clientVars, streamVars, sseVars
<1> QED
  BY <1>2, <1>3, <1>4, <1>5, <1>6, <1>7, <1>8 DEF LiveNext

\* The connection, if there is one, is a request that was sent.
LEMMA ConnectionIssued ==
  ASSUME KeeperInv, [LiveNext]_liveVars
  PROVE  issued' \subseteq Requests /\ es' \in issued' \cup {NoRequest}
<1>1. /\ issued \subseteq Requests /\ es \in issued \cup {NoRequest}
  BY DEF KeeperInv
<1>2. ASSUME Connect PROVE issued' \subseteq Requests /\ es' \in issued' \cup {NoRequest}
  <2>1. PICK r \in Requests : issued' = issued \cup {r} /\ es' = r
    BY <1>2 DEF Connect, ConnectAs
  <2> QED
    BY <1>1, <2>1
<1>3. CASE Mount \/ TimerFires
  BY <1>1, <1>2, <1>3 DEF Mount, TimerFires
<1>4. CASE \/ Open \/ Message \/ Error \/ Unmount \/ Render \/ Cycle \/ Keeper
           \/ Break \/ Unreachable
  BY <1>1, <1>4 DEF Open, Message, Error, Unmount, Render, Cycle, Keeper,
                    Break, Unreachable, clientVars
<1>5. CASE \E r \in issued : Serve(r) \/ WrittenToClient(r) \/ Closed(r)
  BY <1>1, <1>5 DEF Serve, WrittenToClient, Closed, clientVars
<1>6. CASE UNCHANGED liveVars
  BY <1>1, <1>6 DEF liveVars, clientVars
<1> QED
  BY <1>3, <1>4, <1>5, <1>6 DEF LiveNext

\* Every step of the whole keeps the keeper's invariant.
LEMMA KeeperStands == KeeperInv /\ [LiveNext]_liveVars => KeeperInv'
<1> SUFFICES ASSUME KeeperInv, [LiveNext]_liveVars PROVE KeeperInv'
  OBVIOUS
<1>1. issued' \subseteq Requests /\ es' \in issued' \cup {NoRequest}
  BY ConnectionIssued
<1>2. CASE /\ [StreamNext]_streamVars /\ UNCHANGED issued
           /\ \A q \in Requests \ issued : handler'[q] = handler[q]
  BY <1>1, <1>2, SlicesStand, StreamStands DEF KeeperInv
<1>3. ASSUME NEW r \in Requests, Unused(r), ConnectAs(r) PROVE KeeperInv'
  <2>1. handler' = [handler EXCEPT ![r] = "new"] /\ issued' = issued \cup {r}
    BY <1>3 DEF ConnectAs
  <2>2. handler \in [Requests -> Handlers]
    BY DEF KeeperInv, StreamInv, StreamTypes, StreamTypeOK
  <2> QED
    BY <1>1, <1>3, <2>1, <2>2, ConnectKeepsStream DEF KeeperInv
<1>4. CASE Unreachable
  <2>1. /\ es \in issued /\ es \in Requests /\ handler[es] = "new"
    BY <1>4 DEF Unreachable, KeeperInv
  <2>2. /\ handler' = [handler EXCEPT ![es] = "over"]
        /\ UNCHANGED <<memory, ring, snap, broadcastVars, subs, chan, sseActive,
                       gone, received, dropped, joined, taken, issued>>
    BY <1>4 DEF Unreachable, ringVars, streamHistory
  <2>3. StreamInv'
    <3>1. PICK r \in Requests : r = es
      BY <2>1
    <3>2. "over" \in Handlers
      BY DEF Handlers
    <3> QED
      BY <2>1, <2>2, <3>1, <3>2, QuietHandlerPreserves DEF KeeperInv
  <2>4. SliceInv'
    BY <2>2, SlicesUntouched DEF KeeperInv, broadcastVars
  <2>5. handler \in [Requests -> Handlers]
    BY DEF KeeperInv, StreamInv, StreamTypes, StreamTypeOK
  <2> QED
    BY <1>1, <2>1, <2>2, <2>3, <2>4, <2>5 DEF KeeperInv
<1> QED
  BY <1>2, <1>3, <1>4, StreamSteps

\* At first no request has been sent.
LEMMA KeeperInit == LiveInit => KeeperInv
<1> SUFFICES ASSUME LiveInit PROVE KeeperInv
  OBVIOUS
<1>1. StreamInit /\ issued = {} /\ es = NoRequest
  BY DEF LiveInit
<1>2. \A r \in Requests : handler[r] = "new"
  BY <1>1 DEF StreamInit
<1> QED
  BY <1>1, <1>2, SliceInit, StreamInitInv DEF KeeperInv

\* addEvent, handleSSE, useSSEEvents: a page that connects again and again is
\* sent, over every one of its connections, each event since that connection
\* subscribed, in order and once, unless its channel was full; and the list of
\* subscribers and the count of clients are those of the handlers that run.
THEOREM ReconnectsSkipNothing == LiveSpec => [](NothingSkipped /\ NobodyLeftBehind)
<1>1. KeeperInv => NothingSkipped /\ NobodyLeftBehind
  BY InvSkipsNothing DEF KeeperInv, StreamInv
<1> QED
  BY <1>1, KeeperInit, KeeperStands, PTL DEF LiveSpec

-----------------------------------------------------------------------------
(* The wait between two attempts.                                          *)

\* There are as many subsets of 1 .. n + 1 with n + 1 as without it.
LEMMA PowersOfTwo ==
  /\ 2 ^ 0 = 1
  /\ \A n \in Nat : 2 ^ n \in Nat \ {0} /\ 2 ^ (n + 1) = 2 * 2 ^ n
<1>1. 2 ^ 0 = 1
  OBVIOUS
<1>2. ASSUME NEW n \in Nat
      PROVE  /\ IsFiniteSet(SUBSET (1 .. n))
             /\ Cardinality(SUBSET (1 .. n)) = 2 ^ n
             /\ 2 ^ n \in Nat
  <2>1. IsFiniteSet(1 .. n) /\ Cardinality(1 .. n) = n
    BY FS_Interval
  <2>2. /\ IsFiniteSet(SUBSET (1 .. n))
        /\ Cardinality(SUBSET (1 .. n)) = 2 ^ Cardinality(1 .. n)
    BY <2>1, FS_SUBSET
  <2> QED
    BY <2>1, <2>2, FS_CardinalityType
<1>3. ASSUME NEW n \in Nat PROVE 2 ^ n # 0 /\ 2 ^ (n + 1) = 2 * 2 ^ n
  <2> DEFINE A == SUBSET (1 .. n)
             B == {X \cup {n + 1} : X \in A}
             f == [X \in A |-> X \cup {n + 1}]
  <2>1. n + 1 \in Nat /\ n + 1 \notin 1 .. n /\ 1 .. n + 1 = (1 .. n) \cup {n + 1}
    OBVIOUS
  <2>2. SUBSET (1 .. n + 1) = A \cup B
    <3>1. ASSUME NEW Y \in SUBSET (1 .. n + 1) PROVE Y \in A \cup B
      <4>1. CASE n + 1 \in Y
        <5>1. Y \ {n + 1} \in A /\ Y = (Y \ {n + 1}) \cup {n + 1}
          BY <2>1, <4>1
        <5> QED
          BY <5>1
      <4>2. CASE n + 1 \notin Y
        BY <2>1, <4>2
      <4> QED
        BY <4>1, <4>2
    <3>2. A \cup B \subseteq SUBSET (1 .. n + 1)
      BY <2>1
    <3> QED
      BY <3>1, <3>2
  <2>3. A \cap B = {}
    BY <2>1
  <2>4. f \in Bijection(A, B)
    <3>1. f \in [A -> B] /\ \A Y \in B : \E X \in A : f[X] = Y
      OBVIOUS
    <3>2. \A X, Y \in A : f[X] = f[Y] => X = Y
      <4>1. \A X \in A : f[X] \ {n + 1} = X
        BY <2>1
      <4> QED
        BY <4>1
    <3> QED
      BY <3>1, <3>2, Fun_IsBij
  <2>5. IsFiniteSet(A) /\ Cardinality(A) = 2 ^ n /\ 2 ^ n \in Nat
    BY <1>2
  <2> HIDE DEF A, B, f
  <2>6. IsFiniteSet(B) /\ Cardinality(B) = Cardinality(A)
    <3>1. ExistsBijection(A, B)
      BY <2>4, Fun_ExistsBij
    <3> QED
      BY <2>5, <3>1, FS_Bijection
  <2>7. Cardinality(A \cup B) = Cardinality(A) + Cardinality(B)
    <3>1. Cardinality(A \cap B) = 0
      BY <2>3, FS_EmptySet
    <3>2. Cardinality(A \cup B) = Cardinality(A) + Cardinality(B) - Cardinality(A \cap B)
      BY <2>5, <2>6, FS_Union
    <3> QED
      BY <2>5, <2>6, <3>1, <3>2
  <2>8. 2 ^ (n + 1) = 2 * 2 ^ n
    <3>1. Cardinality(SUBSET (1 .. n + 1)) = 2 ^ (n + 1)
      BY <1>2, <2>1
    <3>2. \A x \in Nat : 2 * x = x + x
      OBVIOUS
    <3>3. 2 * 2 ^ n = 2 ^ n + 2 ^ n
      BY <2>5, <3>2, Zenon
    <3>4. Cardinality(A \cup B) = 2 ^ n + 2 ^ n
      BY <2>5, <2>6, <2>7, Zenon
    <3> QED
      BY <2>2, <3>1, <3>3, <3>4, Zenon
  <2>9. 2 ^ n # 0
    <3>1. A # {}
      BY DEF A
    <3> QED
      BY <2>5, <3>1, FS_EmptySet
  <2> QED
    BY <2>8, <2>9
<1> QED
  BY <1>1, <1>2, <1>3

AtMost(n) == IF n > MaxBackoff THEN MaxBackoff ELSE n

\* The next attempt is made after backoff seconds; what waits is the last
\* backoff, and it has not been doubled yet.
WaitInv ==
  /\ failures \in 0 .. MaxFailures
  /\ es = NoRequest => wire = <<>>
  /\ failures < MaxFailures =>
       IF timer = 0 THEN stopped \/ backoff = AtMost(2 ^ failures)
       ELSE /\ failures >= 1 /\ timer = AtMost(2 ^ (failures - 1))
            /\ backoff = timer

\* A page that has a connection is shown, and has no timer.
LEMMA ConnectedIs ==
  ASSUME HookInv, es # NoRequest
  PROVE  issued # {} /\ ~stopped /\ timer = 0
<1>1. issued # {}
  BY DEF HookInv
<1>2. stopped \in BOOLEAN
  BY DEF HookInv
<1> QED
  BY <1>1, <1>2 DEF HookInv, OneConnection

\* A timer is that of a page that is shown.
LEMMA WaitingIs ==
  ASSUME HookInv, timer # 0
  PROVE  es = NoRequest /\ ~stopped
<1>1. issued # {}
  BY DEF HookInv
<1>2. stopped \in BOOLEAN
  BY DEF HookInv
<1> QED
  BY <1>1, <1>2 DEF HookInv, OneConnection

\* Doubling keeps the wait a power of two, up to its limit.
LEMMA DoubledPower ==
  ASSUME NEW n \in Nat, backoff = AtMost(2 ^ n)
  PROVE  Doubled = AtMost(2 ^ (n + 1))
<1>1. 2 ^ n \in Nat \ {0} /\ 2 ^ (n + 1) = 2 * 2 ^ n
  BY PowersOfTwo
<1>2. MaxBackoff \in Nat \ {0}
  BY LiveAssumption
<1>3. \A x \in Nat \ {0} :
        backoff = AtMost(x) => Doubled = AtMost(2 * x)
  BY <1>2 DEF AtMost, Doubled
<1> QED
  BY <1>1, <1>3

\* Every step keeps the wait what it should be.
LEMMA WaitStands ==
  HookInv /\ KeeperInv /\ WaitInv /\ [LiveNext]_liveVars => WaitInv'
<1> SUFFICES ASSUME HookInv, KeeperInv, WaitInv, [LiveNext]_liveVars
    PROVE WaitInv'
  OBVIOUS
<1>1. /\ NoRequest \notin Requests /\ MaxBackoff \in Nat \ {0}
      /\ MaxFailures \in Nat
      /\ backoff \in 1 .. MaxBackoff /\ timer \in Nat /\ stopped \in BOOLEAN
      /\ failures \in 0 .. MaxFailures
  BY LiveAssumption DEF HookInv, WaitInv
<1>2. ASSUME Connect PROVE es' # NoRequest
  BY <1>1, <1>2, ConnectConnects
<1>3. CASE Mount
  BY <1>2, <1>3 DEF Mount, heroVars, WaitInv
<1>4. CASE Open
  <2>1. /\ wire # <<>> /\ backoff' = 1 /\ failures' = 0
        /\ UNCHANGED <<es, wire, timer, stopped>>
    BY <1>4 DEF Open, BackoffReset, heroVars
  <2>2. es # NoRequest /\ timer = 0
    BY <2>1, ConnectedIs DEF WaitInv
  <2>3. 2 ^ 0 = 1 /\ AtMost(1) = 1
    BY <1>1, PowersOfTwo DEF AtMost
  <2>4. failures' \in 0 .. MaxFailures
    BY <1>1, <2>1
  <2> QED
    BY <2>1, <2>2, <2>3, <2>4 DEF WaitInv
<1>5. CASE Message
  <2>1. /\ wire # <<>>
        /\ UNCHANGED <<es, backoff, timer, failures, stopped>>
    BY <1>5 DEF Message
  <2> QED
    BY <2>1 DEF WaitInv
<1>6. CASE Error
  <2>1. /\ es # NoRequest /\ es' = NoRequest /\ wire' = <<>>
        /\ timer' = backoff /\ UNCHANGED <<backoff, stopped>>
        /\ failures' = IF failures < MaxFailures THEN failures + 1 ELSE failures
    BY <1>6 DEF Error, Broken, RetryAfter
  <2>2. timer = 0 /\ ~stopped
    BY <2>1, ConnectedIs
  <2>3. CASE failures < MaxFailures
    <3>1. backoff = AtMost(2 ^ failures)
      BY <2>2, <2>3 DEF WaitInv
    <3>2. /\ failures' = failures + 1 /\ failures' \in 0 .. MaxFailures
          /\ failures' >= 1 /\ failures' - 1 = failures
      BY <1>1, <2>1, <2>3
    <3>3. timer' # 0 /\ timer' = AtMost(2 ^ (failures' - 1)) /\ backoff' = timer'
      BY <1>1, <2>1, <3>1, <3>2
    <3> QED
      BY <2>1, <3>2, <3>3 DEF WaitInv, AtMost
  <2>4. CASE ~(failures < MaxFailures)
    BY <1>1, <2>1, <2>4 DEF WaitInv
  <2> QED
    BY <2>3, <2>4
<1>7. CASE TimerFires
  <2>1. /\ timer # 0 /\ timer' = 0 /\ backoff' = Doubled
        /\ UNCHANGED <<failures, stopped>>
    BY <1>7 DEF TimerFires, heroVars
  <2>2. ~stopped /\ es' # NoRequest
    BY <1>2, <1>7, <2>1, WaitingIs DEF TimerFires, Stopped
  <2>3. failures < MaxFailures => backoff' = AtMost(2 ^ failures)
    <3>1. SUFFICES ASSUME failures < MaxFailures
          PROVE  Doubled = AtMost(2 ^ failures)
      BY <2>1
    <3>2. failures >= 1 /\ backoff = AtMost(2 ^ (failures - 1))
      BY <2>1, <3>1 DEF WaitInv
    <3>3. failures - 1 \in Nat /\ (failures - 1) + 1 = failures
      BY <1>1, <3>2
    <3> QED
      BY <3>2, <3>3, DoubledPower
  <2>4. failures' < MaxFailures => backoff' = AtMost(2 ^ failures')
    BY <2>1, <2>3
  <2> QED
    BY <1>1, <2>1, <2>2, <2>4 DEF WaitInv, AtMost
<1>8. CASE Unmount
  <2>1. /\ stopped' = TRUE /\ timer' = 0 /\ wire' = <<>>
        /\ UNCHANGED failures
    BY <1>8 DEF Unmount, Stopped
  <2> QED
    BY <1>1, <2>1 DEF WaitInv
<1>9. CASE UNCHANGED <<es, wire, backoff, timer, failures, stopped>>
  BY <1>9 DEF WaitInv, AtMost
<1>10. CASE Render \/ Cycle \/ Keeper \/ Break \/ Unreachable \/ UNCHANGED liveVars
  BY <1>9, <1>10 DEF Render, Cycle, Keeper, Break, Unreachable, liveVars,
                     clientVars, heroVars
<1>11. CASE \E r \in issued : Serve(r) \/ WrittenToClient(r) \/ Closed(r)
  <2>1. PICK r \in issued : Serve(r) \/ WrittenToClient(r) \/ Closed(r)
    BY <1>11
  <2>2. CASE Serve(r) \/ Closed(r)
    BY <1>9, <2>2 DEF Serve, Closed, clientVars, heroVars
  <2>3. CASE WrittenToClient(r)
    <3>1. /\ UNCHANGED <<es, backoff, timer, failures, stopped>>
          /\ r # es => wire' = wire
      BY <2>3 DEF WrittenToClient, heroVars
    <3>2. r # NoRequest
      BY <1>1 DEF KeeperInv
    <3> QED
      BY <3>1, <3>2 DEF WaitInv, AtMost
  <2> QED
    BY <2>1, <2>2, <2>3
<1> QED
  BY <1>3, <1>4, <1>5, <1>6, <1>7, <1>8, <1>10, <1>11 DEF LiveNext

\* At first the page would wait for one second.
LEMMA WaitInit == LiveInit => WaitInv
<1> SUFFICES ASSUME LiveInit PROVE WaitInv
  OBVIOUS
<1>1. /\ wire = <<>> /\ backoff = 1 /\ timer = 0 /\ failures = 0
  BY DEF LiveInit
<1>2. 2 ^ 0 = 1 /\ AtMost(1) = 1 /\ MaxFailures \in Nat
  BY PowersOfTwo, LiveAssumption DEF AtMost
<1> QED
  BY <1>1, <1>2 DEF WaitInv

\* onopen, onerror: after n errors in a row the page waits 2^(n-1) seconds,
\* or MAX_BACKOFF_MS, whatever that limit is; a connection that worked starts
\* again from one second.
THEOREM WaitsDouble == LiveSpec => []BackoffDoubles
<1>1. WaitInv => BackoffDoubles
  BY DEF WaitInv, BackoffDoubles, AtMost
<1> QED
  BY <1>1, HookInit, HookPreserves, KeeperInit, KeeperStands, WaitInit,
     WaitStands, PTL DEF LiveSpec

-----------------------------------------------------------------------------
(* The lines of the log.                                                   *)

\* t ends with the line e, and its other lines, fewer than n, are the last
\* ones of s.
EndOf(t, s, e, n) ==
  /\ Len(t) \in 1 .. n /\ DOMAIN t = 1 .. Len(t) /\ t # <<>>
  /\ t[Len(t)] = e /\ Last(t) = e
  /\ \E k \in Nat : \A i \in 1 .. Len(t) - 1 :
       i + k \in DOMAIN s /\ t[i] = s[i + k]

\* slice(-n) of a list to which a line was appended.
LEMMA KeptLines ==
  ASSUME NEW S, NEW s \in Seq(S), NEW e \in S, NEW n \in Nat \ {0},
         NEW t, t = Kept(Append(s, e), n)
  PROVE  t \in Seq(S) /\ EndOf(t, s, e, n)
<1> DEFINE a == Append(s, e)
           m == Len(s)
<1>1. /\ a \in Seq(S) /\ Len(a) = m + 1 /\ m \in Nat
      /\ \A i \in 1 .. m : a[i] = s[i]
      /\ a[m + 1] = e
      /\ DOMAIN s = 1 .. m
      /\ t = Kept(a, n)
  BY AppendProperties, LenProperties
<1> HIDE DEF a, m
<1>2. PICK k \in Nat :
        /\ t \in Seq(S) /\ Len(t) \in 1 .. n /\ Len(t) + k = m + 1
        /\ \A i \in 1 .. Len(t) : t[i] = a[i + k]
  <2>1. CASE m + 1 <= n
    <3>1. t = a
      BY <1>1, <2>1 DEF Kept
    <3>2. /\ t \in Seq(S) /\ Len(t) \in 1 .. n /\ Len(t) + 0 = m + 1
          /\ \A i \in 1 .. Len(t) : t[i] = a[i + 0]
      BY <1>1, <2>1, <3>1
    <3> QED
      BY <3>2
  <2>2. CASE ~(m + 1 <= n)
    <3> DEFINE k == m + 1 - n
    <3>1. t = SubSeq(a, k + 1, m + 1)
      <4>1. Len(a) = m + 1 /\ ~(Len(a) <= n) /\ t = Kept(a, n)
        BY <1>1, <2>2
      <4>2. t = SubSeq(a, Len(a) - n + 1, Len(a))
        BY <4>1, Zenon DEF Kept
      <4>3. Len(a) - n + 1 = k + 1
        BY <1>1, <4>1
      <4> QED
        BY <4>1, <4>2, <4>3, Zenon
    <3>2. /\ k \in Nat /\ k + 1 \in Int /\ m + 1 \in Int /\ k + 1 <= m + 1
          /\ (m + 1) - (k + 1) + 1 = n
      BY <1>1, <2>2
    <3>3. \A i \in k + 1 .. m + 1 : a[i] \in S
      <4>1. \A i \in k + 1 .. m + 1 : i \in 1 .. Len(a)
        BY <1>1, <3>2
      <4> QED
        BY <1>1, <4>1, ElementOfSeq
    <3> HIDE DEF k
    <3>4. /\ t \in Seq(S)
          /\ Len(t) = (m + 1) - (k + 1) + 1
          /\ \A i \in 1 .. (m + 1) - (k + 1) + 1 : t[i] = a[(k + 1) + i - 1]
      BY <3>1, <3>2, <3>3, SubSeqProperties
    <3>5. Len(t) = n /\ \A i \in 1 .. n : t[i] = a[(k + 1) + i - 1]
      BY <3>2, <3>4
    <3>6. \A i \in 1 .. n : (k + 1) + i - 1 = i + k
      BY <3>2
    <3>7. n + k = m + 1 /\ n \in 1 .. n
      BY <1>1, <3>2
    <3>8. /\ t \in Seq(S) /\ Len(t) \in 1 .. n /\ Len(t) + k = m + 1
          /\ \A i \in 1 .. Len(t) : t[i] = a[i + k]
      BY <3>4, <3>5, <3>6, <3>7
    <3> QED
      BY <3>2, <3>8
  <2> QED
    BY <2>1, <2>2
<1>3. /\ t # <<>> /\ DOMAIN t = 1 .. Len(t) /\ Len(t) \in Nat /\ Len(t) >= 1
  <2>1. Len(<<>>) = 0 /\ Len(t) # 0
    BY <1>2
  <2> QED
    BY <1>2, <2>1, LenProperties
<1>4. t[Len(t)] = e /\ Last(t) = e
  <2>1. Len(t) \in 1 .. Len(t)
    BY <1>3
  <2> QED
    BY <1>1, <1>2, <2>1 DEF Last
<1>5. \A i \in 1 .. Len(t) - 1 : i + k \in DOMAIN s /\ t[i] = s[i + k]
  <2> SUFFICES ASSUME NEW i \in 1 .. Len(t) - 1
      PROVE  i + k \in DOMAIN s /\ t[i] = s[i + k]
    OBVIOUS
  <2> DEFINE l == Len(t)
  <2>1. l \in Nat /\ l + k = m + 1 /\ i \in 1 .. l - 1
    BY <1>2, <1>3
  <2> HIDE DEF l
  <2>2. i + k \in 1 .. m /\ i \in 1 .. l
    BY <1>1, <2>1
  <2> QED
    BY <1>1, <1>2, <2>2 DEF l
<1> QED
  BY <1>2, <1>3, <1>4, <1>5 DEF EndOf

Lines == -StaticLogs .. MaxEvents

\* The types of what the hook and Hero keep.
LogTypes ==
  /\ opened \in BOOLEAN /\ dirty \in BOOLEAN /\ cycling \in BOOLEAN
  /\ wire \in Seq(1 .. MaxEvents)
  /\ timer \in 0 .. MaxBackoff
  /\ events \in Seq(0 .. MaxEvents) /\ Len(events) <= EventsKept
  /\ visibleLogs \in Seq(Lines) /\ Len(visibleLogs) \in 1 .. LogLines
  /\ staticIdx \in 0 .. StaticLogs - 1
  /\ breaks \in 0 .. MaxBreaks
  /\ dirty => events # <<>>

\* What onmessage and onerror do to the hook's list.
LEMMA PushTypes ==
  ASSUME LogTypes, NEW line \in 0 .. MaxEvents, Push(line)
  PROVE  /\ events' \in Seq(0 .. MaxEvents) /\ Len(events') <= EventsKept
         /\ dirty' = TRUE /\ events' # <<>> /\ Last(events') = line
<1> DEFINE S == 0 .. MaxEvents
<1>1. EventsKept \in Nat \ {0} /\ events \in Seq(S) /\ line \in S
  BY LiveAssumption DEF LogTypes
<1>2. events' = Kept(Append(events, line), EventsKept) /\ dirty' = TRUE
  BY DEF Push
<1> HIDE DEF S
<1>3. \A s \in Seq(S), e \in S, n \in Nat \ {0} : \A t :
        t = Kept(Append(s, e), n) => t \in Seq(S) /\ EndOf(t, s, e, n)
  BY KeptLines
<1>4. events' \in Seq(S) /\ EndOf(events', events, line, EventsKept)
  BY <1>1, <1>2, <1>3
<1>5. Len(events') <= EventsKept /\ events' # <<>> /\ Last(events') = line
  BY <1>1, <1>4 DEF EndOf
<1> QED
  BY <1>2, <1>4, <1>5 DEF S

\* What Hero shows after it has shown one more line.
LEMMA ShowsLines ==
  ASSUME LogTypes, NEW line \in Lines, Shows(line)
  PROVE  /\ visibleLogs' \in Seq(Lines) /\ Len(visibleLogs') \in 1 .. LogLines
         /\ EndOf(visibleLogs', visibleLogs, line, LogLines)
<1>1. LogLines \in Nat \ {0} /\ visibleLogs \in Seq(Lines)
  BY LiveAssumption DEF LogTypes
<1>2. visibleLogs' = Kept(Append(visibleLogs, line), LogLines)
  BY DEF Shows
<1>3. \A s \in Seq(Lines), e \in Lines, n \in Nat \ {0} : \A t :
        t = Kept(Append(s, e), n) => t \in Seq(Lines) /\ EndOf(t, s, e, n)
  BY KeptLines
<1>4. visibleLogs' \in Seq(Lines) /\ EndOf(visibleLogs', visibleLogs, line, LogLines)
  BY <1>1, <1>2, <1>3
<1> QED
  BY <1>4 DEF EndOf

\* Render shows an event or the note, Cycle a static line.
LEMMA RenderShows ==
  ASSUME LogTypes, dirty
  PROVE  events # <<>> /\ Last(events) \in 0 .. MaxEvents /\ Last(events) \in Lines
<1>1. events # <<>> /\ events \in Seq(0 .. MaxEvents)
  BY DEF LogTypes
<1>2. Len(events) \in 1 .. Len(events)
  BY <1>1, EmptySeq, LenProperties
<1>3. Last(events) \in 0 .. MaxEvents
  BY <1>1, <1>2, ElementOfSeq DEF Last
<1> QED
  BY <1>1, <1>3, LiveAssumption, StreamAssumption DEF Lines

\* The static lines are negative.
LEMMA CycleShows ==
  ASSUME LogTypes, Cycle
  PROVE  /\ staticIdx' \in 0 .. StaticLogs - 1
         /\ Static(staticIdx') \in Lines /\ Static(staticIdx') < 0
<1>1. StaticLogs \in Nat \ {0} /\ MaxEvents \in Nat
  BY LiveAssumption, StreamAssumption
<1>2. staticIdx' = (staticIdx + 1) % StaticLogs /\ staticIdx + 1 \in Nat
  BY DEF Cycle, LogTypes
<1>3. staticIdx' \in 0 .. StaticLogs - 1
  BY <1>1, <1>2
<1>4. \A i \in 0 .. StaticLogs - 1 : Static(i) \in Lines /\ Static(i) < 0
  BY <1>1 DEF Static, Lines
<1> QED
  BY <1>3, <1>4

\* handleSSE writes what it has received.
LEMMA WritesAnEvent ==
  ASSUME KeeperInv, NEW r \in Requests, handler[r] = "writing"
  PROVE  /\ received[r] \in Seq(1 .. MaxEvents) /\ received[r] # <<>>
         /\ Len(received[r]) \in 1 .. Len(received[r])
         /\ Last(received[r]) = received[r][Len(received[r])]
         /\ Last(received[r]) \in 1 .. MaxEvents
<1>1. received[r] \in Seq(1 .. MaxEvents) /\ received[r] # <<>>
  BY DEF KeeperInv, StreamInv, StreamTypes, RequestOK
<1>2. Len(received[r]) \in 1 .. Len(received[r])
  BY <1>1, EmptySeq, LenProperties
<1> QED
  BY <1>1, <1>2, ElementOfSeq DEF Last

\* Every step keeps the types.
LEMMA LogTypesStand ==
  HookInv /\ KeeperInv /\ LogTypes /\ [LiveNext]_liveVars => LogTypes'
<1> SUFFICES ASSUME HookInv, KeeperInv, LogTypes, [LiveNext]_liveVars
    PROVE LogTypes'
  OBVIOUS
<1>1. /\ MaxBackoff \in Nat \ {0} /\ MaxBreaks \in Nat /\ MaxEvents \in Nat
      /\ backoff \in 1 .. MaxBackoff /\ <<>> \in Seq(1 .. MaxEvents)
  BY LiveAssumption, StreamAssumption DEF HookInv
<1>2. ASSUME Connect PROVE opened' = FALSE /\ wire' = <<>>
  BY <1>2 DEF Connect, ConnectAs
<1>3. CASE Mount
  BY <1>1, <1>2, <1>3 DEF Mount, heroVars, LogTypes
<1>4. CASE Open
  BY <1>4 DEF Open, heroVars, LogTypes
<1>5. CASE Message
  <2>1. /\ wire # <<>> /\ wire \in Seq(1 .. MaxEvents) /\ wire' = Tail(wire)
        /\ Push(Head(wire))
    BY <1>5 DEF Message, LogTypes
  <2>2. Head(wire) \in 1 .. MaxEvents /\ Tail(wire) \in Seq(1 .. MaxEvents)
    BY <2>1, HeadTailProperties
  <2>3. Head(wire) \in 0 .. MaxEvents
    BY <2>2
  <2> QED
    BY <1>5, <2>1, <2>2, <2>3, PushTypes DEF Message, LogTypes
<1>6. CASE Error
  <2>1. Note \in 0 .. MaxEvents
    BY <1>1 DEF Note
  <2>2. /\ opened' = FALSE /\ wire' = <<>> /\ timer' = backoff /\ Push(Note)
        /\ UNCHANGED <<breaks, stopped, cycling, staticIdx, visibleLogs>>
    BY <1>6 DEF Error, RetryAfter
  <2>3. timer' \in 0 .. MaxBackoff
    BY <1>1, <2>2
  <2> QED
    BY <1>1, <2>1, <2>2, <2>3, PushTypes DEF LogTypes
<1>7. CASE TimerFires
  <2>1. /\ timer' = 0 /\ UNCHANGED <<breaks, heroVars>>
        /\ \/ opened' = FALSE /\ wire' = <<>>
           \/ UNCHANGED <<opened, wire>>
    BY <1>2, <1>7 DEF TimerFires
  <2>2. timer' \in 0 .. MaxBackoff
    BY <1>1, <2>1
  <2>3. opened' \in BOOLEAN /\ wire' \in Seq(1 .. MaxEvents)
    BY <1>1, <2>1 DEF LogTypes
  <2> QED
    BY <2>1, <2>2, <2>3 DEF LogTypes, heroVars
<1>8. CASE Unmount
  <2>1. /\ timer' = 0 /\ opened' = FALSE /\ wire' = <<>>
        /\ UNCHANGED <<breaks, events, dirty, cycling, staticIdx, visibleLogs>>
    BY <1>8 DEF Unmount, Stopped
  <2>2. timer' \in 0 .. MaxBackoff
    BY <1>1, <2>1
  <2> QED
    BY <1>1, <2>1, <2>2 DEF LogTypes
<1>9. CASE Render
  <2>1. dirty /\ dirty' = FALSE /\ cycling' = FALSE /\ Shows(Last(events))
    BY <1>9 DEF Render
  <2>2. Last(events) \in Lines
    BY <2>1, RenderShows
  <2> QED
    BY <1>9, <2>1, <2>2, ShowsLines DEF Render, LogTypes, clientVars
<1>10. CASE Cycle
  <2>1. staticIdx' \in 0 .. StaticLogs - 1 /\ Static(staticIdx') \in Lines
    BY <1>10, CycleShows
  <2> QED
    BY <1>10, <2>1, ShowsLines DEF Cycle, LogTypes, clientVars
<1>11. CASE Break \/ Unreachable
  <2>1. /\ breaks < MaxBreaks /\ breaks' = breaks + 1
        /\ UNCHANGED <<opened, wire, timer, heroVars>>
    BY <1>11 DEF Break, Unreachable
  <2>2. breaks' \in 0 .. MaxBreaks
    BY <1>1, <2>1 DEF LogTypes
  <2> QED
    BY <2>1, <2>2 DEF LogTypes, heroVars
<1>12. CASE Keeper \/ UNCHANGED liveVars
  BY <1>12 DEF Keeper, liveVars, clientVars, heroVars, LogTypes
<1>13. ASSUME NEW r \in issued, Serve(r) \/ WrittenToClient(r) \/ Closed(r)
       PROVE  LogTypes'
  <2>1. CASE Serve(r) \/ Closed(r)
    BY <2>1 DEF Serve, Closed, clientVars, heroVars, LogTypes
  <2>2. CASE WrittenToClient(r)
    <3>1. r \in Requests /\ handler[r] = "writing"
      BY <2>2 DEF KeeperInv, WrittenToClient, Written
    <3>2. Last(received[r]) \in 1 .. MaxEvents
      BY <3>1, WritesAnEvent
    <3>3. Append(wire, Last(received[r])) \in Seq(1 .. MaxEvents)
      BY <3>2, AppendProperties DEF LogTypes
    <3> QED
      BY <2>2, <3>3 DEF WrittenToClient, heroVars, LogTypes
  <2> QED
    BY <1>13, <2>1, <2>2
<1> QED
  BY <1>3, <1>4, <1>5, <1>6, <1>7, <1>8, <1>9, <1>10, <1>11, <1>12, <1>13
     DEF LiveNext

\* At first one static line is shown.
LEMMA LogTypesInit == LiveInit => LogTypes
<1> SUFFICES ASSUME LiveInit PROVE LogTypes
  OBVIOUS
<1>1. /\ opened = FALSE /\ wire = <<>> /\ timer = 0 /\ breaks = 0
      /\ events = <<>> /\ dirty = FALSE /\ cycling = TRUE
      /\ staticIdx = 0 /\ visibleLogs = <<Static(0)>>
  BY DEF LiveInit
<1>2. /\ MaxBackoff \in Nat /\ EventsKept \in Nat /\ LogLines \in Nat \ {0}
      /\ StaticLogs \in Nat \ {0} /\ MaxBreaks \in Nat /\ MaxEvents \in Nat
  BY LiveAssumption, StreamAssumption
<1>3. Static(0) \in Lines /\ 0 \in 0 .. StaticLogs - 1
  BY <1>2 DEF Static, Lines
<1>4. visibleLogs \in Seq(Lines) /\ Len(visibleLogs) = 1
  BY <1>1, <1>3
<1>5. Len(events) = 0 /\ events \in Seq(0 .. MaxEvents) /\ wire \in Seq(1 .. MaxEvents)
  BY <1>1
<1>6. /\ timer \in 0 .. MaxBackoff /\ breaks \in 0 .. MaxBreaks
      /\ Len(events) <= EventsKept /\ Len(visibleLogs) \in 1 .. LogLines
  BY <1>1, <1>2, <1>4, <1>5
<1> QED
  BY <1>1, <1>3, <1>4, <1>5, <1>6 DEF LogTypes

\* useSSEEvents, Hero: neither list ever outgrows its limit, and no wait
\* exceeds MAX_BACKOFF_MS, for any number of events and failures.
THEOREM LiveTypeCorrect == LiveSpec => []LiveTypeOK
<1>1. HookInv /\ KeeperInv /\ WaitInv /\ LogTypes => LiveTypeOK
  BY DEF HookInv, KeeperInv, StreamInv, StreamTypes, WaitInv, LogTypes,
         LiveTypeOK, Lines
<1> QED
  BY <1>1, HookInit, HookPreserves, KeeperInit, KeeperStands, WaitInit,
     WaitStands, LogTypesInit, LogTypesStand, PTL DEF LiveSpec

-----------------------------------------------------------------------------
(* The order of the log.                                                   *)

\* The events that are shown, or will be at the next rendering.
Shown ==
  {x \in ToSet(visibleLogs) : x > 0}
    \cup {x \in 1 .. MaxEvents : events # <<>> /\ x = Last(events)}

\* The events that have left the keeper's channels.
Before == Shown \cup ToSet(wire)

\* An event that is on its way comes after those that are before it, over
\* whatever connections these came.
FlowInv ==
  /\ Increasing(wire)
  /\ \A x \in Shown, y \in ToSet(wire) : x < y
  /\ \A x \in Before : x <= Latest(es)
  /\ es \in Requests =>
       /\ handler[es] = "waiting" => \A x \in Before, y \in ToSet(chan[es]) : x < y
       /\ handler[es] = "writing" => \A x \in Before : x < Last(received[es])

\* The line that will be shown next, and the static lines.
ShownInv ==
  /\ dirty /\ Last(events) > 0 =>
       \A i \in DOMAIN visibleLogs : visibleLogs[i] < Last(events)
  /\ cycling => \A i \in DOMAIN visibleLogs : visibleLogs[i] < 0
  /\ LogInOrder

\* Events are numbers.
LEMMA BeforeTypes ==
  ASSUME LogTypes
  PROVE  /\ Shown \subseteq Nat \ {0} /\ ToSet(wire) \subseteq 1 .. MaxEvents
         /\ Before \subseteq Nat
         /\ \A i \in DOMAIN visibleLogs : visibleLogs[i] \in Int
<1>1. /\ wire \in Seq(1 .. MaxEvents) /\ visibleLogs \in Seq(Lines)
      /\ MaxEvents \in Nat /\ StaticLogs \in Nat
  BY LiveAssumption, StreamAssumption DEF LogTypes
<1>2. ToSet(wire) \subseteq 1 .. MaxEvents
  BY <1>1, ElementOfSeq, LenProperties DEF ToSet
<1>3. \A i \in DOMAIN visibleLogs : visibleLogs[i] \in Lines
  BY <1>1, ElementOfSeq, LenProperties
<1>4. Lines \subseteq Int
  BY <1>1 DEF Lines
<1>5. Shown \subseteq Nat \ {0}
  <2>1. ASSUME NEW x \in ToSet(visibleLogs), x > 0 PROVE x \in Nat \ {0}
    <3>1. x \in Int
      BY <1>3, <1>4 DEF ToSet
    <3> QED
      BY <2>1, <3>1
  <2>2. 1 .. MaxEvents \subseteq Nat \ {0}
    BY <1>1
  <2> QED
    BY <2>1, <2>2 DEF Shown
<1>6. 1 .. MaxEvents \subseteq Nat
  BY <1>1
<1>7. \A i \in DOMAIN visibleLogs : visibleLogs[i] \in Int
  BY <1>3, <1>4
<1>8. Before \subseteq Nat
  BY <1>2, <1>5, <1>6 DEF Before
<1> QED
  BY <1>2, <1>5, <1>7, <1>8

\* The last event that addEvent has finished with, for anyone.
LEMMA LatestIs ==
  ASSUME KeeperInv
  PROVE  /\ published \in Nat /\ Remaining \subseteq Requests
         /\ \A e : Latest(e) \in {published - 1, published}
         /\ \A e : e \notin Remaining =>
              Latest(e) = IF publisher = "copy" THEN published - 1 ELSE published
         /\ \A d, e : e \notin Remaining => Latest(d) <= Latest(e)
<1>1. /\ published \in Nat /\ targets \in Seq(Requests) /\ next \in Nat \ {0}
  BY StreamAssumption DEF KeeperInv, StreamInv, StreamTypes, StreamTypeOK
<1>2. Remaining \subseteq Requests
  <2>1. Len(targets) \in Nat
    BY <1>1, LenProperties
  <2>2. \A i \in next .. Len(targets) : i \in 1 .. Len(targets)
    BY <1>1, <2>1
  <2> QED
    BY <1>1, <2>2, ElementOfSeq DEF Remaining
<1>3. /\ \A e : Latest(e) \in {published - 1, published}
      /\ \A e : e \notin Remaining =>
           Latest(e) = IF publisher = "copy" THEN published - 1 ELSE published
      /\ publisher = "copy" => \A e : Latest(e) = published - 1
  BY DEF Latest
<1>4. ASSUME NEW d, NEW e, e \notin Remaining PROVE Latest(d) <= Latest(e)
  <2>1. CASE publisher = "copy"
    BY <1>1, <1>3, <2>1
  <2>2. CASE publisher # "copy"
    <3>1. Latest(e) = published /\ Latest(d) \in {published - 1, published}
      BY <1>3, <1>4, <2>2
    <3> QED
      BY <1>1, <3>1
  <2> QED
    BY <2>1, <2>2
<1> QED
  BY <1>1, <1>2, <1>3, <1>4

\* addEvent never takes an event back.
LEMMA LatestGrows ==
  ASSUME KeeperInv, [StreamNext]_streamVars, NEW e
  PROVE  Latest(e) <= Latest(e)' /\ Latest(e) \in Int /\ Latest(e)' \in Int
<1>1. published \in Nat /\ Latest(e) \in {published - 1, published}
  BY LatestIs
<1>2. CASE AddEvent
  <2>1. publisher = "idle" /\ published' = published + 1 /\ publisher' = "copy"
    BY <1>2 DEF AddEvent
  <2>2. Latest(e) = published /\ Latest(e)' = published' - 1
    BY <2>1 DEF Latest
  <2> QED
    BY <1>1, <2>1, <2>2
<1>3. CASE CopySubs
  <2>1. publisher = "copy" /\ published' = published
    BY <1>3 DEF CopySubs
  <2>2. Latest(e) = published - 1 /\ Latest(e)' \in {published - 1, published}
    BY <2>1 DEF Latest
  <2> QED
    BY <1>1, <2>2
<1>4. CASE SendNext
  <2>1. /\ publisher = "send" /\ next' = next + 1
        /\ UNCHANGED <<published, publisher, targets>>
    BY <1>4 DEF SendNext
  <2>2. next \in Nat /\ Len(targets) \in Nat
    <3>1. targets \in Seq(Requests) /\ next \in Nat
      BY DEF KeeperInv, StreamInv, StreamTypes, StreamTypeOK
    <3> QED
      BY <3>1, LenProperties
  <2>3. Remaining' \subseteq Remaining
    <3>1. \A i \in next' .. Len(targets') : i \in next .. Len(targets)
      BY <2>1, <2>2
    <3> QED
      BY <2>1, <3>1 DEF Remaining
  <2>4. e \in Remaining' => e \in Remaining
    BY <2>3
  <2> QED
    BY <1>1, <2>1, <2>4 DEF Latest
<1>5. CASE EndBroadcast
  <2>1. publisher' = "idle" /\ published' = published
    BY <1>5 DEF EndBroadcast
  <2>2. Latest(e)' = published
    BY <2>1 DEF Latest
  <2> QED
    BY <1>1, <2>2
<1>6. CASE UNCHANGED broadcastVars
  <2>1. UNCHANGED <<published, publisher, targets, next>>
    BY <1>6 DEF broadcastVars
  <2>2. Latest(e)' = Latest(e)
    BY <2>1 DEF Latest, Remaining
  <2> QED
    BY <1>1, <2>2
<1>7. CASE \E r \in Requests : Accept(r) \/ Proceed(r) \/ Receive(r) \/ Written(r)
                               \/ Notice(r) \/ HangUp(r)
  BY <1>6, <1>7 DEF Accept, Proceed, Count, Subscribe, WriteFails, Return, Leave,
                    Receive, Written, Notice, HangUp
<1>8. CASE \E c \in Readers : TakeSnapshot(c) \/ Encode(c)
  BY <1>6, <1>8 DEF TakeSnapshot, Encode
<1>9. CASE UNCHANGED streamVars
  BY <1>6, <1>9 DEF streamVars
<1> QED
  BY <1>2, <1>3, <1>4, <1>5, <1>7, <1>8, <1>9 DEF StreamNext, Broadcast

\* What a live handler has received, and what waits for it, in order.
LEMMA DeliveredIs ==
  ASSUME KeeperInv, NEW r \in Requests, handler[r] \in Live
  PROVE  /\ \A y \in ToSet(chan[r]) : y \in Nat /\ y <= Latest(r)
         /\ handler[r] = "writing" =>
              /\ Last(received[r]) \in Nat /\ Last(received[r]) <= Latest(r)
              /\ \A y \in ToSet(chan[r]) : Last(received[r]) < y
<1> DEFINE E == 1 .. MaxEvents
           s == received[r]
           t == chan[r]
           d == s \o t
<1>1. /\ s \in Seq(E) /\ t \in Seq(E) /\ E \subseteq Nat
  BY DEF KeeperInv, StreamInv, StreamTypes, StreamTypeOK
<1>2. /\ Increasing(d) /\ ToSet(d) \subseteq joined[r] + 1 .. Latest(r)
      /\ joined[r] \in Nat /\ Latest(r) \in Int
  <2>1. joined[r] \in Nat
    BY DEF KeeperInv, StreamInv, StreamTypes
  <2>2. Latest(r) \in Int
    BY LatestIs
  <2> QED
    BY <2>1, <2>2 DEF KeeperInv, StreamInv, RequestOK, Delivered
<1> HIDE DEF E, s, t
<1>3. /\ d \in Seq(E) /\ Len(d) = Len(s) + Len(t)
      /\ Len(s) \in Nat /\ Len(t) \in Nat
      /\ DOMAIN d = 1 .. Len(s) + Len(t) /\ DOMAIN t = 1 .. Len(t)
      /\ \A i \in 1 .. Len(s) + Len(t) :
           d[i] = IF i <= Len(s) THEN s[i] ELSE t[i - Len(s)]
  BY <1>1, ConcatProperties, LenProperties
<1> HIDE DEF d
<1>4. ASSUME NEW j \in 1 .. Len(t)
      PROVE  /\ Len(s) + j \in DOMAIN d /\ d[Len(s) + j] = t[j]
  <2>1. /\ Len(s) + j \in 1 .. Len(s) + Len(t) /\ ~(Len(s) + j <= Len(s))
        /\ (Len(s) + j) - Len(s) = j
    BY <1>3
  <2> QED
    BY <1>3, <2>1
<1>5. \A x \in ToSet(d) : x \in Nat /\ x <= Latest(r)
  BY <1>2
<1>6. \A y \in ToSet(t) : y \in Nat /\ y <= Latest(r)
  BY <1>3, <1>4, <1>5 DEF ToSet
<1>7. ASSUME handler[r] = "writing"
      PROVE  /\ Last(s) \in Nat /\ Last(s) <= Latest(r)
             /\ \A y \in ToSet(t) : Last(s) < y
  <2>1. Len(s) \in 1 .. Len(s) /\ Last(s) = s[Len(s)]
    BY <1>7, WritesAnEvent DEF s
  <2>2. Len(s) \in DOMAIN d /\ d[Len(s)] = Last(s)
    BY <1>3, <2>1
  <2>3. \A j \in 1 .. Len(t) : Last(s) < t[j]
    <3> SUFFICES ASSUME NEW j \in 1 .. Len(t) PROVE Last(s) < t[j]
      OBVIOUS
    <3>1. Len(s) < Len(s) + j
      BY <1>3
    <3> QED
      BY <1>2, <1>4, <2>2, <3>1 DEF Increasing
  <2> QED
    BY <1>3, <1>5, <2>2, <2>3 DEF ToSet
<1> QED
  BY <1>6, <1>7 DEF s, t

\* The first element of a sequence.
LEMMA HeadIs ==
  ASSUME NEW S, NEW s \in Seq(S), s # <<>>
  PROVE  Head(s) = s[1] /\ Head(s) \in S /\ 1 \in DOMAIN s
<1>1. Len(s) \in Nat /\ Len(s) # 0 /\ DOMAIN s = 1 .. Len(s)
  BY EmptySeq, LenProperties
<1>2. Head(s) = s[1] /\ Head(s) \in S
  BY HeadTailProperties
<1> QED
  BY <1>1, <1>2

\* A step of the keeper's leaves what r has yet to write behind what is before
\* it.
LEMMA StreamKeepsFlow ==
  ASSUME KeeperInv, LogTypes, FlowInv, [StreamNext]_streamVars,
         NEW e \in Requests, es = e
  PROVE  /\ handler'[e] = "waiting" =>
              \A x \in Before, y \in ToSet(chan'[e]) : x < y
         /\ handler'[e] = "writing" => \A x \in Before : x < Last(received'[e])
<1> DEFINE Goal ==
      /\ handler'[e] = "waiting" => \A x \in Before, y \in ToSet(chan'[e]) : x < y
      /\ handler'[e] = "writing" => \A x \in Before : x < Last(received'[e])
<1>1. /\ handler \in [Requests -> Handlers] /\ published \in Nat
      /\ chan \in [Requests -> Seq(1 .. MaxEvents)]
      /\ received \in [Requests -> Seq(1 .. MaxEvents)]
      /\ Before \subseteq Nat
  BY BeforeTypes, LatestIs DEF KeeperInv, StreamInv, StreamTypes, StreamTypeOK
<1>2. /\ \A x \in Before : x <= Latest(e)
      /\ handler[e] = "waiting" => \A x \in Before, y \in ToSet(chan[e]) : x < y
      /\ handler[e] = "writing" => \A x \in Before : x < Last(received[e])
  BY DEF FlowInv
<1>3. CASE UNCHANGED <<handler, chan, received>>
  BY <1>2, <1>3
<1>4. ASSUME handler'[e] = handler[e], chan'[e] = chan[e],
             received'[e] = received[e]
      PROVE  Goal
  BY <1>2, <1>4
<1>5. ASSUME handler'[e] \notin Live PROVE Goal
  BY <1>5 DEF Live
<1>6. CASE AddEvent \/ CopySubs \/ EndBroadcast
  BY <1>3, <1>6 DEF AddEvent, CopySubs, EndBroadcast, sseVars, streamHistory
<1>7. CASE SendNext
  <2>1. /\ publisher = "send" /\ next <= Len(targets) /\ Sent(targets[next])
        /\ UNCHANGED <<handler, received>>
    BY <1>7 DEF SendNext, NextTarget
  <2>2. CASE targets[next] # e \/ chan' = chan
    <3>1. chan'[e] = chan[e]
      BY <1>1, <2>1, <2>2 DEF Sent
    <3> QED
      BY <1>4, <2>1, <3>1
  <2>3. CASE targets[next] = e /\ chan' # chan
    <3>1. chan'[e] = Append(chan[e], published)
      BY <1>1, <2>1, <2>3 DEF Sent
    <3>2. published \in 1 .. MaxEvents
      BY <2>1, StreamAssumption
         DEF KeeperInv, StreamInv, StreamTypes, StreamTypeOK
    <3>3. ToSet(chan'[e]) = ToSet(chan[e]) \cup {published}
      <4> DEFINE E == 1 .. MaxEvents
      <4>1. chan[e] \in Seq(E) /\ published \in E
        BY <1>1, <3>2
      <4> HIDE DEF E
      <4>2. \A s \in Seq(E), x \in E : ToSet(Append(s, x)) = ToSet(s) \cup {x}
        BY AppendedElements
      <4> QED
        BY <3>1, <4>1, <4>2
    <3>4. Latest(e) = published - 1
      <4>1. next \in next .. Len(targets)
        <5>1. targets \in Seq(Requests) /\ next \in Nat
          BY DEF KeeperInv, StreamInv, StreamTypes, StreamTypeOK
        <5>2. Len(targets) \in Nat
          BY <5>1, LenProperties
        <5> QED
          BY <2>1, <5>1, <5>2
      <4>2. e \in Remaining
        BY <2>3, <4>1 DEF Remaining
      <4> QED
        BY <2>1, <4>2 DEF Latest
    <3>5. \A x \in Before : x < published
      BY <1>1, <1>2, <3>4
    <3> QED
      BY <1>2, <2>1, <3>3, <3>5
  <2> QED
    BY <2>2, <2>3
<1>8. ASSUME NEW r \in Requests,
             \/ Accept(r) \/ Proceed(r) \/ Receive(r) \/ Written(r)
             \/ Notice(r) \/ HangUp(r)
      PROVE  Goal
  <2>1. CASE r # e
    <3>1. handler'[e] = handler[e] /\ chan'[e] = chan[e] /\ received'[e] = received[e]
      BY <1>1, <1>8, <2>1 DEF Accept, Proceed, Count, Subscribe, WriteFails,
         Return, Leave, Receive, Written, Notice, HangUp, streamHistory
    <3> QED
      BY <1>4, <3>1
  <2>2. CASE r = e
    <3>1. CASE Accept(r) \/ Count(r) \/ WriteFails(r) \/ Notice(r) \/ Leave(r)
      <4>1. handler'[e] \notin Live
        BY <1>1, <2>2, <3>1 DEF Accept, Count, WriteFails, Notice, Return, Leave,
                                Live
      <4> QED
        BY <1>5, <4>1
    <3>2. CASE HangUp(r)
      BY <1>3, <3>2 DEF HangUp, streamHistory
    <3>3. CASE Subscribe(r)
      <4>1. handler[e] \in Fresh /\ handler'[e] = "waiting" /\ chan'[e] = chan[e]
        BY <1>1, <2>2, <3>3 DEF Subscribe, Fresh
      <4>2. chan'[e] = <<>>
        BY <4>1 DEF KeeperInv, StreamInv, RequestOK
      <4>3. ToSet(chan'[e]) = {}
        BY <4>2 DEF ToSet
      <4> QED
        BY <4>1, <4>3
    <3>4. CASE Receive(r)
      <4>1. /\ handler[e] = "waiting" /\ handler'[e] = "writing" /\ chan[e] # <<>>
            /\ received'[e] = Append(received[e], Head(chan[e]))
        BY <1>1, <2>2, <3>4 DEF Receive
      <4>2. /\ Head(chan[e]) = chan[e][1] /\ Head(chan[e]) \in 1 .. MaxEvents
            /\ 1 \in DOMAIN chan[e]
        <5>1. chan[e] \in Seq(1 .. MaxEvents)
          BY <1>1
        <5>2. \A s \in Seq(1 .. MaxEvents) : s # <<>> =>
                Head(s) = s[1] /\ Head(s) \in 1 .. MaxEvents /\ 1 \in DOMAIN s
          BY HeadIs
        <5> QED
          BY <4>1, <5>1, <5>2
      <4>3. Last(received'[e]) = Head(chan[e])
        <5> DEFINE s == received[e]
                   h == Head(chan[e])
        <5>1. s \in Seq(1 .. MaxEvents) /\ h \in 1 .. MaxEvents
          BY <1>1, <4>2
        <5> HIDE DEF s, h
        <5>2. Len(Append(s, h)) = Len(s) + 1 /\ Append(s, h)[Len(s) + 1] = h
          BY <5>1, AppendProperties
        <5>3. Last(Append(s, h)) = h
          BY <5>2 DEF Last
        <5> QED
          BY <4>1, <5>3 DEF s, h
      <4>4. \A x \in Before : x < Head(chan[e])
        BY <1>2, <4>1, <4>2 DEF ToSet
      <4> QED
        BY <4>1, <4>3, <4>4
    <3>5. CASE Written(r)
      <4>1. /\ handler[e] = "writing" /\ handler'[e] = "waiting"
            /\ chan'[e] = chan[e]
        BY <1>1, <2>2, <3>5 DEF Written
      <4>2. /\ Last(received[e]) \in Nat
            /\ \A y \in ToSet(chan[e]) : y \in Nat /\ Last(received[e]) < y
        BY <4>1, DeliveredIs DEF Live
      <4>3. \A x \in Before, y \in ToSet(chan[e]) : x < y
        BY <1>1, <1>2, <4>1, <4>2
      <4> QED
        BY <4>1, <4>3
    <3> QED
      BY <1>8, <3>1, <3>2, <3>3, <3>4, <3>5 DEF Proceed
  <2> QED
    BY <2>1, <2>2
<1>9. CASE \E c \in Readers : TakeSnapshot(c) \/ Encode(c)
  BY <1>3, <1>9 DEF TakeSnapshot, Encode, sseVars
<1>10. CASE UNCHANGED streamVars
  BY <1>3, <1>10 DEF streamVars, sseVars, streamHistory
<1> QED
  BY <1>6, <1>7, <1>8, <1>9, <1>10 DEF StreamNext, Broadcast

\* Nothing new is shown, and what the keeper has yet to write comes later.
LEMMA FlowQuiet ==
  ASSUME LogTypes, FlowInv, NEW e, es = e, es' = e, wire' = wire,
         Shown' \subseteq Shown, Latest(e) <= Latest(e)',
         Latest(e) \in Int, Latest(e)' \in Int,
         e \in Requests =>
           /\ handler'[e] = "waiting" =>
                \A x \in Before, y \in ToSet(chan'[e]) : x < y
           /\ handler'[e] = "writing" => \A x \in Before : x < Last(received'[e])
  PROVE  FlowInv'
<1>1. Before \subseteq Nat /\ Before' \subseteq Before
  BY BeforeTypes DEF Before
<1>2. Increasing(wire)' /\ \A x \in Shown', y \in ToSet(wire') : x < y
  BY DEF FlowInv, Increasing
<1>3. \A x \in Before : x <= Latest(e)
  BY DEF FlowInv
<1>4. \A x \in Before' : x <= Latest(e)'
  BY <1>1, <1>3
<1>5. Latest(es)' = Latest(e)'
  BY DEF Latest
<1> QED
  BY <1>1, <1>2, <1>4, <1>5 DEF FlowInv

\* The connection is given up, or another one is made.
LEMMA FlowRestarts ==
  ASSUME KeeperInv, LogTypes, FlowInv, wire' = <<>>, Shown' \subseteq Shown,
         UNCHANGED broadcastVars, NEW e, es' = e, e \notin Remaining,
         e \in Requests => handler'[e] = "new"
  PROVE  FlowInv'
<1>1. Before \subseteq Nat /\ ToSet(wire') = {} /\ Before' \subseteq Before
  BY BeforeTypes DEF Before, ToSet
<1>2. /\ published \in Nat /\ \A d : Latest(d) \in {published - 1, published}
      /\ \A d : Latest(d) <= Latest(e)
  BY LatestIs
<1>3. \A x \in Before : x <= Latest(es)
  BY DEF FlowInv
<1>4. Latest(e) \in Int /\ Latest(es) \in Int /\ Latest(es) <= Latest(e)
  BY <1>2
<1>5. \A x \in Before : x <= Latest(e)
  BY <1>1, <1>3, <1>4
<1>6. Latest(es)' = Latest(e)
  BY DEF broadcastVars, Latest, Remaining
<1>7. Increasing(wire)'
  BY DEF Increasing
<1> QED
  BY <1>1, <1>5, <1>6, <1>7 DEF FlowInv

\* What is shown changes with these variables only.
LEMMA SameShown ==
  ASSUME UNCHANGED <<events, visibleLogs>>
  PROVE  Shown' = Shown
BY DEF Shown

\* onmessage: the event was the next one.
LEMMA MessageKeepsFlow ==
  ASSUME KeeperInv, LogTypes, FlowInv, Message
  PROVE  /\ FlowInv'
         /\ Last(events') > 0 /\ \A i \in DOMAIN visibleLogs :
              visibleLogs[i] < Last(events')
<1> DEFINE E == 1 .. MaxEvents
           h == Head(wire)
<1>1. /\ wire # <<>> /\ wire \in Seq(E) /\ wire' = Tail(wire) /\ Push(h)
      /\ UNCHANGED <<es, visibleLogs, streamVars>>
  BY DEF Message, LogTypes
<1>2. /\ E \subseteq Nat \ {0} /\ Shown \subseteq Nat \ {0}
      /\ \A i \in DOMAIN visibleLogs : visibleLogs[i] \in Int
      /\ Before \subseteq Nat
  BY BeforeTypes
<1> HIDE DEF E
<1>3. h = wire[1] /\ h \in E /\ 1 \in DOMAIN wire /\ h \in ToSet(wire)
  BY <1>1, HeadIs DEF ToSet
<1>4. /\ DOMAIN wire' \subseteq DOMAIN wire
      /\ \A i \in DOMAIN wire' : i \in Nat /\ i >= 1 /\ i + 1 \in DOMAIN wire
                                 /\ wire'[i] = wire[i + 1]
  <2> DEFINE t == Tail(wire)
             n == Len(wire)
  <2>1. /\ t \in Seq(E) /\ Len(t) = n - 1
        /\ \A i \in 1 .. Len(t) : t[i] = wire[i + 1]
    BY <1>1, HeadTailProperties
  <2>2. n \in Nat /\ DOMAIN wire = 1 .. n /\ n # 0
    BY <1>1, EmptySeq, LenProperties
  <2>3. DOMAIN t = 1 .. n - 1
    BY <2>1, LenProperties
  <2> HIDE DEF t, n
  <2>4. 1 .. n - 1 \subseteq 1 .. n
    BY <2>2
  <2>5. \A i \in 1 .. n - 1 : i \in Nat /\ i >= 1 /\ i + 1 \in 1 .. n
    BY <2>2
  <2>6. \A i \in 1 .. n - 1 : t[i] = wire[i + 1]
    BY <2>1, <2>2
  <2>7. wire' = t
    BY <1>1 DEF t
  <2> QED
    BY <2>2, <2>3, <2>4, <2>5, <2>6, <2>7
<1>5. ToSet(wire') \subseteq ToSet(wire)
  BY <1>4 DEF ToSet
<1>6. \A y \in ToSet(wire') : h < y
  <2>1. \A i \in DOMAIN wire' : wire[1] < wire[i + 1]
    <3> SUFFICES ASSUME NEW i \in DOMAIN wire' PROVE wire[1] < wire[i + 1]
      OBVIOUS
    <3>1. i + 1 \in DOMAIN wire /\ 1 < i + 1
      BY <1>4
    <3> QED
      BY <1>3, <3>1 DEF FlowInv, Increasing
  <2> QED
    BY <1>3, <1>4, <2>1 DEF ToSet
<1>7. Increasing(wire')
  <2> SUFFICES ASSUME NEW i \in DOMAIN wire', NEW j \in DOMAIN wire', i < j
      PROVE  wire'[i] < wire'[j]
    BY DEF Increasing
  <2>1. i + 1 \in DOMAIN wire /\ j + 1 \in DOMAIN wire /\ i + 1 < j + 1
    BY <1>4
  <2> QED
    BY <1>4, <2>1 DEF FlowInv, Increasing
<1>8. h \in 0 .. MaxEvents /\ h > 0
  BY <1>2, <1>3 DEF E
<1>9. events' # <<>> /\ Last(events') = h
  BY <1>1, <1>8, PushTypes
<1>10. Shown' \subseteq Shown \cup {h}
  BY <1>1, <1>9 DEF Shown
<1>11. Before' \subseteq Before
  BY <1>3, <1>5, <1>10 DEF Before
<1>12. \A x \in Shown', y \in ToSet(wire') : x < y
  BY <1>5, <1>6, <1>10 DEF FlowInv
<1>13. \A x \in Shown : x < h
  BY <1>3 DEF FlowInv
<1>14. ASSUME NEW i \in DOMAIN visibleLogs PROVE visibleLogs[i] < h
  <2>1. CASE visibleLogs[i] > 0
    <3>1. visibleLogs[i] \in Shown
      BY <2>1 DEF Shown, ToSet
    <3> QED
      BY <1>13, <3>1
  <2>2. CASE ~(visibleLogs[i] > 0)
    <3>1. visibleLogs[i] \in Int /\ h \in Nat
      BY <1>2, <1>3
    <3> QED
      BY <1>8, <2>2, <3>1
  <2> QED
    BY <2>1, <2>2
<1>15. FlowInv'
  <2>1. Latest(es)' = Latest(es) /\ UNCHANGED <<handler, chan, received>>
    BY <1>1 DEF streamVars, sseVars, streamHistory, broadcastVars, Latest,
                Remaining
  <2> QED
    BY <1>1, <1>7, <1>11, <1>12, <2>1 DEF FlowInv, Increasing
<1> QED
  BY <1>8, <1>9, <1>14, <1>15

\* Of two lines that are shown after one more, the later may be the new one,
\* and others are in their old order.
LEMMA LinesInOrder ==
  ASSUME LogTypes, NEW line \in Lines, Shows(line)
  PROVE  /\ \A i \in DOMAIN visibleLogs' :
              \/ visibleLogs'[i] = line
              \/ \E a \in DOMAIN visibleLogs : visibleLogs'[i] = visibleLogs[a]
         /\ \A i, j \in DOMAIN visibleLogs' : i < j =>
              \E a \in DOMAIN visibleLogs :
                /\ visibleLogs'[i] = visibleLogs[a]
                /\ \/ visibleLogs'[j] = line
                   \/ \E b \in DOMAIN visibleLogs :
                        a < b /\ visibleLogs'[j] = visibleLogs[b]
<1> DEFINE t == visibleLogs'
           s == visibleLogs
           n == Len(visibleLogs')
<1>1. EndOf(t, s, line, LogLines)
  BY ShowsLines
<1>2. PICK k \in Nat : \A i \in 1 .. n - 1 : i + k \in DOMAIN s /\ t[i] = s[i + k]
  BY <1>1 DEF EndOf
<1>3. /\ DOMAIN t = 1 .. n /\ t[n] = line /\ n \in Nat
  BY <1>1, LiveAssumption DEF EndOf
<1> HIDE DEF t, s, n
<1>4. \A i \in DOMAIN t : t[i] = line \/ \E a \in DOMAIN s : t[i] = s[a]
  <2> SUFFICES ASSUME NEW i \in DOMAIN t, i # n
      PROVE  \E a \in DOMAIN s : t[i] = s[a]
    BY <1>3
  <2>1. i \in 1 .. n - 1
    BY <1>3
  <2> QED
    BY <1>2, <2>1
<1>5. ASSUME NEW i \in DOMAIN t, NEW j \in DOMAIN t, i < j
      PROVE  \E a \in DOMAIN s :
               /\ t[i] = s[a]
               /\ t[j] = line \/ \E b \in DOMAIN s : a < b /\ t[j] = s[b]
  <2>1. i \in 1 .. n - 1 /\ i + k \in DOMAIN s /\ t[i] = s[i + k]
    <3>1. i \in 1 .. n - 1
      BY <1>3, <1>5
    <3> QED
      BY <1>2, <3>1
  <2>2. CASE j = n
    BY <1>3, <2>1, <2>2
  <2>3. CASE j # n
    <3>1. j \in 1 .. n - 1 /\ i + k < j + k
      BY <1>3, <1>5, <2>3
    <3>2. j + k \in DOMAIN s /\ t[j] = s[j + k]
      BY <1>2, <3>1
    <3> QED
      BY <2>1, <3>1, <3>2
  <2> QED
    BY <2>2, <2>3
<1> QED
  BY <1>4, <1>5 DEF t, s

\* Hero shows what it was about to show.
LEMMA HeroShowsNothingNew ==
  ASSUME LogTypes, Render \/ Cycle
  PROVE  Shown' \subseteq Shown
<1>1. PICK line \in Lines :
        /\ Shows(line)
        /\ line > 0 => line \in Shown
  <2>1. CASE Render
    <3>1. dirty /\ Shows(Last(events))
      BY <2>1 DEF Render
    <3>2. /\ events # <<>> /\ Last(events) \in 0 .. MaxEvents
          /\ Last(events) \in Lines
      BY <3>1, RenderShows
    <3>3. Last(events) > 0 => Last(events) \in 1 .. MaxEvents
      BY <3>2, StreamAssumption
    <3> QED
      BY <3>1, <3>2, <3>3 DEF Shown
  <2>2. CASE Cycle
    <3>1. Shows(Static(staticIdx')) /\ UNCHANGED events
      BY <2>2 DEF Cycle
    <3>2. /\ Static(staticIdx') \in Lines /\ Static(staticIdx') < 0
      BY <2>2, CycleShows
    <3>3. Static(staticIdx') \in Int
      BY <3>2, LiveAssumption, StreamAssumption DEF Lines
    <3>4. ~(Static(staticIdx') > 0)
      BY <3>2, <3>3
    <3> QED
      BY <3>1, <3>2, <3>4
  <2> QED
    BY <2>1, <2>2
<1>2. \A i \in DOMAIN visibleLogs' :
         visibleLogs'[i] = line
           \/ \E a \in DOMAIN visibleLogs : visibleLogs'[i] = visibleLogs[a]
  BY <1>1, LinesInOrder
<1>3. UNCHANGED events
  BY DEF Render, Cycle
<1>4. \A x \in ToSet(visibleLogs') : x = line \/ x \in ToSet(visibleLogs)
  BY <1>2 DEF ToSet
<1> QED
  BY <1>1, <1>3, <1>4 DEF Shown

\* A write: the event comes after what was written before it.
LEMMA WriteKeepsFlow ==
  ASSUME KeeperInv, LogTypes, FlowInv, NEW r \in issued, WrittenToClient(r),
         [StreamNext]_streamVars
  PROVE  FlowInv'
<1>1. /\ r \in Requests /\ handler[r] = "writing"
      /\ UNCHANGED <<es, events, visibleLogs, chan, received, broadcastVars>>
      /\ handler' = [handler EXCEPT ![r] = "waiting"]
      /\ handler \in [Requests -> Handlers]
  BY DEF KeeperInv, StreamInv, StreamTypes, StreamTypeOK, WrittenToClient,
         Written, heroVars, streamHistory
<1>2. Shown' = Shown
  BY <1>1, SameShown
<1>3. CASE wire' = wire
  <2>1. PICK e : e = es
    OBVIOUS
  <2>2. Latest(e) <= Latest(e)' /\ Latest(e) \in Int /\ Latest(e)' \in Int
    BY LatestGrows
  <2>3. e \in Requests =>
          /\ handler'[e] = "waiting" =>
               \A x \in Before, y \in ToSet(chan'[e]) : x < y
          /\ handler'[e] = "writing" => \A x \in Before : x < Last(received'[e])
    BY <2>1, StreamKeepsFlow
  <2> QED
    BY <1>1, <1>2, <1>3, <2>1, <2>2, <2>3, FlowQuiet
<1>4. CASE r = es /\ wire' = Append(wire, Last(received[r]))
  <2> DEFINE E == 1 .. MaxEvents
             z == Last(received[r])
  <2>1. wire \in Seq(E) /\ z \in E /\ E \subseteq Nat
    BY <1>1, WritesAnEvent DEF LogTypes
  <2>2. /\ z \in Nat /\ z <= Latest(r)
        /\ \A y \in ToSet(chan[r]) : y \in Nat /\ z < y
    BY <1>1, DeliveredIs DEF Live
  <2>3. Before \subseteq Nat
    BY BeforeTypes
  <2>4. /\ \A x \in Before : x < z
        /\ \A x \in Before : x <= Latest(r)
        /\ \A x \in Shown, y \in ToSet(wire) : x < y
        /\ Increasing(wire)
    BY <1>1, <1>4 DEF FlowInv
  <2> HIDE DEF E, z
  <2>5. wire' = Append(wire, z)
    BY <1>4 DEF z
  <2>6. /\ DOMAIN wire' = 1 .. Len(wire) + 1
        /\ ToSet(wire') = ToSet(wire) \cup {z}
        /\ \A i \in 1 .. Len(wire) : wire'[i] = wire[i]
        /\ wire'[Len(wire) + 1] = z
    BY <2>1, <2>5, AppendedElements
  <2>7. DOMAIN wire = 1 .. Len(wire) /\ Len(wire) \in Nat
    BY <2>1, LenProperties
  <2>8. \A i \in DOMAIN wire : wire[i] < z
    BY <2>4 DEF Before, ToSet
  <2>9. Increasing(wire')
    BY <2>4, <2>6, <2>7, <2>8 DEF Increasing
  <2>10. Before' = Before \cup {z}
    BY <1>2, <2>6 DEF Before
  <2>11. Latest(es)' = Latest(r)
    BY <1>1, <1>4 DEF broadcastVars, Latest, Remaining
  <2>12. \A x \in Before' : x <= Latest(es)'
    BY <2>2, <2>4, <2>10, <2>11
  <2>13. \A x \in Before', y \in ToSet(chan[r]) : x < y
    <3> SUFFICES ASSUME NEW x \in Before, NEW y \in ToSet(chan[r]) PROVE x < y
      BY <2>2, <2>10
    <3>1. x \in Nat /\ y \in Nat /\ z \in Nat /\ x < z /\ z < y
      BY <2>2, <2>3, <2>4
    <3> QED
      BY <3>1
  <2>14. \A x \in Shown', y \in ToSet(wire') : x < y
    BY <1>2, <2>4, <2>6 DEF Before
  <2>15. es' = r /\ handler'[r] = "waiting" /\ chan'[r] = chan[r]
    BY <1>1, <1>4
  <2>16. Increasing(wire)'
    BY <2>9 DEF Increasing
  <2> QED
    BY <2>12, <2>13, <2>14, <2>15, <2>16 DEF FlowInv
<1> QED
  BY <1>3, <1>4 DEF WrittenToClient

\* The hook begins a connection anew.
LEMMA ConnectKeepsFlow ==
  ASSUME KeeperInv, LogTypes, FlowInv, Connect, Shown' \subseteq Shown
  PROVE  FlowInv'
<1>1. PICK r \in Requests : Unused(r) /\ ConnectAs(r)
  BY DEF Connect
<1>2. r \notin Remaining
  BY <1>1, UnusedIs
<1>3. /\ es' = r /\ wire' = <<>> /\ UNCHANGED broadcastVars
      /\ handler' = [handler EXCEPT ![r] = "new"]
      /\ handler \in [Requests -> Handlers]
  BY <1>1 DEF ConnectAs, KeeperInv, StreamInv, StreamTypes, StreamTypeOK
<1>4. handler'[r] = "new"
  BY <1>3
<1> QED
  BY <1>2, <1>3, <1>4, FlowRestarts

\* Every step keeps the order of what is on its way.
LEMMA FlowStands ==
  /\ HookInv /\ KeeperInv /\ WaitInv /\ LogTypes /\ FlowInv
  /\ [LiveNext]_liveVars
  => FlowInv'
<1> SUFFICES ASSUME HookInv, KeeperInv, WaitInv, LogTypes, FlowInv,
                    [LiveNext]_liveVars
    PROVE FlowInv'
  OBVIOUS
<1>1. NoRequest \notin Requests /\ NoRequest \notin Remaining
  BY LiveAssumption, LatestIs
<1>2. ASSUME [StreamNext]_streamVars, UNCHANGED <<es, wire>>, Shown' \subseteq Shown
      PROVE  FlowInv'
  <2>1. PICK e : e = es
    OBVIOUS
  <2>2. Latest(e) <= Latest(e)' /\ Latest(e) \in Int /\ Latest(e)' \in Int
    BY <1>2, LatestGrows
  <2>3. e \in Requests =>
          /\ handler'[e] = "waiting" =>
               \A x \in Before, y \in ToSet(chan'[e]) : x < y
          /\ handler'[e] = "writing" => \A x \in Before : x < Last(received'[e])
    BY <1>2, <2>1, StreamKeepsFlow
  <2> QED
    BY <1>2, <2>1, <2>2, <2>3, FlowQuiet
<1>3. CASE Mount
  <2>1. Connect /\ UNCHANGED <<events, visibleLogs>>
    BY <1>3 DEF Mount, heroVars
  <2> QED
    BY <2>1, SameShown, ConnectKeepsFlow
<1>4. CASE TimerFires
  <2>1. UNCHANGED <<events, visibleLogs>>
    BY <1>4 DEF TimerFires, heroVars
  <2>2. CASE Connect
    BY <2>1, <2>2, SameShown, ConnectKeepsFlow
  <2>3. CASE UNCHANGED <<issued, es, opened, wire, streamVars>>
    BY <1>2, <2>1, <2>3, SameShown
  <2> QED
    BY <1>4, <2>2, <2>3 DEF TimerFires
<1>5. CASE Message
  BY <1>5, MessageKeepsFlow
<1>6. CASE Error \/ Unmount
  <2>1. /\ es' = NoRequest /\ wire' = <<>> /\ UNCHANGED <<visibleLogs, streamVars>>
    BY <1>6 DEF Error, Unmount
  <2>2. Shown' \subseteq Shown
    <3>1. CASE Unmount
      <4>1. UNCHANGED <<events, visibleLogs>>
        BY <3>1 DEF Unmount
      <4> QED
        BY <4>1, SameShown
    <3>2. CASE Error
      <4>1. Push(Note) /\ Note = 0 /\ Note \in 0 .. MaxEvents
        BY <3>2, StreamAssumption DEF Error, Note
      <4>2. Last(events') = 0
        BY <4>1, PushTypes
      <4>3. 0 \notin 1 .. MaxEvents
        OBVIOUS
      <4> QED
        BY <2>1, <4>2, <4>3 DEF Shown
    <3> QED
      BY <1>6, <3>1, <3>2
  <2> QED
    BY <1>1, <2>1, <2>2, FlowRestarts DEF streamVars
<1>7. CASE Render \/ Cycle
  <2>1. UNCHANGED <<es, wire, streamVars>>
    BY <1>7 DEF Render, Cycle, clientVars
  <2> QED
    BY <1>2, <1>7, <2>1, HeroShowsNothingNew
<1>8. CASE Open \/ Keeper \/ Break \/ UNCHANGED liveVars
  <2>1. UNCHANGED <<es, wire, events, visibleLogs>>
    BY <1>8 DEF Open, Keeper, Break, liveVars, clientVars, heroVars
  <2>2. [StreamNext]_streamVars
    <3>1. es # NoRequest => es \in Requests
      BY DEF KeeperInv
    <3> QED
      BY <1>8, <3>1 DEF Open, Keeper, Break, liveVars, StreamNext
  <2> QED
    BY <1>2, <2>1, <2>2, SameShown
<1>9. CASE Unreachable
  <2>1. /\ es \in Requests /\ handler' = [handler EXCEPT ![es] = "over"]
        /\ UNCHANGED <<es, wire, events, visibleLogs, broadcastVars>>
    BY <1>9 DEF Unreachable, KeeperInv, heroVars
  <2>2. handler \in [Requests -> Handlers]
    BY DEF KeeperInv, StreamInv, StreamTypes, StreamTypeOK
  <2>3. PICK e \in Requests : e = es
    BY <2>1
  <2>4. handler'[e] = "over"
    BY <2>1, <2>2, <2>3
  <2>5. Latest(e)' = Latest(e)
    BY <2>1 DEF broadcastVars, Latest, Remaining
  <2>6. Latest(e) \in Int
    BY LatestIs
  <2>7. Shown' = Shown
    BY <2>1, SameShown
  <2>8. Latest(e) <= Latest(e)' /\ Latest(e)' \in Int
    BY <2>5, <2>6
  <2> QED
    BY <2>1, <2>3, <2>4, <2>6, <2>7, <2>8, FlowQuiet
<1>10. ASSUME NEW r \in issued, Serve(r) \/ WrittenToClient(r) \/ Closed(r)
       PROVE  FlowInv'
  <2>1. [StreamNext]_streamVars
    <3>1. r \in Requests
      BY DEF KeeperInv
    <3> QED
      BY <1>10, <3>1 DEF Serve, WrittenToClient, Closed, StreamNext
  <2>2. CASE Serve(r) \/ Closed(r)
    <3>1. UNCHANGED <<es, wire, events, visibleLogs>>
      BY <2>2 DEF Serve, Closed, clientVars, heroVars
    <3> QED
      BY <1>2, <2>1, <3>1, SameShown
  <2>3. CASE WrittenToClient(r)
    BY <2>1, <2>3, WriteKeepsFlow
  <2> QED
    BY <1>10, <2>2, <2>3
<1> QED
  BY <1>3, <1>4, <1>5, <1>6, <1>7, <1>8, <1>9, <1>10 DEF LiveNext

\* Render: the latest event comes after all that is shown.
LEMMA RenderKeepsOrder ==
  ASSUME LogTypes, ShownInv, Render PROVE ShownInv'
<1> DEFINE line == Last(events)
           V == visibleLogs
<1>1. /\ dirty /\ dirty' = FALSE /\ cycling' = FALSE /\ Shows(line)
  BY DEF Render
<1>2. line \in 0 .. MaxEvents /\ line \in Lines
  BY <1>1, RenderShows
<1>3. /\ line > 0 => \A i \in DOMAIN V : V[i] < line
      /\ \A i, j \in DOMAIN V : i < j =>
           /\ V[i] > 0 /\ V[j] > 0 => V[i] < V[j]
           /\ V[j] < 0 => V[i] < 0
  BY <1>1 DEF ShownInv, LogInOrder
<1>4. \A i, j \in DOMAIN V' : i < j =>
        \E a \in DOMAIN V :
          /\ V'[i] = V[a]
          /\ V'[j] = line \/ \E b \in DOMAIN V : a < b /\ V'[j] = V[b]
  BY <1>1, <1>2, LinesInOrder
<1>5. line >= 0 /\ ~(line < 0)
  BY <1>2, StreamAssumption
<1> HIDE DEF line, V
<1>6. ASSUME NEW i \in DOMAIN V', NEW j \in DOMAIN V', i < j
      PROVE  /\ V'[i] > 0 /\ V'[j] > 0 => V'[i] < V'[j]
             /\ V'[j] < 0 => V'[i] < 0
  <2>1. PICK a \in DOMAIN V :
          /\ V'[i] = V[a]
          /\ V'[j] = line \/ \E b \in DOMAIN V : a < b /\ V'[j] = V[b]
    BY <1>4, <1>6
  <2>2. CASE V'[j] = line
    BY <1>3, <1>5, <2>1, <2>2
  <2>3. CASE \E b \in DOMAIN V : a < b /\ V'[j] = V[b]
    BY <1>3, <2>1, <2>3
  <2> QED
    BY <2>1, <2>2, <2>3
<1> QED
  BY <1>1, <1>6 DEF ShownInv, LogInOrder, V

\* Cycle: as long as static lines are cycled, nothing else is shown.
LEMMA CycleKeepsOrder ==
  ASSUME LogTypes, ShownInv, Cycle PROVE ShownInv'
<1> DEFINE line == Static(staticIdx')
           V == visibleLogs
<1>1. /\ cycling /\ UNCHANGED <<events, dirty, cycling>> /\ Shows(line)
  BY DEF Cycle, Cycling
<1>2. line \in Lines /\ line < 0
  BY CycleShows
<1>3. /\ \A i \in DOMAIN V : V[i] < 0
      /\ dirty /\ Last(events) > 0 => \A i \in DOMAIN V : V[i] < Last(events)
  BY <1>1 DEF ShownInv
<1>4. \A i \in DOMAIN V' : V'[i] = line \/ \E a \in DOMAIN V : V'[i] = V[a]
  BY <1>1, <1>2, LinesInOrder
<1>5. line \in Int /\ \A i \in DOMAIN V : V[i] \in Int
  <2>1. Lines \subseteq Int
    BY LiveAssumption, StreamAssumption DEF Lines
  <2> QED
    BY <1>2, <2>1, BeforeTypes
<1>6. dirty => Last(events) \in Int
  BY RenderShows, StreamAssumption
<1> HIDE DEF line, V
<1>7. \A i \in DOMAIN V' : V'[i] \in Int /\ V'[i] < 0
  BY <1>2, <1>3, <1>4, <1>5
<1>8. \A i \in DOMAIN V' : ~(V'[i] > 0)
  BY <1>7
<1>9. dirty /\ Last(events) > 0 => \A i \in DOMAIN V' : V'[i] < Last(events)
  BY <1>6, <1>7
<1>10. dirty' /\ Last(events') > 0 => \A i \in DOMAIN V' : V'[i] < Last(events')
  BY <1>1, <1>9
<1> QED
  BY <1>7, <1>8, <1>10 DEF ShownInv, LogInOrder, V

\* Every step keeps the order of what is shown.
LEMMA ShownStands ==
  KeeperInv /\ LogTypes /\ FlowInv /\ ShownInv /\ [LiveNext]_liveVars => ShownInv'
<1> SUFFICES ASSUME KeeperInv, LogTypes, FlowInv, ShownInv, [LiveNext]_liveVars
    PROVE ShownInv'
  OBVIOUS
<1>1. CASE UNCHANGED <<events, dirty, cycling, visibleLogs>>
  BY <1>1 DEF ShownInv, LogInOrder
<1>2. CASE Message
  <2>1. UNCHANGED <<cycling, visibleLogs>>
    BY <1>2 DEF Message
  <2>2. \A i \in DOMAIN visibleLogs : visibleLogs[i] < Last(events')
    BY <1>2, MessageKeepsFlow
  <2> QED
    BY <2>1, <2>2 DEF ShownInv, LogInOrder
<1>3. CASE Error
  <2>1. Push(Note) /\ Note = 0 /\ Note \in 0 .. MaxEvents
        /\ UNCHANGED <<cycling, visibleLogs>>
    BY <1>3, StreamAssumption DEF Error, Note
  <2>2. Last(events') = 0
    BY <2>1, PushTypes
  <2> QED
    BY <2>1, <2>2 DEF ShownInv, LogInOrder
<1>4. CASE Render
  BY <1>4, RenderKeepsOrder
<1>5. CASE Cycle
  BY <1>5, CycleKeepsOrder
<1>6. CASE \/ Mount \/ Open \/ TimerFires \/ Unmount \/ Keeper \/ Break
           \/ Unreachable \/ UNCHANGED liveVars
  BY <1>1, <1>6 DEF Mount, Open, TimerFires, Unmount, Keeper, Break,
                    Unreachable, liveVars, heroVars
<1>7. CASE \E r \in issued : Serve(r) \/ WrittenToClient(r) \/ Closed(r)
  BY <1>1, <1>7 DEF Serve, WrittenToClient, Closed, heroVars
<1> QED
  BY <1>2, <1>3, <1>4, <1>5, <1>6, <1>7 DEF LiveNext

\* At first there is one static line, and no event.
LEMMA OrderInit == LiveInit => FlowInv /\ ShownInv
<1> SUFFICES ASSUME LiveInit PROVE FlowInv /\ ShownInv
  OBVIOUS
<1>1. /\ es = NoRequest /\ wire = <<>> /\ events = <<>> /\ dirty = FALSE
      /\ visibleLogs = <<Static(0)>>
  BY DEF LiveInit
<1>2. /\ DOMAIN visibleLogs = {1} /\ visibleLogs[1] = -1
  BY <1>1 DEF Static
<1>3. ToSet(visibleLogs) = {-1} /\ ToSet(wire) = {}
  BY <1>1, <1>2 DEF ToSet
<1>4. Shown = {} /\ Before = {}
  BY <1>1, <1>3 DEF Shown, Before
<1>5. FlowInv
  BY <1>1, <1>3, <1>4, LiveAssumption DEF FlowInv, Increasing
<1>6. ShownInv
  BY <1>1, <1>2 DEF ShownInv, LogInOrder
<1> QED
  BY <1>5, <1>6

\* useSSEEvents, Hero: whatever the keeper, the network and the visitor do,
\* and however often the page connects again, the log shows the keeper's
\* events in the order in which they happened, none twice, and no static line
\* after the first live one.
THEOREM LogIsInOrder == LiveSpec => []LogInOrder
<1>1. ShownInv => LogInOrder
  BY DEF ShownInv
<1> QED
  BY <1>1, HookInit, HookPreserves, KeeperInit, KeeperStands, WaitInit,
     WaitStands, LogTypesInit, LogTypesStand, OrderInit, FlowStands,
     ShownStands, PTL DEF LiveSpec
=============================================================================
