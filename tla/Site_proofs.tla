---------------------------- MODULE Site_proofs -----------------------------
(***************************************************************************)
(* The pages leave no interval behind, and set the registry's answers for  *)
(* the keepers on the screen only; each row of the table of keepers adds   *)
(* up.  For any keepers, reports and records.                              *)
(***************************************************************************)
EXTENDS Site, SequenceTheorems, TLAPS

\* What the two properties rest on.
Pages == {"home", "performance", "none"}

IInv ==
  /\ page \in Pages
  /\ OneIntervalEach
  /\ data \in Reports \cup {Null}
  /\ chainKeepers \in [Keepers -> KeeperRecords \cup {Null}]

LEMMA OthersKeep ==
  ASSUME IInv, UNCHANGED <<page, intervals, data, chainKeepers>>
  PROVE  IInv'
BY DEF IInv, OneIntervalEach

\* refreshChain sets records only, and no record where there is no answer.
LEMMA SetChainTypes ==
  ASSUME NEW list, SetChain(list),
         chainKeepers \in [Keepers -> KeeperRecords \cup {Null}]
  PROVE  chainKeepers' \in [Keepers -> KeeperRecords \cup {Null}]
<1>1. PICK answer \in [list -> KeeperRecords \cup {Null}] :
        \/ chainKeepers' =
             [k \in Keepers |-> IF k \in list THEN answer[k] ELSE Null]
        \/ UNCHANGED chainKeepers
  BY DEF SetChain
<1> QED
  BY <1>1

\* A change of the page clears and sets the intervals of its effects.
LEMMA OpenPreserves ==
  ASSUME IInv, NEW p \in Pages, Open(p)
  PROVE  IInv'
<1>1. /\ page \in Pages /\ page # p /\ page' = p
      /\ intervals = [c \in Components |-> IF c \in Of(page) THEN 1 ELSE 0]
      /\ intervals' = [c \in Components |->
           (IF c \in Of(page) THEN intervals[c] - 1 ELSE intervals[c])
             + IF c \in Of(p) THEN 1 ELSE 0]
  BY DEF IInv, OneIntervalEach, Open, ClearedInterval
<1>2. \A c \in Components :
        (IF c \in Of(page) THEN intervals[c] - 1 ELSE intervals[c]) = 0
  BY <1>1
<1>3. intervals' = [c \in Components |-> IF c \in Of(p) THEN 1 ELSE 0]
  <2>1. \A c \in Components :
          (IF c \in Of(page) THEN intervals[c] - 1 ELSE intervals[c])
             + (IF c \in Of(p) THEN 1 ELSE 0) = IF c \in Of(p) THEN 1 ELSE 0
    BY <1>2
  <2> QED
    BY <1>1, <2>1
<1>4. /\ data' \in Reports \cup {Null}
      /\ chainKeepers' \in [Keepers -> KeeperRecords \cup {Null}]
  BY DEF Open, DashMounted, DashGone, Dash
<1> QED
  BY <1>1, <1>3, <1>4 DEF IInv, OneIntervalEach

LEMMA RenderPreserves == ASSUME IInv, Render PROVE IInv'
<1>1. /\ page = "performance" /\ UNCHANGED <<page, data, chainKeepers>>
      /\ \/ UNCHANGED intervals
         \/ intervals' = [intervals EXCEPT !["chain"] = @ - 1 + 1]
  BY DEF Render, ClearedInterval, homeVars
<1>2. /\ intervals = [c \in Components |-> IF c \in Of(page) THEN 1 ELSE 0]
      /\ "chain" \in Of(page) /\ "chain" \in Components
  BY <1>1 DEF IInv, OneIntervalEach, Of, Components
<1>3. intervals["chain"] - 1 + 1 = intervals["chain"]
  BY <1>2
<1>4. intervals' = intervals
  BY <1>1, <1>2, <1>3
<1> QED
  BY <1>1, <1>4, OthersKeep

LEMMA StepPreserves == IInv /\ [SiteNext]_siteVars => IInv'
<1> SUFFICES ASSUME IInv, [SiteNext]_siteVars PROVE IInv'
  OBVIOUS
<1>1. CASE \E p \in Pages : Open(p)
  BY <1>1, OpenPreserves
<1>2. CASE \/ \E c \in Of(page) : Tick(c)
           \/ FeedAnswered \/ RegistryAnswered \/ ChainTick
  BY <1>2, OthersKeep
     DEF Tick, FeedAnswered, RegistryAnswered, ChainTick, dashVars
<1>3. CASE PollAnswered
  <2>1. data' \in Reports \cup {Null} /\ UNCHANGED <<page, intervals, chainKeepers>>
    BY <1>3 DEF PollAnswered, IInv
  <2> QED
    BY <2>1 DEF IInv, OneIntervalEach
<1>4. CASE Render
  BY <1>4, RenderPreserves
<1>5. CASE ChainAnswered
  <2>1. UNCHANGED <<page, intervals, data>> /\ \E list : SetChain(list)
    BY <1>5 DEF ChainAnswered
  <2> QED
    BY <2>1, SetChainTypes DEF IInv, OneIntervalEach
<1>6. CASE CancelledAnswered
  BY <1>6, OthersKeep DEF CancelledAnswered, IfCancelled
<1>7. CASE UNCHANGED siteVars
  BY <1>7, OthersKeep DEF siteVars, dashVars
<1> QED
  BY <1>1, <1>2, <1>3, <1>4, <1>5, <1>6, <1>7 DEF SiteNext, Pages

LEMMA InitEstablishes == SiteInit => IInv
<1> SUFFICES ASSUME SiteInit PROVE IInv
  OBVIOUS
<1>1. /\ page = "none" /\ intervals = [c \in Components |-> 0] /\ data = Null
      /\ chainKeepers = [k \in Keepers |-> Null]
  BY DEF SiteInit
<1>2. \A c \in Components : c \notin Of(page)
  BY <1>1 DEF Of
<1> QED
  BY <1>1, <1>2 DEF IInv, OneIntervalEach, Pages

-----------------------------------------------------------------------------
\* The cleanups: no page leaves an interval behind, and no render adds one.
THEOREM NoIntervalLeaks == SiteSpec => []OneIntervalEach
<1>1. IInv => OneIntervalEach
  BY DEF IInv
<1> QED
  BY <1>1, InitEstablishes, StepPreserves, PTL DEF SiteSpec

\* Each keeper on the screen has a stat that adds up.
LEMMA StatsShown ==
  ASSUME IInv, NEW k \in DOMAIN Stats(data)
  PROVE  k \in Keepers /\ StatsAddUp(Stats(data)[k])
<1> DEFINE stats == IF HasLiveData(data) THEN data.stats ELSE <<>>
<1>1. /\ DOMAIN Stats(data) = Demo \cup DOMAIN stats
      /\ Stats(data)[k] = IF k \in DOMAIN stats THEN stats[k] ELSE DemoStat
  BY DEF Stats
<1>2. CASE k \in DOMAIN stats
  <2>1. HasLiveData(data)
    BY <1>2
  <2>2. data \in Reports /\ stats = data.stats
    BY <2>1 DEF IInv, HasLiveData
  <2> QED
    BY <1>1, <1>2, <2>2, SiteAssumption DEF Keepers
<1>3. CASE k \notin DOMAIN stats
  BY <1>1, <1>3, SiteAssumption DEF Keepers
<1> QED
  BY <1>2, <1>3

\* The table of keepers: whichever of its sources a row is taken from, its
\* fills are not more than its executions, and its rate is at most 1.
THEOREM EveryRowAddsUp == SiteSpec => []RowsAddUp
<1>1. IInv => RowsAddUp
  <2> SUFFICES ASSUME IInv, NEW k \in DOMAIN Dashboard.keepers
               PROVE  LET row == Dashboard.keepers[k]
                      IN  /\ row.fills <= row.executions
                          /\ row.rate[1] <= row.rate[2]
    BY DEF RowsAddUp
  <2>1. k \in DOMAIN Stats(data) /\ Dashboard.keepers[k] = KeeperRow(k)
    BY DEF Dashboard
  <2>2. k \in Keepers /\ StatsAddUp(Stats(data)[k])
    BY <2>1, StatsShown
  <2>3. chainKeepers[k] \in KeeperRecords \cup {Null}
    BY <2>2 DEF IInv
  <2>4. Executions(k) \in Nat /\ Fills(k) \in 0 .. Executions(k)
    <3>1. CASE chainKeepers[k] # Null
      BY <2>3, <3>1, SiteAssumption DEF Executions, Fills
    <3>2. CASE chainKeepers[k] = Null
      BY <2>2, <3>2 DEF Executions, Fills, StatsAddUp
    <3> QED
      BY <3>1, <3>2
  <2>5. LET rate == SuccessRate(Executions(k), Fills(k)) IN rate[1] <= rate[2]
    BY <2>4 DEF SuccessRate
  <2> QED
    BY <2>1, <2>4, <2>5 DEF KeeperRow
<1> QED
  BY <1>1, InitEstablishes, StepPreserves, PTL DEF SiteSpec

-----------------------------------------------------------------------------
\* What the types and the last property rest on: the keepers that a
\* refresh in flight has asked for are those on the screen, because a page that
\* has rendered a keeper's data does not go back to the demo's.
FeedInv ==
  /\ position \in Factors \cup 7 .. MaxFactor
  /\ reported \in Factors \cup {Null} /\ feedLive = (reported # Null)
  /\ demoKeepers \in BOOLEAN
  /\ fetches \in [Components -> 0 .. MaxFetches]

DashInv ==
  /\ rendered \in Reports \cup {Null}
  /\ live \in BOOLEAN /\ dirty \in BOOLEAN
  /\ HasLiveData(rendered) => HasLiveData(data)

QueueInv ==
  /\ refreshes \in Seq({DOMAIN Stats(rendered)})
  /\ cancelled \in Seq(SUBSET Keepers)
  /\ Len(refreshes) + Len(cancelled) <= MaxFetches

PagesInv == IInv /\ FeedInv /\ DashInv /\ QueueInv

LEMMA StatsAreKeepers ==
  ASSUME NEW d \in Reports \cup {Null}
  PROVE  DOMAIN Stats(d) \in SUBSET Keepers
<1> DEFINE stats == IF HasLiveData(d) THEN d.stats ELSE <<>>
<1>1. DOMAIN Stats(d) = Demo \cup DOMAIN stats
  BY DEF Stats
<1>2. CASE HasLiveData(d)
  BY <1>1, <1>2 DEF HasLiveData, Keepers
<1>3. CASE ~HasLiveData(d)
  BY <1>1, <1>3 DEF Keepers
<1> QED
  BY <1>2, <1>3

\* Without a keeper's data the table shows the demo's keepers.
LEMMA StatsOfDemo ==
  ASSUME NEW d, NEW e, ~HasLiveData(d), ~HasLiveData(e)
  PROVE  DOMAIN Stats(d) = DOMAIN Stats(e)
BY DEF Stats

\* A request more, or an answer less, stays within the bounds.
LEMMA FetchesBounded ==
  ASSUME fetches \in [Components -> 0 .. MaxFetches], NEW c \in Components,
         AskMore(c) \/ Answered(c)
  PROVE  fetches' \in [Components -> 0 .. MaxFetches]
<1>1. MaxFetches \in Nat /\ fetches[c] \in 0 .. MaxFetches
  BY SiteAssumption
<1>2. CASE AskMore(c)
  <2>1. fetches[c] + 1 \in 0 .. MaxFetches
    BY <1>1, <1>2 DEF AskMore
  <2> QED
    BY <1>2, <2>1 DEF AskMore
<1>3. CASE Answered(c)
  <2>1. fetches[c] - 1 \in 0 .. MaxFetches
    BY <1>1, <1>3 DEF Answered
  <2> QED
    BY <1>3, <2>1 DEF Answered
<1> QED
  BY <1>2, <1>3

\* The home page: the feed is live from the first position that the API returns.
LEMMA FeedStep == ASSUME FeedInv, IInv, SiteNext PROVE FeedInv'
<1>1. CASE \E p \in Pages : Open(p)
  <2>1. PICK p \in Pages : Open(p)
    BY <1>1
  <2>2. /\ position' = 18 /\ reported' = Null /\ feedLive' = FALSE
        /\ demoKeepers' = TRUE
        /\ fetches' = [c \in Components |->
                         IF c \in Of(p) \ {"chain"} THEN 1 ELSE 0]
    BY <2>1 DEF Open, HomeMounted
  <2>3. 18 \in 7 .. MaxFactor /\ 0 \in 0 .. MaxFetches /\ 1 \in 0 .. MaxFetches
    BY SiteAssumption
  <2> QED
    BY <2>2, <2>3 DEF FeedInv
<1>2. CASE \E c \in Of(page) : Tick(c)
  <2>1. PICK c \in Of(page) : Tick(c)
    BY <1>2
  <2>2. c \in Components /\ AskMore(c) /\ UNCHANGED homeVars
    BY <2>1 DEF Tick, IInv, Pages, Of, Components
  <2> QED
    BY <2>2, FetchesBounded DEF FeedInv, homeVars
<1>3. CASE FeedAnswered
  <2>1. /\ Answered("feed") /\ "feed" \in Components
        /\ UNCHANGED demoKeepers
    BY <1>3 DEF FeedAnswered, Components
  <2>2. CASE \E hf \in Factors : /\ position' = hf /\ reported' = hf
                                 /\ feedLive' = TRUE
    BY <2>1, <2>2, FetchesBounded, SiteAssumption DEF FeedInv
  <2>3. CASE FeedWithout(position)
    <3>1. /\ position' \in Drifted(position)
          /\ UNCHANGED <<feedLive, reported>>
      BY <2>3 DEF FeedWithout
    <3>2. position \in Nat
      BY SiteAssumption DEF FeedInv
    <3>3. position' \in 7 .. MaxFactor
      BY <3>1, <3>2, SiteAssumption DEF Drifted
    <3> QED
      BY <2>1, <3>1, <3>3, FetchesBounded DEF FeedInv
  <2> QED
    BY <1>3, <2>2, <2>3 DEF FeedAnswered
<1>4. CASE RegistryAnswered
  <2>1. /\ Answered("registry") /\ "registry" \in Components
        /\ demoKeepers' \in {demoKeepers, FALSE}
        /\ UNCHANGED <<position, feedLive, reported>>
    BY <1>4 DEF RegistryAnswered, Components
  <2> QED
    BY <2>1, FetchesBounded DEF FeedInv
<1>5. CASE PollAnswered
  <2>1. Answered("poll") /\ "poll" \in Components /\ UNCHANGED homeVars
    BY <1>5 DEF PollAnswered, Components
  <2> QED
    BY <2>1, FetchesBounded DEF FeedInv, homeVars
<1>6. CASE Render \/ ChainTick \/ ChainAnswered \/ CancelledAnswered
  <2>1. UNCHANGED <<fetches, homeVars>>
    BY <1>6 DEF Render, ChainTick, ChainAnswered, CancelledAnswered
  <2> QED
    BY <2>1 DEF FeedInv, homeVars
<1> QED
  BY <1>1, <1>2, <1>3, <1>4, <1>5, <1>6 DEF SiteNext, Pages

\* The performance page: it never goes back from a keeper's data to the demo's.
LEMMA DashStep == ASSUME DashInv, IInv, SiteNext PROVE DashInv'
<1>1. CASE \E p \in Pages : Open(p)
  <2>1. PICK p \in Pages : Open(p)
    BY <1>1
  <2>2. /\ \E r \in Reports \cup {Null} :
             data' = r /\ rendered' = r /\ live' = (r # Null)
        /\ dirty' = FALSE
    BY <2>1 DEF Open, DashMounted, DashGone, Dash
  <2> QED
    BY <2>2 DEF DashInv
<1>2. CASE PollAnswered
  <2>1. PICK r \in Reports \cup {Null} :
          /\ data' = IF Fresh(r) THEN r ELSE data
          /\ live' = Fresh(r)
          /\ dirty' = (dirty \/ Fresh(r) \/ live)
    BY <1>2 DEF PollAnswered
  <2>2. Fresh(r) \in BOOLEAN /\ Fresh(r) = HasLiveData(r)
    BY SiteAssumption DEF Fresh, HasLiveData
  <2>3. rendered' = rendered
    BY <1>2 DEF PollAnswered
  <2>4. live' \in BOOLEAN /\ dirty' \in BOOLEAN
    BY <2>1, <2>2 DEF DashInv
  <2>5. HasLiveData(data)' <=> HasLiveData(data')
    BY DEF HasLiveData
  <2>6. HasLiveData(rendered)' <=> HasLiveData(rendered)
    BY <2>3 DEF HasLiveData
  <2> QED
    BY <2>1, <2>2, <2>3, <2>4, <2>5, <2>6 DEF DashInv
<1>3. CASE Render
  <2>1. /\ rendered' = data /\ dirty' = FALSE
        /\ UNCHANGED <<data, live>>
    BY <1>3 DEF Render
  <2> QED
    BY <2>1 DEF DashInv, IInv, HasLiveData
<1>4. CASE ChainAnswered
  <2>1. /\ UNCHANGED <<data, live, rendered>>
        /\ \E list : SetChain(list)
    BY <1>4 DEF ChainAnswered
  <2>2. dirty' = TRUE \/ dirty' = dirty
    BY <2>1 DEF SetChain
  <2> QED
    BY <2>1, <2>2 DEF DashInv, HasLiveData
<1>5. CASE \/ \E c \in Of(page) : Tick(c)
           \/ FeedAnswered \/ RegistryAnswered \/ ChainTick \/ CancelledAnswered
  <2>1. UNCHANGED <<data, live, rendered, dirty>>
    BY <1>5 DEF Tick, FeedAnswered, RegistryAnswered, ChainTick,
                CancelledAnswered, IfCancelled, dashVars
  <2> QED
    BY <2>1 DEF DashInv, HasLiveData
<1> QED
  BY <1>1, <1>2, <1>3, <1>4, <1>5 DEF SiteNext, Pages

LEMMA WithoutOne ==
  ASSUME NEW S, NEW list \in Seq(S), NEW i \in DOMAIN list
  PROVE  Without(list, i) \in Seq(S) /\ Len(Without(list, i)) = Len(list) - 1
<1> DEFINE u == SubSeq(list, 1, i - 1)
           v == SubSeq(list, i + 1, Len(list))
<1>1. Len(list) \in Nat /\ i \in 1 .. Len(list)
  BY LenProperties
<1>2. \A j \in 1 .. Len(list) : list[j] \in S
  BY <1>1
<1>3. u \in Seq(S) /\ Len(u) = i - 1
  <2>1. 1 \in Int /\ i - 1 \in Int /\ \A j \in 1 .. i - 1 : list[j] \in S
    BY <1>1, <1>2
  <2>2. Len(u) = IF 1 <= i - 1 THEN (i - 1) - 1 + 1 ELSE 0
    BY <2>1, SubSeqProperties
  <2> QED
    BY <1>1, <2>1, <2>2, SubSeqProperties
<1>4. v \in Seq(S) /\ Len(v) = Len(list) - i
  <2>1. /\ i + 1 \in Int /\ Len(list) \in Int
        /\ \A j \in i + 1 .. Len(list) : list[j] \in S
    BY <1>1, <1>2
  <2>2. Len(v) = IF i + 1 <= Len(list) THEN Len(list) - (i + 1) + 1 ELSE 0
    BY <2>1, SubSeqProperties
  <2> QED
    BY <1>1, <2>1, <2>2, SubSeqProperties
<1> HIDE DEF u, v
<1>5. u \o v \in Seq(S) /\ Len(u \o v) = Len(u) + Len(v)
  BY <1>3, <1>4, ConcatProperties
<1>6. Without(list, i) = u \o v
  BY DEF Without, u, v
<1> QED
  BY <1>1, <1>3, <1>4, <1>5, <1>6

\* A list of what is on the screen is a list of keepers.
LEMMA QueueTypes ==
  ASSUME IInv, DashInv, QueueInv
  PROVE  /\ DOMAIN Stats(rendered) \in SUBSET Keepers
         /\ refreshes \in Seq(SUBSET Keepers)
         /\ InFlight \in Seq(SUBSET Keepers)
         /\ Len(refreshes) \in Nat /\ Len(cancelled) \in Nat
         /\ Len(InFlight) = Len(refreshes) + Len(cancelled)
<1>1. DOMAIN Stats(rendered) \in SUBSET Keepers
  BY StatsAreKeepers DEF DashInv
<1>2. refreshes \in Seq(SUBSET Keepers)
  <2>1. \A i \in 1 .. Len(refreshes) : refreshes[i] \in {DOMAIN Stats(rendered)}
    BY DEF QueueInv
  <2> QED
    BY <1>1, <2>1 DEF QueueInv
<1> QED
  BY <1>1, <1>2, ConcatProperties, LenProperties DEF QueueInv, InFlight

\* refreshChain and its effect: every refresh that is not cancelled has asked
\* for the keepers on the screen.
LEMMA QueueStep ==
  ASSUME IInv, DashInv, QueueInv, SiteNext
  PROVE  QueueInv'
<1> DEFINE shown == DOMAIN Stats(rendered)
<1>0. MaxFetches \in Nat \ {0}
  BY SiteAssumption
<1>1. CASE \E p \in Pages : Open(p)
  <2>1. /\ \/ \E r \in Reports \cup {Null} :
                rendered' = r /\ refreshes' = <<DOMAIN Stats(r)>>
           \/ refreshes' = <<>>
        /\ cancelled' = <<>>
    BY <1>1 DEF Open, DashMounted, DashGone, Dash
  <2>2. /\ refreshes' \in Seq({DOMAIN Stats(rendered')})
        /\ Len(refreshes') <= 1
    <3>1. CASE refreshes' = <<>>
      BY <3>1
    <3>2. ASSUME NEW r, rendered' = r, refreshes' = <<DOMAIN Stats(r)>>
          PROVE  /\ refreshes' \in Seq({DOMAIN Stats(rendered')})
                 /\ Len(refreshes') <= 1
      <4> DEFINE list == DOMAIN Stats(rendered')
      <4>1. refreshes' = <<list>>
        BY <3>2
      <4> HIDE DEF list
      <4> QED
        BY <4>1 DEF list
    <3> QED
      BY <2>1, <3>1, <3>2
  <2>3. Len(cancelled') = 0 /\ cancelled' \in Seq(SUBSET Keepers)
    BY <2>1, EmptySeq
  <2>4. Len(refreshes') \in Nat
    BY <2>2, LenProperties
  <2> QED
    BY <1>0, <2>2, <2>3, <2>4 DEF QueueInv, Stats, HasLiveData
<1>2. CASE Render
  <2>1. rendered' = data
    BY <1>2 DEF Render
  <2>2. CASE HasLiveData(data)
    <3>1. /\ cancelled' = InFlight
          /\ Len(<<>>) + Len(cancelled') < MaxFetches
          /\ refreshes' = Append(<<>>, DOMAIN Stats(data))
      BY <1>2, <2>2 DEF Render, AskChain
    <3>2. refreshes' \in Seq({DOMAIN Stats(rendered')}) /\ Len(refreshes') = 1
      BY <2>1, <3>1
    <3>3. Len(cancelled') \in Nat
      BY <3>1, QueueTypes
    <3>4. Len(refreshes') + Len(cancelled') <= MaxFetches
      BY <1>0, <3>1, <3>2, <3>3, EmptySeq
    <3>5. cancelled' \in Seq(SUBSET Keepers)
      BY <3>1, QueueTypes
    <3> QED
      BY <3>2, <3>4, <3>5 DEF QueueInv, Stats, HasLiveData
  <2>3. CASE ~HasLiveData(data)
    <3>1. UNCHANGED <<refreshes, cancelled>>
      BY <1>2, <2>3 DEF Render
    <3>2. ~HasLiveData(rendered)
      BY <2>3 DEF DashInv
    <3>3. DOMAIN Stats(data) = shown
      BY <2>3, <3>2, StatsOfDemo
    <3>4. DOMAIN Stats(rendered') = shown
      BY <2>1, <3>3
    <3>5. DOMAIN Stats(rendered)' = DOMAIN Stats(rendered')
      BY DEF Stats, HasLiveData
    <3> HIDE DEF shown
    <3> QED
      BY <3>1, <3>4, <3>5 DEF QueueInv, shown
  <2> QED
    BY <2>2, <2>3
<1>3. CASE UNCHANGED rendered /\ (ChainTick \/ ChainAnswered)
  <2>1. \/ /\ Len(refreshes) + Len(cancelled) < MaxFetches
           /\ refreshes' = Append(refreshes, shown)
        \/ \E i \in DOMAIN refreshes : refreshes' = Without(refreshes, i)
    BY <1>3 DEF ChainTick, AskChain, ChainAnswered
  <2>2. cancelled' = cancelled /\ Len(cancelled) \in Nat
    BY <1>3, LenProperties DEF ChainTick, ChainAnswered, QueueInv
  <2>3. DOMAIN Stats(rendered)' = shown
    BY <1>3 DEF Stats, HasLiveData
  <2>4. refreshes \in Seq({shown})
    BY DEF QueueInv
  <2> HIDE DEF shown
  <2>5. /\ refreshes' \in Seq({shown})
        /\ Len(refreshes') + Len(cancelled) <= MaxFetches
    <3>1. Len(refreshes) \in Nat /\ Len(refreshes) + Len(cancelled) <= MaxFetches
      BY <2>4, LenProperties DEF QueueInv
    <3>2. CASE \E i \in DOMAIN refreshes : refreshes' = Without(refreshes, i)
      <4>1. refreshes' \in Seq({shown}) /\ Len(refreshes') = Len(refreshes) - 1
        BY <2>4, <3>2, WithoutOne
      <4> QED
        BY <1>0, <2>2, <3>1, <4>1
    <3>3. CASE /\ Len(refreshes) + Len(cancelled) < MaxFetches
               /\ refreshes' = Append(refreshes, shown)
      <4>1. refreshes' \in Seq({shown}) /\ Len(refreshes') = Len(refreshes) + 1
        BY <2>4, <3>3, AppendProperties
      <4> QED
        BY <1>0, <2>2, <3>1, <3>3, <4>1
    <3> QED
      BY <2>1, <3>2, <3>3 DEF shown
  <2> QED
    BY <2>2, <2>3, <2>5 DEF QueueInv
<1>4. CASE CancelledAnswered
  <2>1. PICK i \in DOMAIN cancelled : cancelled' = Without(cancelled, i)
    BY <1>4 DEF CancelledAnswered
  <2>2. UNCHANGED <<refreshes, rendered>>
    BY <1>4 DEF CancelledAnswered
  <2>3. cancelled' \in Seq(SUBSET Keepers) /\ Len(cancelled') = Len(cancelled) - 1
    BY <2>1, WithoutOne DEF QueueInv
  <2>4. Len(refreshes) + Len(cancelled') <= MaxFetches
    BY <1>0, <2>3, QueueTypes DEF QueueInv
  <2>5. DOMAIN Stats(rendered)' = shown
    BY <2>2 DEF Stats, HasLiveData
  <2> HIDE DEF shown
  <2> QED
    BY <2>2, <2>3, <2>4, <2>5 DEF QueueInv, shown
<1>5. CASE \/ \E c \in Of(page) : Tick(c)
           \/ FeedAnswered \/ RegistryAnswered \/ PollAnswered
  <2>1. UNCHANGED <<refreshes, cancelled, rendered>>
    BY <1>5 DEF Tick, FeedAnswered, RegistryAnswered, PollAnswered, dashVars
  <2> QED
    BY <2>1 DEF QueueInv, Stats, HasLiveData
<1>6. ChainTick \/ ChainAnswered => UNCHANGED rendered
  BY DEF ChainTick, ChainAnswered
<1> QED
  BY <1>1, <1>2, <1>3, <1>4, <1>5, <1>6 DEF SiteNext, Pages

LEMMA PagesStand == SiteSpec => []PagesInv
<1>1. SiteInit => PagesInv
  <2> SUFFICES ASSUME SiteInit PROVE PagesInv
    OBVIOUS
  <2>1. 18 \in 7 .. MaxFactor /\ 0 \in 0 .. MaxFetches
    BY SiteAssumption
  <2>2. FeedInv
    BY <2>1 DEF SiteInit, HomeInit, FeedInv
  <2>3. DashInv
    BY DEF SiteInit, DashInv, HasLiveData
  <2>4. QueueInv
    BY SiteAssumption DEF SiteInit, QueueInv
  <2> QED
    BY <2>2, <2>3, <2>4, InitEstablishes DEF PagesInv
<1>2. PagesInv /\ [SiteNext]_siteVars => PagesInv'
  <2> SUFFICES ASSUME PagesInv, [SiteNext]_siteVars PROVE PagesInv'
    OBVIOUS
  <2>1. CASE SiteNext
    BY <2>1, StepPreserves, FeedStep, DashStep, QueueStep DEF PagesInv
  <2>2. CASE UNCHANGED siteVars
    BY <2>2 DEF siteVars, homeVars, dashVars, PagesInv, IInv, OneIntervalEach,
                FeedInv, DashInv, QueueInv, Stats, HasLiveData
  <2> QED
    BY <2>1, <2>2
<1> QED
  BY <1>1, <1>2, PTL DEF SiteSpec

-----------------------------------------------------------------------------
\* The state of the three components that poll has its types, the position its
\* limits, and no component has more requests in flight than the bound.
THEOREM SiteTypes == SiteSpec => []SiteTypeOK
<1>1. PagesInv => SiteTypeOK
  <2> SUFFICES ASSUME PagesInv PROVE SiteTypeOK
    OBVIOUS
  <2>1. intervals \in [Components -> Nat]
    BY DEF PagesInv, IInv, OneIntervalEach
  <2>2. InFlight \in Seq(SUBSET Keepers) /\ Len(InFlight) <= MaxFetches
    BY QueueTypes DEF PagesInv, QueueInv
  <2>3. /\ Feed.label \in {"LIQUIDATABLE", "AT RISK", "healthy"}
        /\ Dashboard.heading \in {"LIVE", "TESTNET"}
    BY DEF Feed, Label, Dashboard
  <2>4. ASSUME NEW k \in DOMAIN Dashboard.keepers
        PROVE  Dashboard.keepers[k].draw \in BOOLEAN
    <3>1. /\ k \in DOMAIN Stats(data)
          /\ Dashboard.keepers[k].draw = ActiveDraw(k)
      BY DEF Dashboard, KeeperRow
    <3>2. k \in Keepers /\ StatsAddUp(Stats(data)[k])
      BY <3>1, StatsShown DEF PagesInv
    <3>3. chainKeepers[k] \in KeeperRecords \cup {Null}
      BY <3>2 DEF PagesInv, IInv
    <3>4. ActiveDraw(k) \in BOOLEAN
      BY <3>2, <3>3, SiteAssumption DEF ActiveDraw, StatsAddUp
    <3> QED
      BY <3>1, <3>4
  <2> QED
    BY <2>1, <2>2, <2>3, <2>4 DEF PagesInv, IInv, FeedInv, DashInv, SiteTypeOK, Pages
<1> QED
  BY <1>1, PagesStand, PTL

\* refreshChain: what is set are the answers of the keepers on the screen, in
\* whatever order the refreshes of earlier lists are answered.
THEOREM OnlyWhatIsShownIsSet == SiteSpec => AskedForWhatIsShown
<1>1. PagesInv /\ [SiteNext]_siteVars =>
        [page' = page /\ chainKeepers' # chainKeepers =>
           asked' = DOMAIN Stats(rendered)]_siteVars
  <2> SUFFICES ASSUME PagesInv, SiteNext, page' = page,
                      chainKeepers' # chainKeepers
               PROVE  asked' = DOMAIN Stats(rendered)
    BY DEF siteVars, dashVars
  <2>1. ChainAnswered
    BY DEF SiteNext, Open, Tick, FeedAnswered, RegistryAnswered, PollAnswered,
           Render, ChainTick, CancelledAnswered, IfCancelled, dashVars
  <2>2. PICK i \in DOMAIN refreshes : SetChain(refreshes[i])
    BY <2>1 DEF ChainAnswered
  <2>3. asked' = refreshes[i]
    BY <2>2 DEF SetChain
  <2>4. refreshes[i] \in {DOMAIN Stats(rendered)}
    BY ElementOfSeq, LenProperties DEF PagesInv, QueueInv
  <2> QED
    BY <2>3, <2>4
<1> QED
  BY <1>1, PagesStand, PTL DEF SiteSpec, AskedForWhatIsShown
=============================================================================
