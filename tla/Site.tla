-------------------------------- MODULE Site --------------------------------
(***************************************************************************)
(* The pages that poll a keeper's API: the tables of positions and of      *)
(* keepers on the home page (frontend/app/components/MonitorFeed.tsx,      *)
(* KeeperRegistry.tsx), and the performance page                           *)
(* (frontend/app/performance), which reads the registry as well.  Each     *)
(* shows demo data until it has some of its own.                           *)
(*                                                                         *)
(* Fetches overlap and are answered in any order.  An answer that comes    *)
(* when its page has been left changes nothing, and is left out.           *)
(***************************************************************************)
EXTENDS Display, Integers

CONSTANTS
  Null,
  Demo,          \* the keepers of TESTNET_KEEPER_STATS,
  DemoStat,      \* and a keeper's stat there
  Reports,       \* what /api/performance may return: records of depositors
                 \* (whether there are any), and stats (of some keepers)
  KeeperRecords, \* what queryKeeper may return
  Factors,       \* the health factors that the API may return, in tenths
  MaxFactor,     \* bound of the model: the largest factor of a demo position
  MaxFetches     \* bound of the model: each component's fetches in flight

Keepers == Demo \cup UNION {DOMAIN r.stats : r \in Reports}

\* A stat has executions and fills, or else its liquidations count as both; it
\* may say whether the keeper has an active draw.
StatsAddUp(stat) ==
  LET fields == DOMAIN stat
  IN  /\ "draw" \in fields => stat.draw \in BOOLEAN
      /\ IF "executions" \in fields
         THEN "fills" \in fields /\ stat.executions \in Nat
                /\ stat.fills \in 0 .. stat.executions
         ELSE "fills" \notin fields /\ stat.liquidations \in Nat

ASSUME SiteAssumption ==
  /\ \A r \in Reports : /\ r.depositors \in BOOLEAN
                        /\ \A k \in DOMAIN r.stats : StatsAddUp(r.stats[k])
  /\ StatsAddUp(DemoStat)
  /\ \A r \in KeeperRecords : /\ r.executions \in Nat
                              /\ r.fills \in 0 .. r.executions
                              /\ r.draw \in BOOLEAN
  /\ Null \notin Reports /\ Null \notin KeeperRecords /\ Null \notin Factors
  /\ Factors \subseteq Nat /\ MaxFactor \in Nat /\ MaxFactor >= 18
  /\ MaxFetches \in Nat \ {0}

VARIABLES
  page,        \* the page that is shown
  intervals,   \* the intervals that are set, as a bag: component -> number
  fetches,     \* the fetches in flight, as a bag
  \* MonitorFeed: a position, and live.
  position, feedLive,
  \* KeeperRegistry.tsx: whether the keepers are the demo's.
  demoKeepers,
  \* PerformanceDashboard: its state, and
  data, live, chainKeepers,
  rendered,    \* the data that was last rendered
  dirty,       \* the state was set since
  refreshes,   \* the keepers that each refresh in flight has asked for
  cancelled,   \* the same, of those that are cancelled
  reported,    \* history: the position that the API returned last, if any
  asked        \* history: the keepers of the refresh that set chainKeepers

homeVars == <<position, feedLive, demoKeepers, reported>>
dashVars == <<data, live, chainKeepers, rendered, dirty, refreshes, cancelled,
              asked>>
siteVars == <<page, intervals, fetches, homeVars, dashVars>>

Components == {"feed", "registry", "poll", "chain"}
Of(p) == CASE p = "home" -> {"feed", "registry"}
           [] p = "performance" -> {"poll", "chain"}
           [] p = "none" -> {}

-----------------------------------------------------------------------------
(* fetchState, fetchPerformance: null stands for every failure.            *)

AskMore(c) == /\ fetches[c] < MaxFetches
              /\ fetches' = [fetches EXCEPT ![c] = @ + 1]

Answered(c) == /\ fetches[c] > 0
               /\ fetches' = [fetches EXCEPT ![c] = @ - 1]

\* The interval of a component that fetches from the API.
Tick(c) ==
  /\ c # "chain" /\ intervals[c] > 0
  /\ AskMore(c)
  /\ UNCHANGED <<page, intervals, homeVars, dashVars>>

-----------------------------------------------------------------------------
(* The home page.                                                          *)

\* Mistake: no lower limit.
DriftedFreely(hf) == {f \in hf - 1 .. hf + 1 : f <= MaxFactor}

\* Math.max(0.7, hf + a little, on average less than nothing)
Drifted(hf) ==
  {IF f < 7 THEN 7 ELSE f : f \in {g \in hf - 1 .. hf + 1 : g <= MaxFactor}}

\* An answer without positions lets those that are shown drift.
FeedWithout(hf) ==
  /\ position' \in Drifted(hf)
  /\ UNCHANGED <<feedLive, reported>>

FeedAnswered ==
  /\ Answered("feed")
  /\ \/ \E hf \in Factors : position' = hf /\ reported' = hf /\ feedLive' = TRUE
     \/ FeedWithout(position)
  /\ UNCHANGED <<page, intervals, demoKeepers, dashVars>>

\* hfLabel
Label(hf) == IF hf < 10 THEN "LIQUIDATABLE"
             ELSE IF hf < 12 THEN "AT RISK" ELSE "healthy"

\* What MonitorFeed shows.
Feed == [heading |-> IF feedLive THEN "live data" ELSE "simulated",
         label |-> Label(position)]

RegistryAnswered ==
  /\ Answered("registry")
  /\ demoKeepers' \in {demoKeepers, FALSE}
  /\ UNCHANGED <<page, intervals, position, feedLive, reported, dashVars>>

-----------------------------------------------------------------------------
(* The performance page.                                                   *)

HasLiveData(d) == d # Null /\ d.depositors

\* display.keeper_stats: the API's keepers over the demo's.
Stats(d) ==
  LET stats == IF HasLiveData(d) THEN d.stats ELSE <<>>
  IN  [k \in Demo \cup DOMAIN stats |->
         IF k \in DOMAIN stats THEN stats[k] ELSE DemoStat]

\* Mistake: the API's word goes before the registry's.
ReportedExecutions(k) ==
  LET ks == Stats(data)[k]
  IN  IF "executions" \in DOMAIN ks THEN ks.executions ELSE ks.liquidations

\* chain?.total_executions ?? ks.total_executions ?? ks.liquidations
Executions(k) ==
  LET ks == Stats(data)[k]
  IN  IF chainKeepers[k] # Null THEN chainKeepers[k].executions
      ELSE IF "executions" \in DOMAIN ks THEN ks.executions
      ELSE ks.liquidations

Fills(k) ==
  LET ks == Stats(data)[k]
  IN  IF chainKeepers[k] # Null THEN chainKeepers[k].fills
      ELSE IF "fills" \in DOMAIN ks THEN ks.fills ELSE ks.liquidations

\* chain?.has_active_draw ?? ks.has_active_draw ?? false
ActiveDraw(k) ==
  LET ks == Stats(data)[k]
  IN  IF chainKeepers[k] # Null THEN chainKeepers[k].draw
      ELSE "draw" \in DOMAIN ks /\ ks.draw

\* A row of the table of keepers.
KeeperRow(k) ==
  [executions |-> Executions(k), fills |-> Fills(k),
   rate |-> SuccessRate(Executions(k), Fills(k)),
   draw |-> ActiveDraw(k)]

\* The table of keepers, and what stands over it.
Dashboard ==
  [heading |-> IF live THEN "LIVE" ELSE "TESTNET",
   keepers |-> [k \in DOMAIN Stats(data) |-> KeeperRow(k)]]

\* fresh && fresh.depositors && fresh.depositors.length > 0
Fresh(r) == HasLiveData(r)

PollAnswered ==
  /\ Answered("poll")
  /\ \E r \in Reports \cup {Null} :
       /\ data' = IF Fresh(r) THEN r ELSE data
       /\ live' = Fresh(r)
       /\ dirty' = (dirty \/ Fresh(r) \/ live)
  /\ UNCHANGED <<page, intervals, chainKeepers, rendered, refreshes, cancelled,
                 asked, homeVars>>

InFlight == refreshes \o cancelled

\* refreshChain
AskChain(d, running) ==
  /\ Len(running) + Len(cancelled') < MaxFetches
  /\ refreshes' = Append(running, DOMAIN Stats(d))

ChainTick ==
  /\ intervals["chain"] > 0
  /\ cancelled' = cancelled
  /\ AskChain(rendered, refreshes)
  /\ UNCHANGED <<page, intervals, fetches, data, live, chainKeepers, rendered,
                 dirty, asked, homeVars>>

\* Mistake: the cleanup does not clear the interval.
KeptInterval(n) == n

\* clearInterval
ClearedInterval(n) == n - 1

\* A render.  The effect depends on display.keeper_stats, which is a new object
\* in every render of live data, and the same in every render of the demo: in
\* the first case its cleanup and the effect itself are run again.
Render ==
  /\ page = "performance" /\ dirty
  /\ dirty' = FALSE
  /\ rendered' = data
  /\ IF HasLiveData(data)
     THEN /\ cancelled' = InFlight
          /\ AskChain(data, <<>>)
          /\ intervals' = [intervals EXCEPT !["chain"] = ClearedInterval(@) + 1]
     ELSE UNCHANGED <<intervals, refreshes, cancelled>>
  /\ UNCHANGED <<page, fetches, data, live, chainKeepers, asked, homeVars>>

\* All keepers have answered, or failed to: what was read replaces the last
\* answers, unless nothing was.
SetChain(list) ==
  \E answer \in [list -> KeeperRecords \cup {Null}] :
    IF \E k \in list : answer[k] # Null
    THEN /\ chainKeepers' =
              [k \in Keepers |-> IF k \in list THEN answer[k] ELSE Null]
         /\ dirty' = TRUE /\ asked' = list
    ELSE UNCHANGED <<chainKeepers, dirty, asked>>

Without(list, i) == SubSeq(list, 1, i - 1) \o SubSeq(list, i + 1, Len(list))

ChainAnswered ==
  /\ \E i \in DOMAIN refreshes : /\ SetChain(refreshes[i])
                                 /\ refreshes' = Without(refreshes, i)
  /\ UNCHANGED <<page, intervals, fetches, data, live, rendered, cancelled,
                 homeVars>>

\* Mistake: refreshChain does not look at cancelled.
SetAfterAll(list) == SetChain(list)

\* if (cancelled) return
IfCancelled(list) == UNCHANGED <<chainKeepers, dirty, asked>>

CancelledAnswered ==
  /\ \E i \in DOMAIN cancelled : /\ IfCancelled(cancelled[i])
                                 /\ cancelled' = Without(cancelled, i)
  /\ UNCHANGED <<page, intervals, fetches, data, live, rendered, refreshes,
                 homeVars>>

-----------------------------------------------------------------------------
(* The visitor goes from page to page.                                     *)

HomeInit == /\ position = 18 /\ reported = Null /\ feedLive = FALSE
            /\ demoKeepers = TRUE

HomeMounted == /\ position' = 18 /\ reported' = Null /\ feedLive' = FALSE
               /\ demoKeepers' = TRUE

Dash(report, lists) ==
  /\ data' = report /\ live' = (report # Null) /\ rendered' = report
  /\ refreshes' = lists /\ cancelled' = <<>>
  /\ chainKeepers' = [k \in Keepers |-> Null]
  /\ dirty' = FALSE /\ asked' = {}

\* The server renders the page with what the API returned to it.
DashMounted == \E r \in Reports \cup {Null} : Dash(r, <<DOMAIN Stats(r)>>)

DashGone == Dash(Null, <<>>)

\* The effects' cleanups, and the effects of the page that is opened: each
\* fetches at once, and sets its interval.
Open(p) ==
  /\ page # p
  /\ page' = p
  /\ intervals' = [c \in Components |->
       (IF c \in Of(page) THEN ClearedInterval(intervals[c]) ELSE intervals[c])
         + IF c \in Of(p) THEN 1 ELSE 0]
  /\ fetches' = [c \in Components |->
                   IF c \in Of(p) \ {"chain"} THEN 1 ELSE 0]
  /\ HomeMounted
  /\ IF p = "performance" THEN DashMounted ELSE DashGone

SiteInit ==
  /\ page = "none"
  /\ intervals = [c \in Components |-> 0] /\ fetches = intervals
  /\ HomeInit
  /\ data = Null /\ live = FALSE /\ rendered = Null /\ dirty = FALSE
  /\ refreshes = <<>> /\ cancelled = <<>>
  /\ asked = {} /\ chainKeepers = [k \in Keepers |-> Null]

SiteNext ==
  \/ \E p \in {"home", "performance", "none"} : Open(p)
  \/ \E c \in Of(page) : Tick(c)
  \/ FeedAnswered \/ RegistryAnswered
  \/ PollAnswered \/ Render \/ ChainTick \/ ChainAnswered \/ CancelledAnswered

SiteSpec == SiteInit /\ [][SiteNext]_siteVars

-----------------------------------------------------------------------------
\* The types, and what the tables can show.
SiteTypeOK ==
  /\ page \in {"home", "performance", "none"}
  /\ intervals \in [Components -> Nat] /\ fetches \in [Components -> 0 .. MaxFetches]
  /\ position \in Factors \cup 7 .. MaxFactor
  /\ Feed.label \in {"LIQUIDATABLE", "AT RISK", "healthy"}
  /\ reported \in Factors \cup {Null} /\ feedLive = (reported # Null)
  /\ demoKeepers \in BOOLEAN
  /\ data \in Reports \cup {Null} /\ rendered \in Reports \cup {Null}
  /\ live \in BOOLEAN /\ dirty \in BOOLEAN
  /\ Dashboard.heading \in {"LIVE", "TESTNET"}
  /\ \A k \in DOMAIN Dashboard.keepers : Dashboard.keepers[k].draw \in BOOLEAN
  /\ chainKeepers \in [Keepers -> KeeperRecords \cup {Null}]
  /\ InFlight \in Seq(SUBSET Keepers) /\ Len(InFlight) <= MaxFetches

\* The table of keepers: a row never takes its executions from one source and
\* its fills from another, whatever was answered, failed or came late.
RowsAddUp ==
  \A k \in DOMAIN Dashboard.keepers :
    LET row == Dashboard.keepers[k]
    IN  row.fills <= row.executions /\ row.rate[1] <= row.rate[2]

\* The cleanups: through every render and every change of the page there is
\* one interval for each effect of the page that is shown, and no other.
OneIntervalEach ==
  intervals = [c \in Components |-> IF c \in Of(page) THEN 1 ELSE 0]

\* refreshChain: the registry's answers are set only if they are those of the
\* keepers that are on the screen, so that none of them loses its answer to
\* the refresh of an earlier list.
AskedForWhatIsShown ==
  [][page' = page /\ chainKeepers' # chainKeepers =>
       asked' = DOMAIN Stats(rendered)]_siteVars

-----------------------------------------------------------------------------
(* What the repository's texts say of the pages, and the code does not do. *)

\* The comment in load and the heading of the table: the drift is a simulation
\* for the demo's positions, and what stands under "live data" is what the
\* keeper's API returned last.  A poll that fails lets those drift, too.
LiveFeedIsReported == Feed.heading = "live data" => position = reported
=============================================================================
