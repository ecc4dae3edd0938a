------------------------------- MODULE LiveLog -------------------------------
(***************************************************************************)
(* The log on the home page, from the keeper that adds an event to the     *)
(* line that the visitor reads: EventStream, the hook useSSEEvents         *)
(* (frontend/lib/sse.ts) that connects to it again and again, and Hero,    *)
(* which shows what the hook returns.  Requests are reused: one is a       *)
(* connection until its handler is over, and then another.                 *)
(***************************************************************************)
EXTENDS EventStream, Integers

CONSTANTS
  NoRequest,     \* no EventSource, or a closed one
  MaxBackoff,    \* MAX_BACKOFF_MS, in seconds
  EventsKept,    \* maxEvents
  LogLines,      \* the lines that Hero shows
  StaticLogs,    \* how many STATIC_LOGS there are
  MaxBreaks,     \* bound of the model: how often the network fails
  MaxFailures    \* bound of the model: the failures that are counted

ASSUME LiveAssumption ==
  /\ NoRequest \notin Requests
  /\ MaxBackoff \in Nat \ {0} /\ EventsKept \in Nat \ {0}
  /\ LogLines \in Nat \ {0} /\ StaticLogs \in Nat \ {0}
  /\ MaxBreaks \in Nat /\ MaxFailures \in Nat /\ 2 ^ MaxFailures >= MaxBackoff

VARIABLES
  issued,    \* the requests sent by the page
  es,        \* the EventSource that is not closed
  opened,    \* onopen has been called for it
  wire,      \* the events that have been written to it and not read
  backoff, timer, \* in seconds; no timer is armed if timer = 0
  stopped,   \* the page has been left
  events,    \* what useSSEEvents returns next
  dirty,     \* it was set since Hero was rendered
  cycling,   \* the static lines are being cycled
  staticIdx, visibleLogs,
  breaks,    \* how often the network failed
  failures   \* history: the errors in a row

clientVars == <<issued, es, opened, wire, backoff, timer, breaks, failures>>
heroVars == <<stopped, events, dirty, cycling, staticIdx, visibleLogs>>
liveVars == <<streamVars, clientVars, heroVars>>

\* A line is an event's number, Note ("reconnecting ..."), or a static line,
\* which is negative.
Note == 0
Static(i) == -(i + 1)

\* slice(-n)
Kept(list, n) == IF Len(list) <= n THEN list
                 ELSE SubSeq(list, Len(list) - n + 1, Len(list))

-----------------------------------------------------------------------------
(* useSSEEvents.                                                           *)

Push(line) == /\ events' = Kept(Append(events, line), EventsKept)
              /\ dirty' = TRUE

\* A connection that nobody knows of any more, addEvent included.
Unused(r) ==
  \/ r \notin issued
  \/ handler[r] = "over" /\ \A i \in next .. Len(targets) : targets[i] # r

\* new EventSource(url): a request that the server knows nothing of so far.
ConnectAs(r) ==
  /\ issued' = issued \cup {r} /\ es' = r
  /\ opened' = FALSE /\ wire' = <<>>
  /\ handler' = [handler EXCEPT ![r] = "new"]
  /\ chan' = [chan EXCEPT ![r] = <<>>]
  /\ gone' = gone \ {r}
  /\ received' = [received EXCEPT ![r] = <<>>]
  /\ dropped' = [dropped EXCEPT ![r] = {}]
  /\ joined' = [joined EXCEPT ![r] = 0]
  /\ UNCHANGED <<ringVars, broadcastVars, subs, sseActive, taken>>

Connect ==
  /\ \E r \in Requests : Unused(r)
  /\ ConnectAs(CHOOSE r \in Requests : Unused(r))

\* Mistake: the effect's cleanup forgets the timer, and connect does not ask
\* whether the page has been left.
StoppedNever == FALSE

\* What the cleanup and connect go by.
Stopped == stopped

\* The effect is run when the page is mounted.
Mount ==
  /\ issued = {} /\ ~stopped
  /\ Connect
  /\ UNCHANGED <<backoff, timer, breaks, failures, heroVars>>

\* Mistake: a connection that works does not reset the backoff.
BackoffKept == backoff

\* onopen
BackoffReset == 1

\* handleSSE sends its headers with the first event, so that onopen is called
\* no sooner.
Open ==
  /\ wire # <<>> /\ ~opened
  /\ opened' = TRUE
  /\ backoff' = BackoffReset
  /\ failures' = 0
  /\ UNCHANGED <<issued, es, wire, timer, breaks, heroVars, streamVars>>

Message ==
  /\ wire # <<>> /\ opened
  /\ wire' = Tail(wire)
  /\ Push(Head(wire))
  /\ UNCHANGED <<issued, es, opened, backoff, timer, breaks, failures, stopped,
                 cycling, staticIdx, visibleLogs, streamVars>>

\* The connection has failed, was refused (503), or has been ended.
Broken == es # NoRequest /\ (es \in gone \/ handler[es] = "over")

\* Mistake: a refused request is left to the EventSource, which gives it up.
RetryBroken == IF es \in gone THEN backoff ELSE 0

\* onerror makes the next attempt itself, whatever the error was.
RetryAfter == backoff

\* onerror: the EventSource is closed, which ends its own attempts.
Error ==
  /\ Broken
  /\ es' = NoRequest /\ opened' = FALSE /\ wire' = <<>>
  /\ timer' = RetryAfter
  /\ Push(Note)
  /\ failures' = IF failures < MaxFailures THEN failures + 1 ELSE failures
  /\ UNCHANGED <<issued, backoff, breaks, stopped, cycling, staticIdx,
                 visibleLogs, streamVars>>

\* Mistake: no limit.
DoubledForEver == 2 * backoff

\* Math.min(backoff * 2, MAX_BACKOFF_MS)
Doubled == IF 2 * backoff > MaxBackoff THEN MaxBackoff ELSE 2 * backoff

TimerFires ==
  /\ timer # 0
  /\ timer' = 0
  /\ backoff' = Doubled
  /\ IF Stopped THEN UNCHANGED <<issued, es, opened, wire, streamVars>>
     ELSE Connect
  /\ UNCHANGED <<breaks, failures, heroVars>>

\* The effect's cleanup.
Unmount ==
  /\ issued # {} /\ ~stopped
  /\ stopped' = TRUE
  /\ timer' = IF Stopped' THEN 0 ELSE timer
  /\ es' = NoRequest /\ opened' = FALSE /\ wire' = <<>>
  /\ UNCHANGED <<issued, backoff, breaks, failures, events, dirty, cycling,
                 staticIdx, visibleLogs, streamVars>>

-----------------------------------------------------------------------------
(* Hero.                                                                   *)

Shows(line) == visibleLogs' = Kept(Append(visibleLogs, line), LogLines)

\* React renders once for all that was set in between: the effect appends the
\* latest event, and the first one ends the cycling.
Render ==
  /\ dirty /\ ~stopped
  /\ dirty' = FALSE
  /\ cycling' = FALSE
  /\ Shows(Last(events))
  /\ UNCHANGED <<stopped, events, staticIdx, clientVars, streamVars>>

\* Mistake: the effect that cycles does not depend on the events.
AlwaysCycling == TRUE

\* liveEvents.length was 0 when Hero was last rendered.
Cycling == cycling

Cycle ==
  /\ Cycling /\ ~stopped
  /\ staticIdx' = (staticIdx + 1) % StaticLogs
  /\ Shows(Static(staticIdx'))
  /\ UNCHANGED <<stopped, events, dirty, cycling, clientVars, streamVars>>

-----------------------------------------------------------------------------
(* The keeper, and the network between the two.                            *)

\* The event goes to the client, unless the connection has failed.
WrittenToClient(r) ==
  /\ Written(r)
  /\ wire' = IF r = es /\ r \notin gone THEN Append(wire, Last(received[r]))
             ELSE wire
  /\ UNCHANGED <<issued, es, opened, backoff, timer, breaks, failures, heroVars>>

Serve(r) ==
  /\ Accept(r) \/ Proceed(r) \/ Receive(r) \/ Notice(r)
  /\ UNCHANGED <<clientVars, heroVars>>

\* The keeper is told that the client has closed the connection.
Closed(r) == r # es /\ HangUp(r) /\ UNCHANGED <<clientVars, heroVars>>

\* The connection fails; both ends come to know.
Break ==
  /\ es # NoRequest /\ breaks < MaxBreaks
  /\ HangUp(es)
  /\ breaks' = breaks + 1
  /\ UNCHANGED <<issued, es, opened, wire, backoff, timer, failures, heroVars>>

\* The request never arrives.
Unreachable ==
  /\ es # NoRequest /\ breaks < MaxBreaks /\ handler[es] = "new"
  /\ handler' = [handler EXCEPT ![es] = "over"]
  /\ breaks' = breaks + 1
  /\ UNCHANGED <<issued, es, opened, wire, backoff, timer, failures, heroVars,
                 ringVars, broadcastVars, subs, chan, sseActive, gone,
                 streamHistory>>

Keeper == (AddEvent \/ Broadcast) /\ UNCHANGED <<clientVars, heroVars>>

LiveInit ==
  /\ StreamInit
  /\ issued = {} /\ es = NoRequest /\ opened = FALSE /\ wire = <<>>
  /\ backoff = 1 /\ timer = 0 /\ breaks = 0 /\ failures = 0
  /\ stopped = FALSE /\ events = <<>> /\ dirty = FALSE /\ cycling = TRUE
  /\ staticIdx = 0 /\ visibleLogs = <<Static(0)>>

LiveNext ==
  \/ Mount \/ Open \/ Message \/ Error \/ TimerFires \/ Unmount
  \/ Render \/ Cycle
  \/ Keeper \/ Break \/ Unreachable
  \/ \E r \in issued : Serve(r) \/ WrittenToClient(r) \/ Closed(r)

\* The keeper's goroutines are scheduled, the browser runs its callbacks and
\* timers, and a closed connection is at last closed at the other end too.
\* Nothing is assumed of new events, of writes, and of the visitor.
LiveFairness ==
  /\ WF_liveVars(Broadcast /\ UNCHANGED <<clientVars, heroVars>>)
  /\ WF_liveVars(Mount) /\ WF_liveVars(Error) /\ WF_liveVars(TimerFires)
  /\ \A r \in Requests :
       /\ WF_liveVars(r \in issued /\ (Accept(r) \/ Proceed(r))
                        /\ UNCHANGED <<clientVars, heroVars>>)
       /\ SF_liveVars(Notice(r) /\ UNCHANGED <<clientVars, heroVars>>)
       /\ WF_liveVars(r \in issued /\ Closed(r))

LiveSpec == LiveInit /\ [][LiveNext]_liveVars /\ LiveFairness

-----------------------------------------------------------------------------
\* The types, and the limits of the two lists and of the backoff.
LiveTypeOK ==
  /\ StreamTypeOK
  /\ issued \subseteq Requests /\ es \in issued \cup {NoRequest}
  /\ opened \in BOOLEAN /\ stopped \in BOOLEAN /\ cycling \in BOOLEAN
  /\ dirty \in BOOLEAN
  /\ wire \in Seq(1 .. MaxEvents)
  /\ backoff \in 1 .. MaxBackoff /\ timer \in 0 .. MaxBackoff
  /\ events \in Seq(0 .. MaxEvents) /\ Len(events) <= EventsKept
  /\ visibleLogs \in Seq(-StaticLogs .. MaxEvents)
  /\ Len(visibleLogs) \in 1 .. LogLines
  /\ staticIdx \in 0 .. StaticLogs - 1
  /\ breaks \in 0 .. MaxBreaks /\ failures \in 0 .. MaxFailures

\* connect, onerror and the cleanup: while the page is shown there is one
\* connection or one timer that will make it, never two and never none; once
\* the page has been left there is neither.
OneConnection ==
  LET attempts == (IF es # NoRequest THEN 1 ELSE 0) + (IF timer # 0 THEN 1 ELSE 0)
  IN  issued # {} => attempts = IF stopped THEN 0 ELSE 1

\* onopen, onerror: after n errors in a row the page waits for 2^(n-1)
\* seconds, but no longer than MAX_BACKOFF_MS, and a page with a connection
\* would wait for 2^n; one that worked starts again from one second.
BackoffDoubles ==
  LET capped(n) == IF 2 ^ n > MaxBackoff THEN MaxBackoff ELSE 2 ^ n
  IN  failures < MaxFailures /\ ~stopped =>
        IF timer = 0 THEN backoff = capped(failures)
        ELSE timer = capped(failures - 1)

\* useSSEEvents, Hero: across every reconnection the log shows the keeper's
\* events in the order in which they happened, none twice, and no static line
\* after the first live one.
LogInOrder ==
  \A i, j \in DOMAIN visibleLogs :
    i < j => /\ visibleLogs[i] > 0 /\ visibleLogs[j] > 0
                  => visibleLogs[i] < visibleLogs[j]
             /\ visibleLogs[j] < 0 => visibleLogs[i] < 0

\* useSSEEvents, handleSSE: once the network works the page is connected for
\* good, although its own dead connection may at first hold the only slot.
ComesBack ==
  <>stopped \/ <>[](es # NoRequest /\ handler[es] \in {"waiting", "writing"})
=============================================================================
