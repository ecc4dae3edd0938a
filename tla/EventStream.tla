----------------------------- MODULE EventStream -----------------------------
(***************************************************************************)
(* The part of a keeper's state that its loop shares with the handlers of  *)
(* its HTTP API (keeper/main.go): the ring of recent events, and their     *)
(* broadcast to the clients of /api/events.  The loop's goroutine calls    *)
(* addEvent; each request is served by a goroutine of its own.  A section  *)
(* that holds one of the two mutexes is one step.                          *)
(***************************************************************************)
EXTENDS Naturals, Sequences, SequencesExt, FiniteSets

CONSTANTS
  Requests,       \* the requests of /api/events
  Readers,        \* the clients of /api/state
  MaxSSEClients,  \* maxSSEClients
  Buffer,         \* the capacity of a subscriber's channel
  RingSize,       \* the events kept
  MaxEvents       \* bound of the model: the events added

ASSUME StreamAssumption ==
  /\ MaxSSEClients \in Nat \ {0} /\ Buffer \in Nat \ {0}
  /\ RingSize \in Nat \ {0} /\ MaxEvents \in Nat

VARIABLES
  memory,     \* the arrays behind State.Events: sequences as long as their
              \* capacity; events are numbered, 0 is an unused element
  ring,       \* the slice State.Events: array, offset and length
  published,  \* how often addEvent was called
  publisher,  \* where the loop is in addEvent
  targets,    \* addEvent's copy of subs, and
  next,       \* the index in it of the next send
  subs,       \* State.subs
  chan,       \* per request: its channel
  sseActive,  \* appMetrics.sseActive
  handler,    \* per request: where handleSSE is
  gone,       \* the requests whose context is done
  snap        \* per reader: the slice that handleState is encoding

ringVars == <<memory, ring, snap>>
broadcastVars == <<published, publisher, targets, next>>
sseVars == <<subs, chan, sseActive, handler, gone>>

\* History variables.
VARIABLES
  received,   \* per request: the events taken from its channel
  dropped,    \* per request: the events dropped because the channel was full
  joined,     \* per request: the last event before its subscription
  taken       \* per reader: what the slice held when it was read

streamHistory == <<received, dropped, joined, taken>>

streamVars == <<ringVars, broadcastVars, sseVars, streamHistory>>

-----------------------------------------------------------------------------
(* Slices.                                                                 *)

Contents(slice, arrays) ==
  IF slice.len = 0 THEN <<>>
  ELSE SubSeq(arrays[slice.array], slice.off + 1, slice.off + slice.len)

\* Mistake: the ring is allowed one element too many.
TrimmedLate(slice) ==
  IF slice.len > RingSize
  THEN [slice EXCEPT !.off = @ + 1, !.len = @ - 1] ELSE slice

\* s[1:], once the ring is full.
Trimmed(slice) ==
  IF slice.len >= RingSize
  THEN [slice EXCEPT !.off = @ + 1, !.len = @ - 1] ELSE slice

\* Mistake: the events are moved down to make room for the new one.
AppendedInPlace(slice, e) ==
  LET start == ring.off
      old == Contents(slice, memory)
  IN  IF ring.len = RingSize
      THEN /\ memory' = [memory EXCEPT ![ring.array] =
                [i \in DOMAIN @ |->
                   IF i > start /\ i <= start + slice.len THEN old[i - start]
                   ELSE IF i = start + slice.len + 1 THEN e ELSE @[i]]]
           /\ ring' = ring
      ELSE /\ memory' = Append(memory, Append(old, e))
           /\ ring' = [array |-> Len(memory) + 1, off |-> 0,
                       len |-> slice.len + 1]

\* append(s, e) uses the array's next element, if there is one; otherwise it
\* copies the slice to an array of twice the size.
Appended(slice, e) ==
  LET end == slice.off + slice.len
      old == Contents(slice, memory)
      size == IF slice.len = 0 THEN 1 ELSE 2 * slice.len
  IN  IF slice.array # 0 /\ end < Len(memory[slice.array])
      THEN /\ memory' = [memory EXCEPT ![slice.array][end + 1] = e]
           /\ ring' = [slice EXCEPT !.len = @ + 1]
      ELSE /\ memory' = Append(memory,
                [i \in 1 .. size |-> IF i <= slice.len THEN old[i]
                                     ELSE IF i = slice.len + 1 THEN e ELSE 0])
           /\ ring' = [array |-> Len(memory) + 1, off |-> 0,
                       len |-> slice.len + 1]

-----------------------------------------------------------------------------
(* addEvent.                                                               *)

AddEvent ==
  /\ publisher = "idle" /\ published < MaxEvents
  /\ published' = published + 1
  /\ Appended(Trimmed(ring), published + 1)
  /\ publisher' = "copy"
  /\ UNCHANGED <<targets, next, snap, sseVars, streamHistory>>

CopySubs ==
  /\ publisher = "copy"
  /\ targets' = subs
  /\ next' = 1
  /\ publisher' = "send"
  /\ UNCHANGED <<published, ringVars, sseVars, streamHistory>>

\* Mistake: addEvent loops over the list of subscribers itself.  A removal
\* moves the elements behind it down and leaves the last one in its place.
NextInSubs == IF next <= Len(subs) THEN subs[next] ELSE targets[next]

\* The channel whose turn it is.
NextTarget == targets[next]

\* Mistake: addEvent waits until there is room.
SentWhenFree(r) ==
  /\ Len(chan[r]) < Buffer
  /\ chan' = [chan EXCEPT ![r] = Append(@, published)]
  /\ UNCHANGED dropped

\* select with a default: the event is dropped if the channel is full.
Sent(r) ==
  IF Len(chan[r]) < Buffer
  THEN /\ chan' = [chan EXCEPT ![r] = Append(@, published)]
       /\ UNCHANGED dropped
  ELSE /\ dropped' = [dropped EXCEPT ![r] = @ \cup {published}]
       /\ UNCHANGED chan

SendNext ==
  /\ publisher = "send" /\ next <= Len(targets)
  /\ Sent(NextTarget)
  /\ next' = next + 1
  /\ UNCHANGED <<ringVars, published, publisher, targets, subs, sseActive,
                 handler, gone, received, joined, taken>>

EndBroadcast ==
  /\ publisher = "send" /\ next > Len(targets)
  /\ publisher' = "idle"
  /\ UNCHANGED <<published, targets, next, ringVars, sseVars, streamHistory>>

-----------------------------------------------------------------------------
(* handleSSE.                                                              *)

\* The limit is read, and acted upon later.
Accept(r) ==
  /\ handler[r] = "new"
  /\ handler' = [handler EXCEPT ![r] =
       IF sseActive >= MaxSSEClients THEN "over" ELSE "checked"]
  /\ UNCHANGED <<ringVars, broadcastVars, subs, chan, sseActive, gone,
                 streamHistory>>

Count(r) ==
  /\ handler[r] = "checked"
  /\ sseActive' = sseActive + 1
  /\ handler' = [handler EXCEPT ![r] = "counted"]
  /\ UNCHANGED <<ringVars, broadcastVars, subs, chan, gone, streamHistory>>

Subscribe(r) ==
  /\ handler[r] = "counted"
  /\ subs' = Append(subs, r)
  /\ handler' = [handler EXCEPT ![r] = "waiting"]
  /\ joined' = [joined EXCEPT ![r] =
       IF publisher = "copy" THEN published - 1 ELSE published]
  /\ UNCHANGED <<ringVars, broadcastVars, chan, sseActive, gone, received,
                 dropped, taken>>

Receive(r) ==
  /\ handler[r] = "waiting" /\ chan[r] # <<>>
  /\ chan' = [chan EXCEPT ![r] = Tail(@)]
  /\ received' = [received EXCEPT ![r] = Append(@, Head(chan[r]))]
  /\ handler' = [handler EXCEPT ![r] = "writing"]
  /\ UNCHANGED <<ringVars, broadcastVars, subs, sseActive, gone, dropped,
                 joined, taken>>

\* The write to the client succeeds, which may take as long as the client
\* wants, and may happen even if the client has just gone.
Written(r) ==
  /\ handler[r] = "writing"
  /\ handler' = [handler EXCEPT ![r] = "waiting"]
  /\ UNCHANGED <<ringVars, broadcastVars, subs, chan, sseActive, gone,
                 streamHistory>>

\* Mistake: unsubscribe removes the channel behind the one it was asked to.
WithoutNext(list, r) ==
  LET i == CHOOSE j \in DOMAIN list : list[j] = r
  IN  RemoveAt(list, IF i < Len(list) THEN i + 1 ELSE i)

\* unsubscribe removes the first element that is r's channel, if any.
Without(list, r) == RemoveFirst(list, r)

\* handleSSE returns: first of all, unsubscribe is called.
Return(r) ==
  /\ subs' = Without(subs, r)
  /\ handler' = [handler EXCEPT ![r] = "unsubscribed"]
  /\ UNCHANGED <<ringVars, broadcastVars, chan, sseActive, gone, streamHistory>>

WriteFails(r) == handler[r] = "writing" /\ r \in gone /\ Return(r)

\* Mistake: the handler learns only from a write that the client has gone.
NeverNotice(r) == FALSE

\* r.Context().Done()
Notice(r) == handler[r] = "waiting" /\ r \in gone /\ Return(r)

Leave(r) ==
  /\ handler[r] = "unsubscribed"
  /\ sseActive' = sseActive - 1
  /\ handler' = [handler EXCEPT ![r] = "over"]
  /\ UNCHANGED <<ringVars, broadcastVars, subs, chan, gone, streamHistory>>

\* The client closes the connection.
HangUp(r) ==
  /\ handler[r] \notin {"new", "over"} /\ r \notin gone
  /\ gone' = gone \cup {r}
  /\ UNCHANGED <<ringVars, broadcastVars, subs, chan, sseActive, handler,
                 streamHistory>>

-----------------------------------------------------------------------------
(* handleState: the slice is read under the lock, and encoded after it.    *)

NoSlice == [array |-> 0, off |-> 0, len |-> 0]

TakeSnapshot(c) ==
  /\ snap[c] = NoSlice
  /\ snap' = [snap EXCEPT ![c] = ring]
  /\ taken' = [taken EXCEPT ![c] = Contents(ring, memory)]
  /\ UNCHANGED <<memory, ring, broadcastVars, sseVars, received, dropped, joined>>

Encode(c) ==
  /\ snap[c] # NoSlice
  /\ snap' = [snap EXCEPT ![c] = NoSlice]
  /\ taken' = [taken EXCEPT ![c] = <<>>]
  /\ UNCHANGED <<memory, ring, broadcastVars, sseVars, received, dropped, joined>>

-----------------------------------------------------------------------------
StreamInit ==
  /\ memory = <<>> /\ ring = NoSlice
  /\ snap = [c \in Readers |-> NoSlice]
  /\ published = 0 /\ publisher = "idle" /\ targets = <<>> /\ next = 1
  /\ subs = <<>> /\ sseActive = 0 /\ gone = {}
  /\ chan = [r \in Requests |-> <<>>]
  /\ handler = [r \in Requests |-> "new"]
  /\ received = [r \in Requests |-> <<>>]
  /\ dropped = [r \in Requests |-> {}]
  /\ joined = [r \in Requests |-> 0]
  /\ taken = [c \in Readers |-> <<>>]

Broadcast == CopySubs \/ SendNext \/ EndBroadcast

Proceed(r) == Count(r) \/ Subscribe(r) \/ WriteFails(r) \/ Leave(r)

StreamNext ==
  \/ AddEvent \/ Broadcast
  \/ \E r \in Requests : Accept(r) \/ Proceed(r) \/ Receive(r) \/ Written(r)
                         \/ Notice(r) \/ HangUp(r)
  \/ \E c \in Readers : TakeSnapshot(c) \/ Encode(c)

StreamSpec == StreamInit /\ [][StreamNext]_streamVars

-----------------------------------------------------------------------------
Handlers == {"new", "checked", "counted", "waiting", "writing",
             "unsubscribed", "over"}

\* The types, and the limits of the ring and of the channels.
StreamTypeOK ==
  /\ ring.len \in 0 .. RingSize
  /\ ring.array \in 0 .. Len(memory)
  /\ published \in 0 .. MaxEvents
  /\ publisher \in {"idle", "copy", "send"}
  /\ subs \in Seq(Requests) /\ targets \in Seq(Requests) /\ next \in Nat \ {0}
  /\ chan \in [Requests -> Seq(1 .. MaxEvents)]
  /\ \A r \in Requests : Len(chan[r]) <= Buffer
  /\ sseActive \in Nat /\ gone \subseteq Requests
  /\ handler \in [Requests -> Handlers]

\* The events that addEvent has finished with, as far as r is concerned.
Due(r) ==
  LET ahead == publisher = "copy" \/ /\ publisher = "send"
                                     /\ \E i \in next .. Len(targets) :
                                          targets[i] = r
  IN  (joined[r] + 1) .. (IF ahead THEN published - 1 ELSE published)

\* addEvent, subscribe, unsubscribe: a subscriber is sent every event since it
\* subscribed, in order and once, unless its channel was full, no matter who
\* comes and goes during a broadcast.
NothingSkipped ==
  \A r \in Requests :
    LET sent == received[r] \o chan[r]
    IN  handler[r] \in {"waiting", "writing"} =>
          /\ \A i, j \in DOMAIN sent : i < j => sent[i] < sent[j]
          /\ ToSet(sent) \cup dropped[r] = Due(r)
          /\ ToSet(sent) \cap dropped[r] = {}

\* handleState: a slice that is encoded after the lock has been released still
\* holds what it held, although addEvent goes on appending to its array.
SnapshotIntact ==
  \A c \in Readers : Contents(snap[c], memory) = taken[c]

\* handleSSE, unsubscribe: whatever the order in which clients come and go, the
\* list of subscribers and the count of clients are those of the live handlers.
NobodyLeftBehind ==
  /\ ToSet(subs) = {r \in Requests : handler[r] \in {"waiting", "writing"}}
  /\ IsInjective(subs)
  /\ sseActive = Cardinality({r \in Requests : handler[r] \in
                   {"counted", "waiting", "writing", "unsubscribed"}})

\* addEvent: the keeper's loop never waits for a client, not even for one that
\* has stopped reading.
BroadcastEnds == publisher # "idle" ~> publisher = "idle"

\* handleSSE: a client that hangs up gives its slot and its channel back, even
\* if no event ever comes.
HangUpReleases == \A r \in Requests : r \in gone ~> handler[r] = "over"
=============================================================================
