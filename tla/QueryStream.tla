---------------------------- MODULE QueryStream ----------------------------
(***************************************************************************)
(* The live query stream: the hub that polls the query log for all the     *)
(* connected browsers (internal/web/query_stream_hub.go), the handler of   *)
(* GET /api/queries/stream that reads the backlog and then relays the      *)
(* hub's channel (handleAPIQueryStream, internal/web/api.go), the writer's *)
(* commits and wake-ups, and the hub's end at shutdown                     *)
(* (ListenAndServe, internal/web/server.go).                               *)
(*                                                                         *)
(* A query is its id.  Ids are handed out in commit order, so the log is   *)
(* always 1..rows.  Wanted[c] holds the ids that pass connection c's       *)
(* filter; QueryFeed's SQL and queryMatchesFeedFilter agree on it.         *)
(***************************************************************************)
EXTENDS Naturals, Sequences, FiniteSets

CONSTANTS Conns,        \* HTTP requests for the stream
          Wanted,       \* Wanted[c]: ids that pass the filter of c
          MaxRows,      \* bound: queries committed
          Limit,        \* the limit parameter: size of the initial batch
          BufCap,       \* capacity of a subscriber's channel (256)
          BatchSize,    \* queryStreamHub.batchSize (500)
          MaxPolls,     \* maxPollBatchesPerWake (3)
          ReadsFail,    \* whether reads of the database may fail
          Readers,      \* connections whose clients keep reading
          Cursors,      \* cursors that requests come with
          NoCursor      \* the request has neither after nor Last-Event-ID

ASSUME StreamAssumption ==
    /\ MaxRows \in Nat
    /\ Wanted \in [Conns -> SUBSET (1..MaxRows)]
    /\ Limit \in Nat \ {0} /\ BufCap \in Nat \ {0}
    /\ BatchSize \in Nat \ {0} /\ MaxPolls \in Nat \ {0}
    /\ ReadsFail \in BOOLEAN /\ Readers \subseteq Conns
    /\ Cursors \subseteq 0..MaxRows \cup {NoCursor} /\ NoCursor \notin Nat

VARIABLES
    rows,      \* the newest committed id
    flushing,  \* the writer has committed and not yet called OnFlush
    \* queryStreamHub
    subs,      \* subscribers
    chan,      \* their channels
    closes,    \* how often each of these has been closed
    lastID,    \* lastID
    wake,      \* a token is in wake
    stop,      \* stop is closed
    \* the goroutine in run() and pollOnce()
    hub,       \* where it is; "off" until startLocked; "deliver" holds mu
    pollFrom,  \* pollOnce's lastID
    polls,     \* batches fetched in this call of pollOnce
    fetched,   \* the latest batch
    next,      \* index in it of the next query to deliver
    \* the handlers of the requests
    conn,      \* where the handler of each request is
    start,     \* the cursor the request came with
    afterID,   \* handleAPIQueryStream's afterID
    events,    \* the ids written to the client
    \* shutdown
    closer,    \* where the call of hub.Close is
    \* What the properties remember of the past:
    cutShort,  \* connections whose initial batch did not reach the end of the log
    early,     \* connections subscribed when stop was closed
    resent     \* connections that were sent an id not above all earlier ones

dbVars == <<rows, flushing>>
hubVars == <<subs, closes, lastID, wake, stop>>
pollVars == <<hub, pollFrom, polls, fetched, next>>
connVars == <<conn, start, afterID, events, cutShort, resent>>
closeVars == <<closer, early>>
vars == <<rows, flushing, subs, chan, closes, lastID, wake, stop, hub, pollFrom, polls,
          fetched, next, conn, start, afterID, events, closer, cutShort, early, resent>>

Init ==
    /\ rows = 0 /\ flushing = FALSE
    /\ subs = {} /\ closes = [c \in Conns |-> 0] /\ lastID = 0
    /\ chan = [c \in Conns |-> <<>>]
    /\ wake = FALSE /\ stop = FALSE
    /\ hub = "off" /\ pollFrom = 0 /\ polls = 0 /\ fetched = <<>> /\ next = 1
    /\ conn = [c \in Conns |-> "away"]
    /\ start = [c \in Conns |-> NoCursor]
    /\ afterID = [c \in Conns |-> 0]
    /\ events = [c \in Conns |-> {}]
    /\ closer = "open"
    /\ cutShort = {} /\ early = {} /\ resent = {}

MuFree == hub # "deliver"
Notified == IF stop THEN wake ELSE TRUE

\* QueryFeed(afterID, filter, n): the n smallest ids of S.
Earliest(S, n) == {i \in S : Cardinality({j \in S : j <= i}) <= n}
Largest(S, default) == IF S = {} THEN default ELSE CHOOSE i \in S : \A j \in S : j <= i

-----------------------------------------------------------------------------
\* The writer (module Pipeline): a batch is committed, then OnFlush wakes the hub.
Commit ==
    /\ ~ flushing
    /\ rows' \in rows + 1 .. MaxRows
    /\ flushing' = TRUE
    /\ UNCHANGED <<chan, hubVars, pollVars, connVars, closeVars>>

OnFlush ==
    /\ flushing
    /\ flushing' = FALSE
    /\ wake' = Notified
    /\ UNCHANGED <<rows, subs, chan, closes, lastID, stop, pollVars, connVars, closeVars>>

-----------------------------------------------------------------------------
\* run() and pollOnce()

WakeUp ==
    /\ hub = "select" /\ wake
    /\ wake' = FALSE
    /\ hub' = "poll"
    /\ UNCHANGED <<dbVars, subs, chan, closes, lastID, stop, pollFrom, polls, fetched,
                   next, connVars, closeVars>>

\* pollOnce returns; its local variables are dead.
PollEnds(to) == hub' = to /\ pollFrom' = 0 /\ polls' = 0 /\ fetched' = <<>> /\ next' = 1

\* The first critical section of pollOnce.
PollBegin ==
    /\ hub = "poll"
    /\ \/ /\ subs # {}
          /\ hub' = "fetch" /\ pollFrom' = lastID
          /\ UNCHANGED <<polls, fetched, next>>
       \/ subs = {} /\ PollEnds("select")
    /\ UNCHANGED <<dbVars, chan, hubVars, connVars, closeVars>>

\* What h.fetch(pollFrom, batchSize) returns.
NextBatch ==
    [i \in 1 .. (IF rows <= pollFrom THEN 0
                 ELSE IF rows - pollFrom < BatchSize THEN rows - pollFrom ELSE BatchSize)
        |-> pollFrom + i]

\* h.fetch, without the mutex; it may fail, and pollOnce gives up.
Fetch ==
    /\ hub = "fetch"
    /\ \/ /\ NextBatch # <<>>
          /\ fetched' = NextBatch /\ hub' = "fetched"
          /\ UNCHANGED <<pollFrom, polls, next>>
       \/ (NextBatch = <<>> \/ ReadsFail) /\ PollEnds("select")
    /\ UNCHANGED <<dbVars, chan, hubVars, connVars, closeVars>>

DeliverBegin ==
    /\ hub = "fetched"
    /\ hub' = "deliver"
    /\ next' = 1
    /\ UNCHANGED <<dbVars, chan, hubVars, pollFrom, polls, fetched, connVars, closeVars>>

\* A query that the hub's cursor has passed since the poll began is skipped.
Passed(id) == id <= lastID

\* One query, to every subscriber; one whose channel is full is disconnected.
Deliver ==
    /\ hub = "deliver" /\ next <= Len(fetched)
    /\ next' = next + 1
    /\ LET id == fetched[next]
           full == {c \in subs : Len(chan[c]) = BufCap}
       IN IF Passed(id)
          THEN UNCHANGED <<subs, chan, closes, lastID>>
          ELSE /\ lastID' = id
               /\ subs' = subs \ full
               /\ chan' = [c \in Conns |-> IF c \in subs \ full
                                          THEN Append(chan[c], id) ELSE chan[c]]
               /\ closes' = [c \in Conns |-> IF c \in full THEN closes[c] + 1 ELSE closes[c]]
    /\ UNCHANGED <<dbVars, wake, stop, hub, pollFrom, polls, fetched, connVars, closeVars>>

\* The end of that critical section, and of the turn of pollOnce's loop.
DeliverEnd ==
    /\ hub = "deliver" /\ next > Len(fetched)
    /\ \/ /\ subs = {} \/ Len(fetched) < BatchSize
          /\ PollEnds("select")
       \/ /\ subs # {} /\ Len(fetched) >= BatchSize
          /\ IF polls + 1 < MaxPolls
             THEN /\ hub' = "fetch" /\ pollFrom' = lastID /\ polls' = polls + 1
                  /\ fetched' = <<>> /\ next' = 1
             ELSE PollEnds("rewake")
    /\ UNCHANGED <<dbVars, chan, hubVars, connVars, closeVars>>

\* Mutant: the rest of the backlog waits for the next commit.
RewakeForgotten ==
    /\ hub = "rewake"
    /\ hub' = "select"
    /\ UNCHANGED <<dbVars, chan, hubVars, pollFrom, polls, fetched, next, connVars, closeVars>>

\* After maxPollBatchesPerWake full batches the hub wakes itself.
Rewake ==
    /\ hub = "rewake"
    /\ wake' = Notified
    /\ hub' = "select"
    /\ UNCHANGED <<dbVars, subs, chan, closes, lastID, stop, pollFrom, polls, fetched,
                   next, connVars, closeVars>>

\* Mutant: run returns without closeAllSubscribers.
SeeStopLeavesOpen ==
    /\ hub = "select" /\ stop
    /\ hub' = "returned"
    /\ UNCHANGED <<dbVars, chan, hubVars, pollFrom, polls, fetched, next, connVars, closeVars>>

\* case <-h.stop: closeAllSubscribers, and run returns.
SeeStop ==
    /\ hub = "select" /\ stop
    /\ hub' = "returned"
    /\ closes' = [c \in Conns |-> IF c \in subs THEN closes[c] + 1 ELSE closes[c]]
    /\ subs' = {}
    /\ UNCHANGED <<dbVars, chan, lastID, wake, stop, pollFrom, polls, fetched, next,
                   connVars, closeVars>>

-----------------------------------------------------------------------------
\* handleAPIQueryStream

\* Mutant: every subscriber moves the cursor, not only the first.
CursorOnSubscribeAlways == rows

\* "The cursor stops advancing while nobody listens; skip that backlog."
CursorOnSubscribe == IF subs = {} THEN rows ELSE lastID

\* Subscribe, up to the release of the mutex: the hub is started if it has not been.
Subscribe(c) ==
    /\ conn[c] = "away" /\ MuFree
    /\ \E from \in Cursors : start' = [start EXCEPT ![c] = from]
    /\ lastID' = CursorOnSubscribe
    /\ hub' = IF hub = "off" THEN "select" ELSE hub
    /\ subs' = subs \cup {c}
    /\ conn' = [conn EXCEPT ![c] = "subscribed"]
    /\ UNCHANGED <<dbVars, chan, closes, wake, stop, pollFrom, polls, fetched, next,
                   afterID, events, cutShort, resent, closeVars>>

\* The first subscriber cannot read the end of the log: an error is replied.
Reject(c) ==
    /\ conn[c] = "away" /\ MuFree
    /\ subs = {} /\ ReadsFail
    /\ conn' = [conn EXCEPT ![c] = "ended"]
    /\ UNCHANGED <<dbVars, chan, hubVars, pollVars, start, afterID, events, cutShort,
                   resent, closeVars>>

\* The end of Subscribe: "Wake now so the new subscriber catches up".
SubscribeWakes(c) ==
    /\ conn[c] = "subscribed"
    /\ wake' = Notified
    /\ conn' = [conn EXCEPT ![c] = "cursor"]
    /\ UNCHANGED <<dbVars, subs, chan, closes, lastID, stop, pollVars,
                   start, afterID, events, cutShort, resent, closeVars>>

\* LatestQueryID, for a request without a cursor.
ReadCursor(c) ==
    /\ conn[c] = "cursor"
    /\ afterID' = [afterID EXCEPT ![c] = IF start[c] = NoCursor THEN rows ELSE start[c]]
    /\ start' = [start EXCEPT ![c] = afterID'[c]]
    /\ conn' = [conn EXCEPT ![c] = "initial"]
    /\ UNCHANGED <<dbVars, chan, hubVars, pollVars, events, cutShort, resent, closeVars>>

Backlog(c) == {i \in Wanted[c] : afterID[c] < i /\ i <= rows}

\* QueryFeed(afterID, filter, limit) and the write of the initial batch.
SendInitial(c) ==
    /\ conn[c] = "initial"
    /\ LET initial == Earliest(Backlog(c), Limit)
       IN /\ events' = [events EXCEPT ![c] = initial]
          /\ afterID' = [afterID EXCEPT ![c] = Largest(initial, @)]
          /\ cutShort' = IF initial # Backlog(c) THEN cutShort \cup {c} ELSE cutShort
    /\ conn' = [conn EXCEPT ![c] = "streaming"]
    /\ UNCHANGED <<dbVars, chan, hubVars, pollVars, start, resent, closeVars>>

\* Mutant: what the initial batch already held is not skipped.
ToSendAgain(c, id) == id \in Wanted[c]

\* query.ID > afterID and queryMatchesFeedFilter(query, filter)
ToSend(c, id) == id > afterID[c] /\ id \in Wanted[c]

\* case query := <-stream
Relay(c) ==
    /\ conn[c] = "streaming"
    /\ chan[c] # <<>>
    /\ chan' = [chan EXCEPT ![c] = Tail(@)]
    /\ LET id == Head(chan[c])
       IN IF ToSend(c, id)
          THEN /\ events' = [events EXCEPT ![c] = @ \cup {id}]
               /\ afterID' = [afterID EXCEPT ![c] = id]
               /\ resent' = IF \E j \in events[c] : id <= j THEN resent \cup {c} ELSE resent
          ELSE UNCHANGED <<events, afterID, resent>>
    /\ UNCHANGED <<dbVars, hubVars, pollVars, conn, start, cutShort, closeVars>>

\* The handler's loop is over; what it knew of the stream is dead.
Finish(c) ==
    /\ conn' = [conn EXCEPT ![c] = "leaving"]
    /\ afterID' = [afterID EXCEPT ![c] = 0]
    /\ start' = [start EXCEPT ![c] = NoCursor]
    /\ events' = [events EXCEPT ![c] = {}]
    /\ cutShort' = cutShort \ {c}

\* The channel is closed and read to its end.
StreamEnds(c) ==
    /\ conn[c] = "streaming"
    /\ chan[c] = <<>> /\ closes[c] > 0
    /\ Finish(c)
    /\ UNCHANGED <<dbVars, chan, hubVars, pollVars, resent, closeVars>>

\* The client is gone, a write to it fails, or a read of the database does.
Leave(c) ==
    /\ \/ conn[c] = "streaming"
       \/ conn[c] \in {"cursor", "initial"} /\ ReadsFail
    /\ Finish(c)
    /\ UNCHANGED <<dbVars, chan, hubVars, pollVars, resent, closeVars>>

\* Mutant: unsubscribe closes the channel whether or not it is still in the map.
ClosesAnyway(c) == TRUE

\* unsubscribe's lookup in the map.
ClosesOnCancel(c) == c \in subs

\* The deferred cancel: unsubscribe closes the channel unless someone has.
Unsubscribe(c) ==
    /\ conn[c] = "leaving" /\ MuFree
    /\ conn' = [conn EXCEPT ![c] = "ended"]
    /\ subs' = subs \ {c}
    /\ closes' = IF ClosesOnCancel(c) THEN [closes EXCEPT ![c] = @ + 1] ELSE closes
    /\ chan' = [chan EXCEPT ![c] = <<>>]
    /\ UNCHANGED <<dbVars, lastID, wake, stop, pollVars, start, afterID, events, cutShort,
                   resent, closeVars>>

-----------------------------------------------------------------------------
\* ListenAndServe calls hub.Close when ctx is cancelled.
CloseStop ==
    /\ closer = "open"
    /\ closer' = "stopping"
    /\ stop' = TRUE
    /\ early' = subs
    /\ UNCHANGED <<dbVars, chan, subs, closes, lastID, wake, pollVars, connVars>>

\* Mutant: Close does not wait for run to return.
CloseDoesNotWait ==
    /\ closer = "stopping" /\ MuFree
    /\ closer' = "closed"
    /\ UNCHANGED <<dbVars, chan, hubVars, pollVars, connVars, early>>

\* Close reads running under the mutex, and waits for run to return if it is set.
CloseReadsRunning ==
    /\ closer = "stopping" /\ MuFree
    /\ closer' = IF hub = "off" THEN "closed" ELSE "waiting"
    /\ UNCHANGED <<dbVars, chan, hubVars, pollVars, connVars, early>>

CloseReturns ==
    /\ closer = "waiting"
    /\ hub = "returned"
    /\ closer' = "closed"
    /\ UNCHANGED <<dbVars, chan, hubVars, pollVars, connVars, early>>

Hub == WakeUp \/ PollBegin \/ Fetch \/ DeliverBegin \/ Deliver \/ DeliverEnd \/ Rewake
Open(c) == SubscribeWakes(c) \/ ReadCursor(c) \/ SendInitial(c)
Close == CloseStop \/ CloseReadsRunning \/ CloseReturns

Next ==
    \/ Commit \/ OnFlush
    \/ Hub \/ SeeStop
    \/ \E c \in Conns : \/ Subscribe(c) \/ Reject(c) \/ Open(c)
                        \/ Relay(c) \/ StreamEnds(c) \/ Leave(c) \/ Unsubscribe(c)
    \/ Close

Spec == Init /\ [][Next]_vars

\* The goroutines run; a commit, a request, and a client that leaves or reads
\* slowly are not forced.
Fairness ==
    /\ WF_vars(OnFlush) /\ WF_vars(Hub) /\ WF_vars(SeeStop)
    /\ WF_vars(CloseReadsRunning) /\ WF_vars(CloseReturns)
    /\ \A c \in Conns : /\ WF_vars(Open(c))
                        /\ WF_vars(StreamEnds(c))
                        /\ WF_vars(Unsubscribe(c))
    /\ \A c \in Readers : WF_vars(Relay(c))
FairSpec == Spec /\ Fairness

-----------------------------------------------------------------------------
Ids == 0..MaxRows
Elements(s) == {s[i] : i \in 1..Len(s)}

TypeOK ==
    /\ rows \in Ids /\ flushing \in BOOLEAN
    /\ subs \subseteq Conns
    /\ chan \in [Conns -> Seq(1..MaxRows)]
    /\ \A c \in Conns : Len(chan[c]) <= BufCap
    /\ closes \in [Conns -> Nat]
    /\ lastID \in 0..rows
    /\ wake \in BOOLEAN /\ stop \in BOOLEAN
    /\ hub \in {"off", "select", "poll", "fetch", "fetched", "deliver", "rewake", "returned"}
    /\ pollFrom \in Ids /\ polls \in 0..(MaxPolls - 1)
    /\ fetched \in Seq(1..MaxRows) /\ Len(fetched) <= BatchSize
    /\ next \in Nat
    /\ conn \in [Conns -> {"away", "subscribed", "cursor", "initial", "streaming",
                           "leaving", "ended"}]
    /\ start \in [Conns -> Ids \cup {NoCursor}]
    /\ afterID \in [Conns -> Ids]
    /\ events \in [Conns -> SUBSET (1..MaxRows)]
    /\ closer \in {"open", "stopping", "waiting", "closed"}
    /\ cutShort \subseteq Conns /\ early \subseteq Conns /\ resent \subseteq Conns

\* What a connection should have: every id past its cursor that passes its filter.
Due(c, upTo) == {i \in Wanted[c] : start[c] < i /\ i <= upTo}

\* A client whose initial batch reached the end of the log never sees a gap:
\* it has been sent everything up to its latest event, and while it is subscribed
\* everything the hub has passed is in its hands or in its channel.  The backlog
\* it read itself and what the hub relays meet without a seam, although the hub's
\* cursor may move between the two.
StreamComplete ==
    \A c \in Conns : conn[c] = "streaming" /\ c \notin cutShort =>
        /\ events[c] = Due(c, afterID[c])
        /\ c \in subs => Due(c, lastID) \subseteq events[c] \cup Elements(chan[c])

\* The backlog and the relay overlap, and an overlap is never sent twice: the ids
\* a client receives only grow.
NeverResent == resent = {}

\* A channel is closed once and never sent to afterwards, whichever of the slow
\* subscriber's drop, unsubscribe and closeAllSubscribers comes first (the
\* second close and the send would panic).
ClosedOnce ==
    \A c \in Conns : closes[c] <= 1 /\ (c \in subs => closes[c] = 0)

\* When hub.Close returns, every stream that existed when it was called has been
\* told to end.
CloseEndsEarlyStreams == closer = "closed" => early \cap subs = {}

\* As long as reads of the log succeed, a committed query reaches every client
\* that keeps reading, unless it is disconnected: no wake-up is lost, whether it
\* comes before, during or after a poll, and a full batch is followed up.
EventuallyDelivered ==
    \A c \in Readers : \A i \in Wanted[c] :
        (conn[c] = "streaming" /\ c \notin cutShort /\ i \in Due(c, rows) /\ ~ stop)
            ~> (i \in events[c] \/ conn[c] # "streaming" \/ closes[c] > 0 \/ stop)

\* hub.Close always returns, and every stream that existed when it was called and
\* whose client reads comes to its end.
CloseCompletes ==
    /\ stop ~> closer = "closed"
    /\ \A c \in Readers : (c \in early) ~> conn[c] = "ended"
=============================================================================
