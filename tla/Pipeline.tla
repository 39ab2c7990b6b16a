------------------------------ MODULE Pipeline ------------------------------
(***************************************************************************)
(* The path of a DNS query from the socket to the query log:               *)
(* Listener.Run and handleQuery (internal/dns/listener.go), the records    *)
(* channel, Writer.Run and flush (internal/pipeline/writer.go), and the    *)
(* part of run() that stops them (cmd/umberrelay/main.go).                 *)
(*                                                                         *)
(* Every query has a goroutine of its own.  The rate limiter's verdict     *)
(* (module RateLimiter), the outcome of each upstream exchange and that of *)
(* each database transaction are nondeterministic.  A record stands for    *)
(* itself: what enrich adds to it (device, category) is not modelled here. *)
(* A query has a question: miekg/dns rejects messages without one.         *)
(***************************************************************************)
EXTENDS Naturals, Sequences, FiniteSets

CONSTANTS UdpQueries, TcpQueries,  \* the queries clients send, by transport
          Upstreams,               \* number of upstream resolvers configured
          ChanCap,                 \* capacity of the records channel (4096)
          BatchSize,               \* Config.BatchSize (100)
          Fallible                 \* the servers whose sockets may fail

ASSUME PipelineAssumption ==
    /\ UdpQueries \cap TcpQueries = {}
    /\ Upstreams \in Nat
    /\ ChanCap \in Nat \ {0}
    /\ BatchSize \in Nat \ {0}
    /\ Fallible \subseteq {"udp", "tcp"}

Queries == UdpQueries \cup TcpQueries
Servers == {"udp", "tcp"}
QueriesOf(n) == IF n = "udp" THEN UdpQueries ELSE TcpQueries

VARIABLES
    at,         \* how far the goroutine of each query is ("rejected": it has
                \* replied REFUSED or SERVFAIL, which leaves no record)
    tries,      \* upstreams it has asked
    resp,       \* what the latest exchange returned
    records,    \* the records channel
    buf,        \* Writer.Run's batch
    writer,     \* where Writer.Run is
    stopping,   \* Writer.Run has seen ctx.Done
    log,        \* the queries committed to the database, in id order
    announced,  \* how many of them OnFlush has been called for
    lost,       \* records of batches whose transaction failed
    cancelled,  \* ctx is cancelled
    accepting,  \* accepting[n]: server n takes new queries
    returned,   \* the servers whose ActivateAndServe has returned
    listener,   \* "running" until Listener.Run returns
    exited,     \* run() has returned and the process is gone
    \* What the properties remember of the past:
    earlyQueued     \* queries whose record was sent before the cancellation

netVars == <<accepting, returned, listener>>
writerVars == <<buf, writer, stopping, log, announced, lost>>
vars == <<at, tries, resp, records, buf, writer, stopping, log, announced, lost,
          cancelled, accepting, returned, listener, exited, earlyQueued>>

\* The goroutine of q is inside handleQuery.
Handling(q) == at[q] \in {"asking", "replied"}
Elements(s) == {s[i] : i \in 1..Len(s)}
Unique(s) == \A i, j \in 1..Len(s) : s[i] = s[j] => i = j

Init ==
    /\ at = [q \in Queries |-> "new"]
    /\ tries = [q \in Queries |-> 0]
    /\ resp = [q \in Queries |-> "none"]
    /\ records = <<>>
    /\ buf = <<>>
    /\ writer = "select"
    /\ stopping = FALSE
    /\ log = <<>>
    /\ announced = 0
    /\ lost = {}
    /\ cancelled = FALSE
    /\ accepting = [n \in Servers |-> TRUE]
    /\ returned = {}
    /\ listener = "running"
    /\ exited = FALSE
    /\ earlyQueued = {}

-----------------------------------------------------------------------------
\* handleQuery

\* Server n hands q to a new goroutine, which asks the limiter first.
Receive(q) ==
    /\ at[q] = "new"
    /\ \E n \in Servers : q \in QueriesOf(n) /\ accepting[n]
    /\ \E verdict \in {"asking", "rejected"} : at' = [at EXCEPT ![q] = verdict]
    /\ UNCHANGED <<tries, resp, records, writerVars, cancelled, netVars, exited, earlyQueued>>

\* One turn of the loop over the upstreams.  An exchange may return a message it
\* could not parse together with an error ("broken"): the loop goes on.
Exchange(q) ==
    /\ at[q] = "asking"
    /\ resp[q] # "ok"
    /\ tries[q] < Upstreams
    /\ tries' = [tries EXCEPT ![q] = @ + 1]
    /\ \E r \in {"ok", "broken", "none"} : resp' = [resp EXCEPT ![q] = r]
    /\ UNCHANGED <<at, records, writerVars, cancelled, netVars, exited, earlyQueued>>

LoopOver(q) == resp[q] = "ok" \/ tries[q] = Upstreams

\* The client gets what the last exchange returned, broken or not, or SERVFAIL.
\* The goroutine's variables are dead from here on.
Reply(q) ==
    /\ at[q] = "asking"
    /\ LoopOver(q)
    /\ at' = [at EXCEPT ![q] = IF resp[q] = "none" THEN "rejected" ELSE "replied"]
    /\ tries' = [tries EXCEPT ![q] = 0]
    /\ resp' = [resp EXCEPT ![q] = "none"]
    /\ UNCHANGED <<records, writerVars, cancelled, netVars, exited, earlyQueued>>

\* The non-blocking send of the record.
Enqueue(q) ==
    /\ at[q] = "replied"
    /\ IF Len(records) < ChanCap
       THEN /\ records' = Append(records, q)
            /\ at' = [at EXCEPT ![q] = "queued"]
            /\ earlyQueued' = IF cancelled THEN earlyQueued ELSE earlyQueued \cup {q}
       ELSE /\ at' = [at EXCEPT ![q] = "dropped"]
            /\ UNCHANGED <<records, earlyQueued>>
    /\ UNCHANGED <<tries, resp, writerVars, cancelled, netVars, exited>>

-----------------------------------------------------------------------------
\* Writer.Run

\* Mutant: newest record first.
TakeStack ==
    /\ writer = "select" /\ ~ stopping
    /\ records # <<>>
    /\ buf' = <<Head(records)>> \o buf
    /\ records' = Tail(records)
    /\ writer' = IF Len(buf') >= BatchSize THEN "flush" ELSE "select"
    /\ UNCHANGED <<at, tries, resp, stopping, log, announced, lost,
                   cancelled, netVars, exited, earlyQueued>>

\* case rec := <-w.in
Take ==
    /\ writer = "select" /\ ~ stopping
    /\ records # <<>>
    /\ buf' = Append(buf, Head(records))
    /\ records' = Tail(records)
    /\ writer' = IF Len(buf') >= BatchSize THEN "flush" ELSE "select"
    /\ UNCHANGED <<at, tries, resp, stopping, log, announced, lost,
                   cancelled, netVars, exited, earlyQueued>>

\* Mutant: the ticker only writes a full batch.
TickFlushFull ==
    /\ writer = "select" /\ ~ stopping
    /\ Len(buf) >= BatchSize
    /\ writer' = "flush"
    /\ UNCHANGED <<at, tries, resp, records, buf, stopping, log, announced, lost,
                   cancelled, netVars, exited, earlyQueued>>

\* case <-ticker.C
TickFlush ==
    /\ writer = "select" /\ ~ stopping
    /\ buf # <<>>
    /\ writer' = "flush"
    /\ UNCHANGED <<at, tries, resp, records, buf, stopping, log, announced, lost,
                   cancelled, netVars, exited, earlyQueued>>

\* Mutant: the batch is flushed, the channel is not drained (as before 0.2.0).
SeeDoneNoDrain ==
    /\ writer = "select" /\ ~ stopping
    /\ cancelled
    /\ stopping' = TRUE
    /\ writer' = IF buf = <<>> THEN "stopped" ELSE "flush"
    /\ UNCHANGED <<at, tries, resp, records, buf, log, announced, lost,
                   cancelled, netVars, exited, earlyQueued>>

\* case <-ctx.Done()
SeeDone ==
    /\ writer = "select" /\ ~ stopping
    /\ cancelled
    /\ stopping' = TRUE
    /\ UNCHANGED <<at, tries, resp, records, buf, writer, log, announced, lost,
                   cancelled, netVars, exited, earlyQueued>>

\* One turn of the drain loop; its default case flushes and ends Run.
Drain ==
    /\ writer = "select" /\ stopping
    /\ IF records # <<>>
       THEN /\ buf' = Append(buf, Head(records))
            /\ records' = Tail(records)
            /\ UNCHANGED writer
       ELSE /\ writer' = IF buf = <<>> THEN "stopped" ELSE "flush"
            /\ UNCHANGED <<buf, records>>
    /\ UNCHANGED <<at, tries, resp, stopping, log, announced, lost,
                   cancelled, netVars, exited, earlyQueued>>

AfterFlush == IF stopping THEN "stopped" ELSE "select"

\* Mutant: the batch is not reset after the flush.
FlushCommitsNoReset ==
    /\ writer = "flush"
    /\ log' = log \o buf
    /\ writer' = "notify"
    /\ UNCHANGED <<at, tries, resp, records, buf, stopping, announced, lost,
                   cancelled, netVars, exited, earlyQueued>>

\* WriteQueries commits the batch ...
FlushCommits ==
    /\ writer = "flush"
    /\ log' = log \o buf
    /\ buf' = <<>>
    /\ writer' = "notify"
    /\ UNCHANGED <<at, tries, resp, records, stopping, announced, lost,
                   cancelled, netVars, exited, earlyQueued>>

\* ... or returns an error: the batch is discarded and nobody is told.
FlushFails ==
    /\ writer = "flush"
    /\ lost' = lost \cup Elements(buf)
    /\ buf' = <<>>
    /\ writer' = AfterFlush
    /\ UNCHANGED <<at, tries, resp, records, stopping, log, announced,
                   cancelled, netVars, exited, earlyQueued>>

\* OnFlush wakes the query stream hub (module QueryStream).
Notify ==
    /\ writer = "notify"
    /\ announced' = Len(log)
    /\ writer' = AfterFlush
    /\ UNCHANGED <<at, tries, resp, records, buf, stopping, log, lost,
                   cancelled, netVars, exited, earlyQueued>>

-----------------------------------------------------------------------------
\* Listener.Run and run()

\* A signal, or the web server's failure, cancels ctx.
Cancel ==
    /\ ~ cancelled
    /\ cancelled' = TRUE
    /\ UNCHANGED <<at, tries, resp, records, writerVars, netVars, exited, earlyQueued>>

\* A server's socket fails.
ServerFails(n) ==
    /\ n \in Fallible
    /\ accepting[n] /\ ~ cancelled
    /\ accepting' = [accepting EXCEPT ![n] = FALSE]
    /\ UNCHANGED <<at, tries, resp, records, writerVars, cancelled, returned,
                   listener, exited, earlyQueued>>

\* Mutant: each server waits for the other.
ShutdownServerCyclic(n) ==
    /\ cancelled
    /\ accepting[n]
    /\ (Servers \ {n}) \subseteq returned
    /\ accepting' = [accepting EXCEPT ![n] = FALSE]
    /\ UNCHANGED <<at, tries, resp, records, writerVars, cancelled, returned,
                   listener, exited, earlyQueued>>

\* The goroutine that waits for ctx.Done shuts UDP down, waits for its handlers
\* (Shutdown returns when they have), and only then shuts TCP down.
ShutdownServer(n) ==
    /\ cancelled
    /\ accepting[n]
    /\ n = "tcp" => "udp" \in returned
    /\ accepting' = [accepting EXCEPT ![n] = FALSE]
    /\ UNCHANGED <<at, tries, resp, records, writerVars, cancelled, returned,
                   listener, exited, earlyQueued>>

\* ActivateAndServe returns once its server has stopped and its handlers ended.
ServerReturns(n) ==
    /\ ~ accepting[n] /\ n \notin returned
    /\ \A q \in QueriesOf(n) : ~ Handling(q)
    /\ returned' = returned \cup {n}
    /\ UNCHANGED <<at, tries, resp, records, writerVars, cancelled, accepting,
                   listener, exited, earlyQueued>>

\* Listener.Run returns the first server's result; if ctx is not cancelled yet
\* run() cancels it.
ListenerReturns ==
    /\ listener = "running"
    /\ returned # {}
    /\ listener' = "returned"
    /\ cancelled' = TRUE
    /\ UNCHANGED <<at, tries, resp, records, writerVars, accepting, returned,
                   exited, earlyQueued>>

\* workers.Wait and the end of run(): goroutines still in handleQuery die.
Exit ==
    /\ cancelled
    /\ listener = "returned"
    /\ writer = "stopped"
    /\ exited' = TRUE
    /\ UNCHANGED <<at, tries, resp, records, writerVars, cancelled, netVars, earlyQueued>>

Handle(q) == Receive(q) \/ Exchange(q) \/ Reply(q) \/ Enqueue(q)
Write == Take \/ TickFlush \/ SeeDone \/ Drain \/ FlushCommits \/ FlushFails \/ Notify
Serve == \E n \in Servers : ServerFails(n) \/ ShutdownServer(n) \/ ServerReturns(n)

Next ==
    /\ ~ exited
    /\ \/ \E q \in Queries : Handle(q)
       \/ Write
       \/ Serve
       \/ Cancel
       \/ ListenerReturns
       \/ Exit

Spec == Init /\ [][Next]_vars

\* The Go scheduler runs every goroutine that can run, select picks at random
\* among its ready cases, an exchange times out after two seconds, and a
\* transaction ends.  Nothing makes clients send queries, sockets fail or the
\* process receive a signal.
Fairness ==
    /\ \A q \in Queries : WF_vars(~ exited /\ (Exchange(q) \/ Reply(q) \/ Enqueue(q)))
    /\ WF_vars(~ exited /\ Take)
    /\ WF_vars(~ exited /\ TickFlush)
    /\ WF_vars(~ exited /\ SeeDone)
    /\ WF_vars(~ exited /\ Drain)
    /\ WF_vars(~ exited /\ (FlushCommits \/ FlushFails))
    /\ WF_vars(~ exited /\ Notify)
    /\ \A n \in Servers : /\ WF_vars(~ exited /\ ShutdownServer(n))
                          /\ WF_vars(~ exited /\ ServerReturns(n))
    /\ WF_vars(~ exited /\ ListenerReturns)
    /\ WF_vars(~ exited /\ Exit)

FairSpec == Spec /\ Fairness

-----------------------------------------------------------------------------
TypeOK ==
    /\ at \in [Queries -> {"new", "asking", "rejected", "replied",
                           "queued", "dropped"}]
    /\ tries \in [Queries -> 0..Upstreams]
    /\ resp \in [Queries -> {"none", "broken", "ok"}]
    /\ records \in Seq(Queries) /\ Len(records) <= ChanCap
    /\ buf \in Seq(Queries)
    /\ writer \in {"select", "flush", "notify", "stopped"}
    /\ stopping \in BOOLEAN
    /\ log \in Seq(Queries)
    /\ announced \in 0..Len(log)
    /\ lost \subseteq Queries
    /\ cancelled \in BOOLEAN
    /\ accepting \in [Servers -> BOOLEAN]
    /\ returned \subseteq Servers
    /\ listener \in {"running", "returned"}
    /\ exited \in BOOLEAN
    /\ earlyQueued \subseteq Queries

Queued == {q \in Queries : at[q] = "queued"}

\* Every record that was sent on the channel is, at every moment and whatever
\* failed, in exactly one place: the log, the batch, the channel or a batch that
\* could not be written.  It is never logged twice, and nothing else is logged.
Trail == log \o buf \o records
RecordsAccounted ==
    /\ Unique(Trail)
    /\ Elements(Trail) \cap lost = {}
    /\ Elements(Trail) \cup lost = Queued

\* A batch is written as soon as it is full: only the drain at shutdown may build
\* a larger one.
BatchBounded ==
    /\ ~ stopping => Len(buf) <= BatchSize
    /\ writer = "select" /\ ~ stopping => Len(buf) < BatchSize

\* When the writer stops, what was on the channel or in the batch when ctx was
\* cancelled has been written (or its transaction failed): the drain leaves
\* nothing of it behind.  Records sent later may be left in the channel.
DrainComplete ==
    writer = "stopped" => earlyQueued \cap (Elements(buf) \cup Elements(records)) = {}

\* What makes BatchBounded and DrainComplete inductive: a flush is never empty,
\* and once the drain has found the channel empty only records sent after the
\* cancellation can be in it.
WriterInv ==
    /\ writer = "flush" => buf # <<>>
    /\ writer \in {"notify", "stopped"} => buf = <<>>
    /\ writer = "stopped" => stopping
    /\ stopping => cancelled
    /\ BatchBounded
    /\ earlyQueued \subseteq Queued
    /\ stopping /\ writer # "select" => earlyQueued \cap Elements(records) = {}

\* The pipeline is a queue log: batches leave the front of batch-and-channel
\* whole and in order, and nothing happens after the exit.
QL == INSTANCE QueryLog WITH accepted <- Queued, pending <- buf \o records,
                             log <- log, closed <- exited
ImplementsQueryLog == QL!Spec

\* Without further traffic, the ticker included, a record that was sent is in
\* the end known to the query stream, or its transaction failed, or the process
\* exits.
InLogSoFar(q) == q \in {log[i] : i \in 1..announced}
EventuallyAnnounced ==
    \A q \in Queries :
        at[q] = "queued" ~> (InLogSoFar(q) \/ q \in lost \/ exited)

\* Once ctx is cancelled, or a server has died, the process exits: no worker
\* waits for another that waits for it.
ShutdownCompletes == (cancelled \/ returned # {}) ~> exited
=============================================================================
