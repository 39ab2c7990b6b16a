----------------------------- MODULE Lifecycle -----------------------------
(***************************************************************************)
(* The life of the process: run() of cmd/umberrelay/main.go starts the     *)
(* workers one after the other, waits for a signal or for the error of the *)
(* DNS listener or of the web server, cancels ctx, waits for the workers   *)
(* and closes the database.  Of the workers only what matters to that is   *)
(* here: the two servers of Listener.Run (internal/dns/listener.go), and   *)
(* the goroutine with which Server.ListenAndServe (internal/web/server.go) *)
(* ends the live streams, the requests and the refresh job.                *)
(*                                                                         *)
(* External: dns.Server.Shutdown does nothing but return an error when     *)
(* that server has not started yet, and http.Server remembers that it was  *)
(* shut down, even before ListenAndServe is called.                        *)
(***************************************************************************)
EXTENDS Naturals, Sequences

CONSTANTS AllWorkers, \* in the order of run(): tracker, manager, listener, writer, purge, web
          Requests    \* HTTP requests

Workers == {AllWorkers[i] : i \in 1..Len(AllWorkers)}

ASSUME LifecycleAssumption ==
    /\ AllWorkers \in Seq(STRING) /\ {"listener", "web"} \subseteq Workers
    /\ AllWorkers[Len(AllWorkers)] = "web"
    /\ \A i, j \in 1..Len(AllWorkers) : AllWorkers[i] = AllWorkers[j] => i = j

Servers == {"udp", "tcp"}
Reporters == {"listener", "web"}  \* those that send on errCh
ErrCap == 2                       \* the capacity of errCh

VARIABLES
    demo,      \* -demo-data: only the web server is started
    main,      \* where run() is
    cancelled, \* ctx
    signalled, \* SIGTERM or SIGINT has been received
    worker,    \* the goroutines of workers
    errCh,
    runErr,
    sent,      \* history: the errors that were ever sent
    server,    \* the listener's two servers
    stopper,   \* Listener.Run's goroutine that waits for ctx
    http,      \* the HTTP server's socket
    shut,      \* http.Server.Shutdown has been called
    hook,      \* ListenAndServe's goroutine that waits for ctx
    hubClosed, \* queryHub.Close has ended the streams
    request,   \* the handlers
    job,       \* the list refresh that a request starts
    background \* backgroundCancel has been called

vars == <<demo, main, cancelled, signalled, worker, errCh, runErr, sent, server, stopper,
          http, shut, hook, hubClosed, request, job, background>>
mainVars == <<demo, main, signalled, runErr>>
dnsVars == <<server, stopper>>
webVars == <<http, shut, hook, hubClosed, request, job, background>>

\* The workers that run() starts.
Order == IF demo THEN <<"web">> ELSE AllWorkers

Init ==
    /\ demo \in BOOLEAN /\ main = "opening"
    /\ cancelled = FALSE /\ signalled = FALSE
    /\ worker = [w \in Workers |-> "off"]
    /\ errCh = <<>> /\ runErr = "none" /\ sent = <<>>
    /\ server = [n \in Servers |-> "off"] /\ stopper = "off"
    /\ http = "new" /\ shut = FALSE /\ hook = "off" /\ hubClosed = FALSE
    /\ request = [r \in Requests |-> "none"]
    /\ job = "off" /\ background = FALSE

-----------------------------------------------------------------------------
\* run()

\* The configuration, the data directory, the database and the demo data; each of
\* them may fail, and the error is what run returns.
Start ==
    /\ main = "opening"
    /\ \/ main' = "starting" /\ UNCHANGED runErr
       \/ main' = "closed" /\ runErr' = "start"
    /\ UNCHANGED <<demo, cancelled, signalled, worker, errCh, sent, dnsVars, webVars>>

\* The next worker; what run() does in between, like the first refresh of the
\* lists, only takes time.  With the last one started it waits in its select.
StartWorker ==
    /\ main = "starting"
    /\ \E i \in 1..Len(Order) :
         /\ worker[Order[i]] = "off" /\ \A j \in 1..i - 1 : worker[Order[j]] # "off"
         /\ worker' = [worker EXCEPT ![Order[i]] = IF Order[i] \in Reporters THEN "binding" ELSE "running"]
         /\ main' = IF i = Len(Order) THEN "select" ELSE "starting"
         /\ hook' = IF Order[i] = "web" THEN "waiting" ELSE hook
    /\ UNCHANGED <<demo, cancelled, signalled, errCh, runErr, sent, dnsVars, http, shut, hubClosed,
                   request, job, background>>

\* The goroutine that waits for sigs takes one signal; no other has an effect.
Signal ==
    /\ main \notin {"opening", "closed", "exited"} /\ ~ signalled
    /\ signalled' = TRUE /\ cancelled' = TRUE
    /\ UNCHANGED <<demo, main, worker, errCh, runErr, sent, dnsVars, webVars>>

\* The select: with both cases ready either may be taken.
SelectDone ==
    /\ main = "select" /\ cancelled
    /\ main' = "wait"
    /\ UNCHANGED <<demo, cancelled, signalled, worker, errCh, runErr, sent, dnsVars, webVars>>

SelectErr ==
    /\ main = "select" /\ errCh # <<>>
    /\ runErr' = Head(errCh) /\ errCh' = Tail(errCh)
    /\ main' = "wait" /\ cancelled' = TRUE
    /\ UNCHANGED <<demo, signalled, worker, sent, dnsVars, webVars>>

AllEnded == \A w \in Workers : worker[w] \in {"off", "ended"}

\* Mutant: nobody looks into errCh again.
WaitForget ==
    /\ main = "wait" /\ AllEnded
    /\ main' = "closed"
    /\ UNCHANGED <<demo, cancelled, signalled, worker, errCh, runErr, sent, dnsVars, webVars>>

\* workers.Wait, the look into errCh, and the deferred db.Close.
Wait ==
    /\ main = "wait" /\ AllEnded
    /\ main' = "closed"
    /\ IF errCh = <<>> THEN UNCHANGED <<errCh, runErr>>
       ELSE /\ errCh' = Tail(errCh)
            /\ runErr' = IF runErr = "none" THEN Head(errCh) ELSE runErr
    /\ UNCHANGED <<demo, cancelled, signalled, worker, sent, dnsVars, webVars>>

\* main returns: whatever still runs dies.
Exit ==
    /\ main = "closed"
    /\ main' = "exited"
    /\ UNCHANGED <<demo, cancelled, signalled, worker, errCh, runErr, sent, dnsVars, webVars>>

Run == Start \/ StartWorker \/ SelectDone \/ SelectErr \/ Wait \/ Exit

-----------------------------------------------------------------------------
\* The workers

\* The tracker, the manager, the writer and the purge end when ctx is done.
PlainEnds(w) ==
    /\ w \notin Reporters /\ worker[w] = "running" /\ cancelled
    /\ worker' = [worker EXCEPT ![w] = "ended"]
    /\ UNCHANGED <<mainVars, cancelled, errCh, sent, dnsVars, webVars>>

\* A worker's function has returned: its error is worth reporting while ctx is not done.
Returned(w, failed) ==
    worker' = [worker EXCEPT ![w] = IF failed /\ ~ cancelled THEN "sending" ELSE "ended"]

\* The send never blocks, and is followed by cancel.
Report(w) ==
    /\ worker[w] = "sending"
    /\ IF Len(errCh) < ErrCap THEN errCh' = Append(errCh, w) ELSE UNCHANGED errCh
    /\ sent' = Append(sent, w)
    /\ worker' = [worker EXCEPT ![w] = "cancelling"]
    /\ UNCHANGED <<mainVars, cancelled, dnsVars, webVars>>

CancelAll(w) ==
    /\ worker[w] = "cancelling"
    /\ cancelled' = TRUE
    /\ worker' = [worker EXCEPT ![w] = "ended"]
    /\ UNCHANGED <<mainVars, errCh, sent, dnsVars, webVars>>

\* Listener.Run binds both sockets and starts three goroutines.
ListenerBinds ==
    /\ worker["listener"] = "binding"
    /\ \/ /\ worker' = [worker EXCEPT !["listener"] = "running"]
          /\ server' = [n \in Servers |-> "bound"] /\ stopper' = "waiting"
       \/ Returned("listener", TRUE) /\ UNCHANGED dnsVars
    /\ UNCHANGED <<mainVars, cancelled, errCh, sent, webVars>>

\* ActivateAndServe.
Activate(n) ==
    /\ server[n] = "bound"
    /\ server' = [server EXCEPT ![n] = "serving"]
    /\ UNCHANGED <<mainVars, cancelled, worker, errCh, sent, stopper, webVars>>

ServerFails(n) ==
    /\ server[n] = "serving"
    /\ server' = [server EXCEPT ![n] = "failed"]
    /\ UNCHANGED <<mainVars, cancelled, worker, errCh, sent, stopper, webVars>>

\* Shutdown of one server, then of the other; one that is not started is not stopped.
StopServer(n) ==
    /\ cancelled /\ stopper = IF n = "udp" THEN "waiting" ELSE "tcp"
    /\ server' = [server EXCEPT ![n] = IF @ = "serving" THEN "stopped" ELSE @]
    /\ stopper' = IF n = "udp" THEN "tcp" ELSE "done"
    /\ UNCHANGED <<mainVars, cancelled, worker, errCh, sent, webVars>>

\* Listener.Run returns what the first server returns.
ListenerReturns ==
    /\ worker["listener"] = "running"
    /\ \E n \in Servers : /\ server[n] \in {"stopped", "failed"}
                          /\ Returned("listener", server[n] = "failed")
    /\ UNCHANGED <<mainVars, cancelled, errCh, sent, dnsVars, webVars>>

Dns == ListenerBinds \/ ListenerReturns \/ \E n \in Servers : Activate(n) \/ StopServer(n)

-----------------------------------------------------------------------------
\* ListenAndServe

\* srv.ListenAndServe binds its socket, unless Shutdown has come first.
WebBinds ==
    /\ worker["web"] = "binding"
    /\ \/ /\ shut
          /\ worker' = [worker EXCEPT !["web"] = "stopping"] /\ UNCHANGED http
       \/ /\ ~ shut
          /\ worker' = [worker EXCEPT !["web"] = "running"] /\ http' = "listening"
       \/ /\ ~ shut
          /\ Returned("web", TRUE) /\ http' = "unbound"
    /\ UNCHANGED <<mainVars, cancelled, errCh, sent, dnsVars, shut, hook, hubClosed, request,
                   job, background>>

\* The socket fails: the error is returned at once, and nobody waits for the hook.
WebFails ==
    /\ worker["web"] = "running" /\ ~ shut
    /\ Returned("web", TRUE) /\ http' = "broken"
    /\ UNCHANGED <<mainVars, cancelled, errCh, sent, dnsVars, shut, hook, hubClosed, request,
                   job, background>>

\* ErrServerClosed.
WebServerClosed ==
    /\ worker["web"] = "running" /\ shut
    /\ worker' = [worker EXCEPT !["web"] = "stopping"]
    /\ UNCHANGED <<mainVars, cancelled, errCh, sent, dnsVars, webVars>>

\* Mutant: ListenAndServe returns without waiting for its goroutine.
WebReturnsAtOnce ==
    /\ worker["web"] = "stopping"
    /\ worker' = [worker EXCEPT !["web"] = "ended"]
    /\ UNCHANGED <<mainVars, cancelled, errCh, sent, dnsVars, webVars>>

\* <-stopped, and run() takes ErrServerClosed for no error.
WebReturns ==
    /\ worker["web"] = "stopping" /\ hook = "stopped"
    /\ worker' = [worker EXCEPT !["web"] = "ended"]
    /\ UNCHANGED <<mainVars, cancelled, errCh, sent, dnsVars, webVars>>

\* queryHub.Close ends the live streams.
HookClosesHub ==
    /\ hook = "waiting" /\ cancelled
    /\ hubClosed' = TRUE /\ hook' = "hub"
    /\ UNCHANGED <<mainVars, cancelled, worker, errCh, sent, dnsVars, http, shut, request, job,
                   background>>

\* Shutdown closes the socket, and waits for the requests.
HookShutsDown ==
    /\ hook = "hub"
    /\ shut' = TRUE /\ hook' = "shutdown"
    /\ UNCHANGED <<mainVars, cancelled, worker, errCh, sent, dnsVars, http, hubClosed, request,
                   job, background>>

Served == {r \in Requests : request[r] \in {"busy", "answering", "streaming", "deaf"}}

\* Mutant: Shutdown has no timeout.
ShutdownPatient ==
    /\ hook = "shutdown" /\ Served = {}
    /\ background' = TRUE /\ hook' = "jobs"
    /\ UNCHANGED <<mainVars, cancelled, worker, errCh, sent, dnsVars, http, shut, hubClosed,
                   request, job>>

\* It returns when there is none left, or after httpShutdownTimeout: then Close cuts
\* the connections of those that are.  Server.Close calls backgroundCancel.
ShutdownReturns ==
    /\ hook = "shutdown"
    /\ request' = [r \in Requests |-> IF r \in Served THEN "cut" ELSE request[r]]
    /\ background' = TRUE /\ hook' = "jobs"
    /\ UNCHANGED <<mainVars, cancelled, worker, errCh, sent, dnsVars, http, shut, hubClosed, job>>

\* refreshJobs.Wait, and the end of Server.Close.
HookStops ==
    /\ hook = "jobs" /\ job = "off"
    /\ hook' = "stopped"
    /\ UNCHANGED <<mainVars, cancelled, worker, errCh, sent, dnsVars, http, shut, hubClosed,
                   request, job, background>>

\* A request: one that subscribes to the hub after it was closed hears of nothing.
Receive(r) ==
    /\ request[r] = "none" /\ http = "listening" /\ ~ shut
    /\ \E kind \in {"busy", IF hubClosed THEN "deaf" ELSE "streaming"} :
         request' = [request EXCEPT ![r] = kind]
    /\ UNCHANGED <<mainVars, cancelled, worker, errCh, sent, dnsVars, http, shut, hook, hubClosed,
                   job, background>>

\* refreshClassificationAsync, even after the connection was cut; once a request.
StartJob(r) ==
    /\ request[r] \in {"busy", "cut"} /\ job = "off"
    /\ job' = "started"
    /\ request' = [request EXCEPT ![r] = IF @ = "busy" THEN "answering" ELSE "done"]
    /\ UNCHANGED <<mainVars, cancelled, worker, errCh, sent, dnsVars, http, shut, hook, hubClosed,
                   background>>

\* The job looks at its context before it reads the lists.
JobLooks ==
    /\ job = "started"
    /\ job' = IF background THEN "off" ELSE "working"
    /\ UNCHANGED <<mainVars, cancelled, worker, errCh, sent, dnsVars, http, shut, hook, hubClosed,
                   request, background>>

JobEnds ==
    /\ job = "working"
    /\ job' = "off"
    /\ UNCHANGED <<mainVars, cancelled, worker, errCh, sent, dnsVars, http, shut, hook, hubClosed,
                   request, background>>

\* An answer is complete, the client has gone away, or the stream's channel is closed.
RequestEnds(r) ==
    /\ request[r] \in {"busy", "answering", "streaming", "deaf", "cut"}
    /\ request' = [request EXCEPT ![r] = "done"]
    /\ UNCHANGED <<mainVars, cancelled, worker, errCh, sent, dnsVars, http, shut, hook, hubClosed,
                   job, background>>

Web == WebBinds \/ WebServerClosed \/ WebReturns
Hook == HookClosesHub \/ HookShutsDown \/ ShutdownReturns \/ HookStops
Job == JobLooks \/ JobEnds

Next ==
    \/ Run
    \/ /\ main # "exited"
       /\ \/ Signal
          \/ \E w \in Workers : PlainEnds(w) \/ Report(w) \/ CancelAll(w)
          \/ Dns \/ \E n \in Servers : ServerFails(n)
          \/ Web \/ WebFails \/ Hook \/ Job
          \/ \E r \in Requests : Receive(r) \/ StartJob(r) \/ RequestEnds(r)

\* The scheduler runs every goroutine that can go on; sockets need not fail,
\* signals and requests need not come, and requests need not end.
Fairness ==
    /\ WF_vars(Run)
    /\ \A w \in Workers : WF_vars(main # "exited" /\ (PlainEnds(w) \/ Report(w) \/ CancelAll(w)))
    /\ WF_vars(main # "exited" /\ (ListenerBinds \/ ListenerReturns))
    /\ \A n \in Servers : WF_vars(main # "exited" /\ Activate(n))
    /\ WF_vars(main # "exited" /\ \E n \in Servers : StopServer(n))
    /\ WF_vars(main # "exited" /\ Web)
    /\ WF_vars(main # "exited" /\ Hook)
    /\ WF_vars(main # "exited" /\ Job)

Spec == Init /\ [][Next]_vars /\ Fairness

-----------------------------------------------------------------------------
TypeOK ==
    /\ demo \in BOOLEAN /\ cancelled \in BOOLEAN /\ signalled \in BOOLEAN
    /\ main \in {"opening", "starting", "select", "wait", "closed", "exited"}
    /\ worker \in [Workers -> {"off", "binding", "running", "sending", "cancelling", "stopping", "ended"}]
    /\ errCh \in Seq(Reporters) /\ sent \in Seq(Reporters)
    /\ runErr \in Reporters \cup {"none", "start"}
    /\ server \in [Servers -> {"off", "bound", "serving", "stopped", "failed"}]
    /\ stopper \in {"off", "waiting", "tcp", "done"}
    /\ http \in {"new", "listening", "unbound", "broken"} /\ shut \in BOOLEAN
    /\ hook \in {"off", "waiting", "hub", "shutdown", "jobs", "stopped"}
    /\ hubClosed \in BOOLEAN /\ background \in BOOLEAN
    /\ request \in [Requests -> {"none", "busy", "answering", "streaming", "deaf", "cut", "done"}]
    /\ job \in {"off", "started", "working"}

Closed == main \in {"closed", "exited"}

\* run() returns the first error that a worker reported, whichever case its select
\* took and whatever was cancelled meanwhile; and it returns none only after a signal.
ExitExplained ==
    Closed /\ runErr # "start" =>
        /\ sent # <<>> => runErr = sent[1]
        /\ sent = <<>> => runErr = "none" /\ signalled

\* When the database is closed every worker has ended; unless the HTTP server's
\* socket had failed, the hook has ended too, no refresh is at work, and no request
\* is being served but those whose connection was cut after the timeout.
DbClosedLast ==
    Closed => /\ AllEnded
              /\ http # "broken" => /\ job # "working" /\ Served = {}
                                    /\ http = "listening" => hook = "stopped"

\* Both servers of the listener were told to stop before they had started.
Unstoppable == stopper = "done" /\ \A n \in Servers : server[n] \in {"bound", "serving"}

\* Once ctx is cancelled the program ends, whatever streams, requests and refreshes
\* are in progress, unless the cancellation overtook the start of both DNS servers.
ShutdownCompletes == cancelled ~> (main = "exited" \/ Unstoppable)
=============================================================================
