--------------------------- MODULE LifecycleProofs ---------------------------
(***************************************************************************)
(* The life of the process, for any list of workers and any requests: what *)
(* run() returns is the first error that was reported, and the database is *)
(* closed when nobody can use it any more.                                 *)
(***************************************************************************)
EXTENDS Lifecycle, SequenceTheorems, TLAPS

WorkerStates == {"off", "binding", "running", "sending", "cancelling", "stopping", "ended"}

\* Only the listener and the web server ever have an error to report.
ReportersOnly ==
    \A w \in Workers : worker[w] \in {"binding", "sending", "cancelling", "stopping"} => w \in Reporters

\* The workers that run() starts are workers.
LEMMA OrderedWorkers ==
    ASSUME NEW i \in 1..Len(Order)
    PROVE  Order[i] \in Workers
<1>1. CASE demo
  <2>1. Order = <<"web">>
    BY <1>1 DEF Order
  <2>2. i = 1
    BY <2>1
  <2> QED
    BY <2>1, <2>2, LifecycleAssumption DEF LifecycleAssumption
<1>2. CASE ~ demo
  BY <1>2 DEF Order, Workers
<1> QED
  BY <1>1, <1>2

LEMMA TypeInit == Init => TypeOK /\ ReportersOnly
<1> SUFFICES ASSUME Init PROVE TypeOK /\ ReportersOnly
  OBVIOUS
<1>1. errCh \in Seq(Reporters) /\ sent \in Seq(Reporters)
  BY DEF Init
<1>2. ReportersOnly
  BY DEF Init, ReportersOnly
<1> QED
  BY <1>1, <1>2 DEF Init, TypeOK

LEMMA TypeStep == TypeOK /\ ReportersOnly /\ [Next]_vars => TypeOK' /\ ReportersOnly'
<1> SUFFICES ASSUME TypeOK, ReportersOnly, [Next]_vars PROVE TypeOK' /\ ReportersOnly'
  OBVIOUS
<1> USE DEF TypeOK, ReportersOnly, mainVars, dnsVars, webVars
<1>1. CASE Start
  BY <1>1 DEF Start
<1>2. CASE StartWorker
  <2>1. PICK i \in 1..Len(Order) :
           /\ worker' = [worker EXCEPT ![Order[i]] = IF Order[i] \in Reporters THEN "binding" ELSE "running"]
           /\ main' = IF i = Len(Order) THEN "select" ELSE "starting"
           /\ hook' = IF Order[i] = "web" THEN "waiting" ELSE hook
    BY <1>2 DEF StartWorker
  <2>2. UNCHANGED <<demo, cancelled, signalled, errCh, runErr, sent, dnsVars, http, shut, hubClosed,
                    request, job, background>>
    BY <1>2 DEF StartWorker
  <2>3. Order[i] \in Workers
    BY OrderedWorkers
  <2>4. worker' \in [Workers -> WorkerStates] /\ ReportersOnly'
    BY <2>1, <2>3 DEF WorkerStates
  <2>5. main' \in {"select", "starting"} /\ hook' \in {"waiting", hook}
    BY <2>1
  <2> QED
    BY <2>2, <2>4, <2>5 DEF WorkerStates
<1>3. CASE Signal
  BY <1>3 DEF Signal
<1>4. CASE SelectDone
  BY <1>4 DEF SelectDone
<1>5. CASE SelectErr
  <2>1. Head(errCh) \in Reporters /\ Tail(errCh) \in Seq(Reporters)
    BY <1>5 DEF SelectErr
  <2> QED
    BY <1>5, <2>1 DEF SelectErr
<1>6. CASE Wait
  <2>1. errCh' \in Seq(Reporters) /\ runErr' \in Reporters \cup {"none", "start"}
    <3>1. CASE errCh # <<>>
      <4>1. Head(errCh) \in Reporters /\ Tail(errCh) \in Seq(Reporters)
        BY <3>1
      <4>2. errCh' = Tail(errCh) /\ runErr' \in {Head(errCh), runErr}
        BY <1>6, <3>1 DEF Wait
      <4> QED
        BY <4>1, <4>2
    <3>2. CASE errCh = <<>>
      BY <1>6, <3>2 DEF Wait
    <3> QED
      BY <3>1, <3>2
  <2>2. main' = "closed" /\ UNCHANGED <<demo, cancelled, signalled, worker, sent, dnsVars, webVars>>
    BY <1>6 DEF Wait
  <2> QED
    BY <2>1, <2>2
<1>7. CASE Exit
  BY <1>7 DEF Exit
<1>8. ASSUME NEW w \in Workers, PlainEnds(w) PROVE TypeOK' /\ ReportersOnly'
  BY <1>8 DEF PlainEnds
<1>9. ASSUME NEW w \in Workers, Report(w) PROVE TypeOK' /\ ReportersOnly'
  <2>1. w \in Reporters
    BY <1>9 DEF Report
  <2>2. errCh' \in Seq(Reporters) /\ sent' \in Seq(Reporters)
    <3>1. Append(errCh, w) \in Seq(Reporters) /\ Append(sent, w) \in Seq(Reporters)
      BY <2>1
    <3>2. errCh' \in {errCh, Append(errCh, w)} /\ sent' = Append(sent, w)
      BY <1>9 DEF Report
    <3> QED
      BY <3>1, <3>2
  <2>3. /\ worker' = [worker EXCEPT ![w] = "cancelling"]
        /\ UNCHANGED <<mainVars, cancelled, dnsVars, webVars>>
    BY <1>9 DEF Report
  <2> QED
    BY <2>1, <2>2, <2>3
<1>10. ASSUME NEW w \in Workers, CancelAll(w) PROVE TypeOK' /\ ReportersOnly'
  BY <1>10 DEF CancelAll
<1>11. CASE ListenerBinds
  BY <1>11, LifecycleAssumption DEF ListenerBinds, Returned, LifecycleAssumption, Reporters
<1>12. CASE ListenerReturns
  BY <1>12, LifecycleAssumption DEF ListenerReturns, Returned, LifecycleAssumption, Reporters
<1>13. ASSUME NEW n \in Servers, Activate(n) PROVE TypeOK' /\ ReportersOnly'
  BY <1>13 DEF Activate
<1>14. ASSUME NEW n \in Servers, StopServer(n) PROVE TypeOK' /\ ReportersOnly'
  BY <1>14 DEF StopServer
<1>15. ASSUME NEW n \in Servers, ServerFails(n) PROVE TypeOK' /\ ReportersOnly'
  BY <1>15 DEF ServerFails
<1>16. CASE WebBinds
  <2>1. UNCHANGED <<mainVars, cancelled, errCh, sent, dnsVars, shut, hook, hubClosed, request, job,
                    background>>
    BY <1>16 DEF WebBinds
  <2>2. /\ http' \in {"listening", "unbound", http}
        /\ \E place \in {"running", "stopping", "sending", "ended"} :
              worker' = [worker EXCEPT !["web"] = place]
    BY <1>16 DEF WebBinds, Returned
  <2>3. "web" \in Workers /\ "web" \in Reporters
    BY LifecycleAssumption DEF LifecycleAssumption, Reporters
  <2>4. worker' \in [Workers -> WorkerStates] /\ ReportersOnly'
    BY <2>2, <2>3 DEF WorkerStates
  <2> QED
    BY <2>1, <2>2, <2>4 DEF WorkerStates
<1>17. CASE WebFails
  BY <1>17, LifecycleAssumption DEF WebFails, Returned, LifecycleAssumption, Reporters
<1>18. CASE WebServerClosed
  BY <1>18, LifecycleAssumption DEF WebServerClosed, Returned, LifecycleAssumption, Reporters
<1>19. CASE WebReturns
  BY <1>19, LifecycleAssumption DEF WebReturns, Returned, LifecycleAssumption, Reporters
<1>20. CASE HookClosesHub
  BY <1>20 DEF HookClosesHub
<1>21. CASE HookShutsDown
  BY <1>21 DEF HookShutsDown
<1>22. CASE ShutdownReturns
  BY <1>22 DEF ShutdownReturns
<1>23. CASE HookStops
  BY <1>23 DEF HookStops
<1>24. CASE JobLooks
  BY <1>24 DEF JobLooks
<1>25. CASE JobEnds
  BY <1>25 DEF JobEnds
<1>26. ASSUME NEW r \in Requests, Receive(r) PROVE TypeOK' /\ ReportersOnly'
  BY <1>26 DEF Receive
<1>27. ASSUME NEW r \in Requests, StartJob(r) PROVE TypeOK' /\ ReportersOnly'
  BY <1>27 DEF StartJob
<1>28. ASSUME NEW r \in Requests, RequestEnds(r) PROVE TypeOK' /\ ReportersOnly'
  BY <1>28 DEF RequestEnds
<1>29. CASE UNCHANGED vars
  BY <1>29 DEF vars
<1> QED
  BY <1>1, <1>2, <1>3, <1>4, <1>5, <1>6, <1>7, <1>8, <1>9, <1>10, <1>11, <1>12, <1>13, <1>14, <1>15,
     <1>16, <1>17, <1>18, <1>19, <1>20, <1>21, <1>22, <1>23, <1>24, <1>25, <1>26, <1>27, <1>28, <1>29
  DEF Next, Run, Dns, Web, Hook, Job

\* Every variable keeps its type, and errCh and the errors sent are those of the
\* listener and the web server.
THEOREM TypeCorrect == Spec => []TypeOK
BY TypeInit, TypeStep, PTL DEF Spec

-----------------------------------------------------------------------------
(* What run() returns.  Until somebody takes it, the first error that was  *)
(* sent is the first in errCh; ctx is cancelled for a reason.              *)

ErrInv ==
    /\ main = "opening" => AllEnded
    /\ main \in {"opening", "starting", "select"} => runErr = "none"
    /\ main = "wait" => cancelled
    /\ cancelled => signalled \/ sent # <<>>
    /\ \A w \in Workers : worker[w] = "cancelling" => sent # <<>>
    /\ ~ Closed => IF runErr # "none" THEN sent # <<>> /\ runErr = sent[1]
                   ELSE IF sent = <<>> THEN errCh = <<>>
                   ELSE errCh # <<>> /\ Head(errCh) = sent[1]
    /\ Closed => AllEnded
    /\ ExitExplained

LEMMA ErrInit == Init => ErrInv
BY DEF Init, ErrInv, ExitExplained, Closed, AllEnded

\* A step that neither reports, cancels nor is one of run().
LEMMA ErrUntouched ==
    ASSUME ErrInv,
           UNCHANGED <<main, cancelled, signalled, runErr, errCh, sent>>,
           AllEnded => AllEnded',
           \A w \in Workers : worker'[w] = "cancelling" => worker[w] = "cancelling"
    PROVE  ErrInv'
BY DEF ErrInv, ExitExplained, Closed

LEMMA ErrStep == TypeOK /\ ReportersOnly /\ ErrInv /\ [Next]_vars => ErrInv'
<1> SUFFICES ASSUME TypeOK, ReportersOnly, ErrInv, [Next]_vars PROVE ErrInv'
  OBVIOUS
<1> USE DEF mainVars
<1>1. CASE Start
  BY <1>1 DEF Start, ErrInv, ExitExplained, Closed, AllEnded
<1>2. CASE StartWorker
  <2>1. PICK i \in 1..Len(Order) :
           worker' = [worker EXCEPT ![Order[i]] = IF Order[i] \in Reporters THEN "binding" ELSE "running"]
    BY <1>2 DEF StartWorker
  <2>2. /\ main = "starting" /\ main' \in {"starting", "select"}
        /\ UNCHANGED <<cancelled, signalled, runErr, errCh, sent>>
    BY <1>2 DEF StartWorker
  <2>3. \A w \in Workers : worker'[w] = "cancelling" => worker[w] = "cancelling"
    BY <2>1, OrderedWorkers DEF TypeOK
  <2> QED
    BY <2>2, <2>3 DEF ErrInv, ExitExplained, Closed
<1>3. CASE Signal
  BY <1>3 DEF Signal, ErrInv, ExitExplained, Closed, AllEnded
<1>4. CASE SelectDone
  BY <1>4 DEF SelectDone, ErrInv, ExitExplained, Closed, AllEnded
<1>5. CASE SelectErr
  <2>1. runErr = "none" /\ errCh # <<>> /\ sent # <<>> /\ Head(errCh) = sent[1]
    BY <1>5 DEF SelectErr, ErrInv, Closed
  <2>2. /\ main' = "wait" /\ runErr' = sent[1] /\ cancelled'
        /\ UNCHANGED <<signalled, worker, sent>>
    BY <1>5, <2>1 DEF SelectErr
  <2>3. runErr' # "none"
    BY <2>1, <2>2, LenProperties, ElementOfSeq DEF TypeOK, Reporters
  <2> QED
    BY <2>1, <2>2, <2>3 DEF ErrInv, ExitExplained, Closed
<1>6. CASE Wait
  <2>1. main = "wait" /\ AllEnded /\ main' = "closed" /\ UNCHANGED <<cancelled, signalled, worker, sent>>
    BY <1>6 DEF Wait
  <2>2. sent = <<>> => signalled /\ errCh = <<>> /\ runErr = "none"
    BY <2>1 DEF ErrInv, Closed
  <2>3. sent # <<>> => runErr' = sent[1]
    BY <1>6, <2>1 DEF Wait, ErrInv, Closed
  <2>4. sent = <<>> => runErr' = "none"
    BY <1>6, <2>2 DEF Wait
  <2> QED
    BY <2>1, <2>2, <2>3, <2>4 DEF ErrInv, ExitExplained, Closed, AllEnded
<1>7. CASE Exit
  BY <1>7 DEF Exit, ErrInv, ExitExplained, Closed, AllEnded
<1>8. ASSUME NEW w \in Workers, PlainEnds(w) PROVE ErrInv'
  BY <1>8, ErrUntouched DEF PlainEnds, AllEnded, TypeOK
<1>9. ASSUME NEW w \in Workers, Report(w) PROVE ErrInv'
  <2>1. ~ Closed /\ main # "opening"
    BY <1>9 DEF Report, ErrInv, AllEnded
  <2>2. w \in Reporters /\ UNCHANGED <<main, cancelled, signalled, runErr>> /\ sent' = Append(sent, w)
    BY <1>9 DEF Report, ReportersOnly
  <2>3. sent' # <<>> /\ sent'[1] = IF sent = <<>> THEN w ELSE sent[1]
    BY <2>2 DEF TypeOK
  <2>4. CASE runErr # "none"
    BY <2>1, <2>2, <2>3, <2>4 DEF ErrInv, ExitExplained, Closed
  <2>5. CASE runErr = "none"
    <3>1. errCh' # <<>> /\ Head(errCh') = sent'[1]
      <4>1. CASE sent = <<>>
        <5>1. errCh = <<>>
          BY <2>1, <2>5, <4>1 DEF ErrInv
        <5>2. errCh' = <<w>>
          BY <1>9, <5>1 DEF Report, ErrCap
        <5> QED
          BY <2>3, <4>1, <5>2
      <4>2. CASE sent # <<>>
        <5>1. errCh # <<>> /\ Head(errCh) = sent[1]
          BY <2>1, <2>5, <4>2 DEF ErrInv
        <5>2. errCh' \in {errCh, Append(errCh, w)}
          BY <1>9 DEF Report
        <5>3. Append(errCh, w) # <<>> /\ Head(Append(errCh, w)) = Head(errCh)
          BY <2>2, <5>1 DEF TypeOK
        <5> QED
          BY <2>3, <4>2, <5>1, <5>2, <5>3
      <4> QED
        BY <4>1, <4>2
    <3> QED
      BY <2>1, <2>2, <2>3, <2>5, <3>1 DEF ErrInv, ExitExplained, Closed
  <2> QED
    BY <2>4, <2>5
<1>10. ASSUME NEW w \in Workers, CancelAll(w) PROVE ErrInv'
  <2>1. ~ Closed /\ main # "opening" /\ sent # <<>>
    BY <1>10 DEF CancelAll, ErrInv, AllEnded
  <2>2. /\ UNCHANGED <<main, signalled, runErr, errCh, sent>>
        /\ \A v \in Workers : worker'[v] = "cancelling" => worker[v] = "cancelling"
    BY <1>10 DEF CancelAll, TypeOK
  <2>3. IF runErr # "none" THEN runErr = sent[1] ELSE errCh # <<>> /\ Head(errCh) = sent[1]
    BY <2>1 DEF ErrInv
  <2>4. ~ Closed' /\ main' # "opening" /\ (main' \in {"starting", "select"} => runErr' = "none")
    BY <2>1, <2>2 DEF ErrInv, Closed
  <2> QED
    BY <2>1, <2>2, <2>3, <2>4, <1>10 DEF ErrInv, ExitExplained, CancelAll
<1>11. CASE ListenerBinds
  BY <1>11, ErrUntouched, LifecycleAssumption
  DEF ListenerBinds, Returned, AllEnded, TypeOK, LifecycleAssumption
<1>12. CASE ListenerReturns
  BY <1>12, ErrUntouched, LifecycleAssumption
  DEF ListenerReturns, Returned, AllEnded, TypeOK, LifecycleAssumption
<1>13. CASE WebBinds
  BY <1>13, ErrUntouched, LifecycleAssumption
  DEF WebBinds, Returned, AllEnded, TypeOK, LifecycleAssumption
<1>14. CASE WebFails
  BY <1>14, ErrUntouched, LifecycleAssumption
  DEF WebFails, Returned, AllEnded, TypeOK, LifecycleAssumption
<1>15. CASE WebServerClosed
  BY <1>15, ErrUntouched, LifecycleAssumption
  DEF WebServerClosed, Returned, AllEnded, TypeOK, LifecycleAssumption
<1>16. CASE WebReturns
  BY <1>16, ErrUntouched, LifecycleAssumption
  DEF WebReturns, Returned, AllEnded, TypeOK, LifecycleAssumption
<1>17. ASSUME NEW n \in Servers, Activate(n) PROVE ErrInv'
  BY <1>17, ErrUntouched DEF Activate, AllEnded
<1>18. ASSUME NEW n \in Servers, StopServer(n) PROVE ErrInv'
  BY <1>18, ErrUntouched DEF StopServer, AllEnded
<1>19. ASSUME NEW n \in Servers, ServerFails(n) PROVE ErrInv'
  BY <1>19, ErrUntouched DEF ServerFails, AllEnded
<1>20. CASE Hook \/ Job
  BY <1>20, ErrUntouched
  DEF Hook, HookClosesHub, HookShutsDown, ShutdownReturns, HookStops, Job, JobLooks, JobEnds, AllEnded
<1>21. ASSUME NEW r \in Requests, Receive(r) \/ StartJob(r) \/ RequestEnds(r) PROVE ErrInv'
  BY <1>21, ErrUntouched DEF Receive, StartJob, RequestEnds, AllEnded
<1>22. CASE UNCHANGED vars
  BY <1>22, ErrUntouched DEF vars, AllEnded
<1> QED
  BY <1>1, <1>2, <1>3, <1>4, <1>5, <1>6, <1>7, <1>8, <1>9, <1>10, <1>11,
     <1>12, <1>13, <1>14, <1>15, <1>16, <1>17, <1>18, <1>19, <1>20, <1>21, <1>22
  DEF Next, Run, Dns, Web

\* Whatever is cancelled when, by whom, and whichever case the select of run()
\* takes: the first error reported is the one that the program exits with, and it
\* exits without an error only after a signal.
THEOREM ExitExplainedAlways == Spec => []ExitExplained
<1>1. ErrInv => ExitExplained
  BY DEF ErrInv
<1> QED
  BY <1>1, TypeInit, TypeStep, ErrInit, ErrStep, PTL DEF Spec

-----------------------------------------------------------------------------
(* When the database is closed.  The web worker that did serve can only    *)
(* end behind its hook, and the hook stops when nothing is at work.        *)

WebInv ==
    /\ worker["web"] \in {"off", "binding"} => http = "new"
    /\ worker["web"] \in {"sending", "cancelling"} => http \in {"unbound", "broken"}
    /\ http = "listening" => \/ worker["web"] \in {"running", "stopping"}
                             \/ worker["web"] = "ended" /\ hook = "stopped"
    /\ http \in {"new", "unbound"} => job = "off" /\ \A r \in Requests : request[r] = "none"
    /\ hook \in {"shutdown", "jobs", "stopped"} => shut
    /\ hook \in {"jobs", "stopped"} => background /\ Served = {}
    /\ hook = "stopped" => job # "working"

LEMMA WebInit == Init => WebInv
BY LifecycleAssumption DEF LifecycleAssumption, Init, WebInv, Served

\* A step that does not touch the web server.
LEMMA WebUntouched ==
    ASSUME WebInv, UNCHANGED <<webVars, worker["web"]>>
    PROVE  WebInv'
BY DEF WebInv, Served, webVars

LEMMA WebStep == TypeOK /\ WebInv /\ [Next]_vars => WebInv'
<1> SUFFICES ASSUME TypeOK, WebInv, [Next]_vars PROVE WebInv'
  OBVIOUS
<1>w. "web" \in Workers
  BY LifecycleAssumption DEF LifecycleAssumption
<1>1. CASE Start \/ Signal \/ SelectDone \/ SelectErr \/ Wait \/ Exit
  BY <1>1, WebUntouched DEF Start, Signal, SelectDone, SelectErr, Wait, Exit
<1>2. CASE StartWorker
  <2>1. PICK i \in 1..Len(Order) :
           /\ worker[Order[i]] = "off"
           /\ worker' = [worker EXCEPT ![Order[i]] = IF Order[i] \in Reporters THEN "binding" ELSE "running"]
           /\ hook' = IF Order[i] = "web" THEN "waiting" ELSE hook
    BY <1>2 DEF StartWorker
  <2>2. UNCHANGED <<http, shut, hubClosed, request, job, background>>
    BY <1>2 DEF StartWorker
  <2>3. CASE Order[i] = "web"
    <3>1. worker'["web"] = "binding" /\ hook' = "waiting" /\ http = "new"
      BY <1>w, <2>1, <2>3 DEF TypeOK, Reporters, WebInv
    <3> QED
      BY <2>2, <3>1 DEF WebInv
  <2>4. CASE Order[i] # "web"
    BY <1>w, <2>1, <2>2, <2>4, WebUntouched DEF TypeOK, webVars
  <2> QED
    BY <2>3, <2>4
<1>3. ASSUME NEW w \in Workers, PlainEnds(w) PROVE WebInv'
  BY <1>w, <1>3, WebUntouched DEF PlainEnds, TypeOK, Reporters
<1>4. ASSUME NEW w \in Workers, Report(w) PROVE WebInv'
  <2>1. CASE w # "web"
    BY <1>w, <1>4, <2>1, WebUntouched DEF Report, TypeOK
  <2>2. CASE w = "web"
    BY <1>w, <1>4, <2>2 DEF Report, TypeOK, WebInv, Served, webVars
  <2> QED
    BY <2>1, <2>2
<1>5. ASSUME NEW w \in Workers, CancelAll(w) PROVE WebInv'
  <2>1. CASE w # "web"
    BY <1>w, <1>5, <2>1, WebUntouched DEF CancelAll, TypeOK
  <2>2. CASE w = "web"
    BY <1>w, <1>5, <2>2 DEF CancelAll, TypeOK, WebInv, Served, webVars
  <2> QED
    BY <2>1, <2>2
<1>6. CASE ListenerBinds
  BY <1>w, <1>6, WebUntouched DEF ListenerBinds, Returned, TypeOK
<1>7. CASE ListenerReturns
  BY <1>w, <1>7, WebUntouched DEF ListenerReturns, Returned, TypeOK
<1>8. ASSUME NEW n \in Servers, Activate(n) \/ StopServer(n) \/ ServerFails(n) PROVE WebInv'
  BY <1>8, WebUntouched DEF Activate, StopServer, ServerFails
<1>9. CASE WebBinds
  BY <1>w, <1>9 DEF WebBinds, Returned, TypeOK, WebInv, Served, webVars
<1>10. CASE WebFails
  BY <1>w, <1>10 DEF WebFails, Returned, TypeOK, WebInv, Served, webVars
<1>11. CASE WebServerClosed
  BY <1>w, <1>11 DEF WebServerClosed, Returned, TypeOK, WebInv, Served, webVars
<1>12. CASE WebReturns
  BY <1>w, <1>12 DEF WebReturns, Returned, TypeOK, WebInv, Served, webVars
<1>13. CASE HookClosesHub
  BY <1>13 DEF HookClosesHub, TypeOK, WebInv, Served
<1>14. CASE HookShutsDown
  BY <1>14 DEF HookShutsDown, TypeOK, WebInv, Served
<1>15. CASE ShutdownReturns
  BY <1>15 DEF ShutdownReturns, TypeOK, WebInv, Served
<1>16. CASE HookStops
  BY <1>16 DEF HookStops, TypeOK, WebInv, Served
<1>17. CASE JobLooks
  BY <1>17 DEF JobLooks, TypeOK, WebInv, Served
<1>18. CASE JobEnds
  BY <1>18 DEF JobEnds, TypeOK, WebInv, Served
<1>19. ASSUME NEW r \in Requests, Receive(r) PROVE WebInv'
  BY <1>19 DEF Receive, TypeOK, WebInv, Served
<1>20. ASSUME NEW r \in Requests, StartJob(r) PROVE WebInv'
  BY <1>20 DEF StartJob, TypeOK, WebInv, Served
<1>21. ASSUME NEW r \in Requests, RequestEnds(r) PROVE WebInv'
  BY <1>21 DEF RequestEnds, TypeOK, WebInv, Served
<1>22. CASE UNCHANGED vars
  BY <1>22, WebUntouched DEF vars, webVars
<1> QED
  BY <1>1, <1>2, <1>3, <1>4, <1>5, <1>6, <1>7, <1>8, <1>9, <1>10, <1>11,
     <1>12, <1>13, <1>14, <1>15, <1>16, <1>17, <1>18, <1>19, <1>20, <1>21, <1>22
  DEF Next, Run, Dns, Web, Hook, Job

\* The database is closed when every worker has ended, no refresh is at work and no
\* request is being served, unless the HTTP server's socket had failed; for every
\* number of workers and requests, however long these take.
THEOREM DbClosedLastAlways == Spec => []DbClosedLast
<1>1. TypeOK /\ ErrInv /\ WebInv => DbClosedLast
  <2> SUFFICES ASSUME TypeOK, ErrInv, WebInv, Closed PROVE DbClosedLast
    BY DEF DbClosedLast
  <2>1. AllEnded /\ worker["web"] \in {"off", "ended"}
    BY LifecycleAssumption DEF LifecycleAssumption, ErrInv, AllEnded
  <2>2. CASE http \in {"new", "unbound"}
    BY <2>1, <2>2 DEF WebInv, DbClosedLast, Served
  <2>3. CASE http = "listening"
    BY <2>1, <2>3 DEF WebInv, DbClosedLast
  <2>4. CASE http = "broken"
    BY <2>1, <2>4 DEF DbClosedLast
  <2> QED
    BY <2>2, <2>3, <2>4 DEF TypeOK
<1> QED
  BY <1>1, TypeInit, TypeStep, ErrInit, ErrStep, WebInit, WebStep, PTL DEF Spec
=============================================================================
