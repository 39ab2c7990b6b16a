---------------------------- MODULE ListRefresh ----------------------------
(***************************************************************************)
(* The classification lists: their table and cache (internal/store/db.go), *)
(* Manager.Refresh and the goroutines that call it, main before it starts  *)
(* the workers, Manager.Run when its timer fires, and the job that the web *)
(* server starts after a change (internal/classify/manager.go,             *)
(* cmd/umberrelay/main.go, refreshClassificationAsync in                   *)
(* internal/web/api.go), and the server's end, which waits for that job.   *)
(*                                                                         *)
(* A list is its id (AUTOINCREMENT: an id is never used again).  What its  *)
(* URL serves may be another set of domains at each fetch.  A              *)
(* classification names for each domain the list that its category comes   *)
(* from.  Times are the numbers of the refreshes.                          *)
(***************************************************************************)
EXTENDS Naturals, FiniteSets

CONSTANTS Lists,        \* ids of lists
          Domains,      \* domains on them
          Versions,     \* Versions[l]: the sets of domains that the URL of l may serve
          Name,         \* Name[l]: where its name is in the order of names; names may be equal
          Defaults,     \* the lists that a first start adds
          Requests,     \* HTTP requests that change or refresh the lists
          MaxTimer,     \* bound: how often the refresh timer fires
          MaxRestarts,  \* bound: crashes and restarts
          FetchesFail, ReadsFail, WritesFail,  \* which errors occur
          None

ASSUME ListsAssumption ==
    /\ Versions \in [Lists -> SUBSET SUBSET Domains] /\ \A l \in Lists : Versions[l] # {}
    /\ Name \in [Lists -> Nat]
    /\ Defaults \subseteq Lists /\ None \notin Lists /\ \A D \in SUBSET Domains : None # D
    /\ MaxTimer \in Nat /\ MaxRestarts \in Nat
    /\ FetchesFail \in BOOLEAN /\ ReadsFail \in BOOLEAN /\ WritesFail \in BOOLEAN

VARIABLES
    \* the tables lists and list_domains
    added,           \* ids handed out
    listed,          \* rows of lists
    enabled,         \* those with enabled = 1
    cache,           \* rows of list_domains, by list_id
    \* the refresh status in the table config
    lastAttempt, lastSuccess, lastError,
    \* main and the Manager
    phase,           \* "boot" until main starts the workers; "exited" once the database is closed
    ctxDone,         \* main's ctx is cancelled
    domains,         \* Manager.domains
    initialSources,  \* what main read for Manager.Run
    \* Manager.Refresh, called by the "manager" (main, then Run) and by the "web" job
    at,              \* where the goroutine is
    sources,         \* its argument
    todo,            \* what of it is still to be fetched
    src,             \* the list in work
    fetched,         \* listDomains of each list fetched so far
    combined, successCount, attemptedAt,
    \* Server
    req,             \* where the handler of each request is
    refreshRunning,  \* refreshRunning
    refreshJobs,     \* the counter of the WaitGroup refreshJobs
    closer,          \* where ListenAndServe's shutdown is
    \* bounds
    refreshes, timer, restarts,
    \* What the properties remember of the past:
    current,         \* the job has fetched everything so far, and its sources are still the enabled lists
    settled,         \* the classification was stored by such a job, and no list has changed since
    stored,          \* refreshes that stored their result
    inForce,         \* what the classification in force was made of, by list
    ordered,         \* it was merged by a refresh, and not loaded from the cache
    spoiled,         \* lists a job fetched that it failed to write, or whose rows another has written since
    behind,          \* the same of the classification in force
    out              \* lists that are not enabled, and that no refresh at work has among its sources,
                     \* when a refresh stores its result or the process starts: until they are enabled

listVars == <<added, listed, enabled>>
statusVars == <<lastAttempt, lastSuccess, lastError>>
mainVars == <<phase, ctxDone, initialSources>>
jobVars == <<at, sources, todo, src, fetched, combined, successCount, attemptedAt>>
serverVars == <<req, refreshRunning, refreshJobs, closer>>
boundVars == <<refreshes, timer, restarts>>
forceVars == <<domains, settled, stored, inForce, ordered>>
histVars == <<current, spoiled, behind, out>>
vars == <<listVars, cache, statusVars, forceVars, mainVars, jobVars, serverVars, boundVars, histVars>>

Jobs == {"manager", "web"}
Unclassified == [d \in Domains |-> None]
Unfetched == [l \in Lists |-> None]
Enabled == listed \cap enabled

\* ListEnabledLists: ORDER BY name, which leaves equal names in any order.
FirstsOf(S) == {l \in S : \A k \in S : Name[l] <= Name[k]}

Init ==
    /\ added = {} /\ listed = {} /\ enabled = {}
    /\ cache = [l \in Lists |-> {}]
    /\ lastAttempt = 0 /\ lastSuccess = 0 /\ lastError = FALSE
    /\ phase = "boot" /\ ctxDone = FALSE
    /\ domains = Unclassified /\ initialSources = {}
    /\ at = [j \in Jobs |-> "off"]
    /\ sources = [j \in Jobs |-> {}] /\ todo = [j \in Jobs |-> {}]
    /\ src = [j \in Jobs |-> None] /\ fetched = [j \in Jobs |-> Unfetched]
    /\ combined = [j \in Jobs |-> Unclassified]
    /\ successCount = [j \in Jobs |-> 0] /\ attemptedAt = [j \in Jobs |-> 0]
    /\ req = [r \in Requests |-> "new"]
    /\ refreshRunning = FALSE /\ refreshJobs = 0 /\ closer = "serving"
    /\ refreshes = 0 /\ timer = 0 /\ restarts = 0
    /\ current = [j \in Jobs |-> FALSE] /\ settled = FALSE
    /\ stored = {} /\ inForce = Unfetched /\ ordered = FALSE
    /\ spoiled = [j \in Jobs |-> {}] /\ behind = {} /\ out = {}

-----------------------------------------------------------------------------
\* Manager.Refresh

\* A goroutine calls Refresh on the lists in S.
BeginRefresh(j, S) ==
    /\ refreshes' = refreshes + 1
    /\ at' = [at EXCEPT ![j] = "fetching"]
    /\ sources' = [sources EXCEPT ![j] = S]
    /\ todo' = [todo EXCEPT ![j] = S]
    /\ src' = [src EXCEPT ![j] = None]
    /\ fetched' = [fetched EXCEPT ![j] = Unfetched]
    /\ combined' = [combined EXCEPT ![j] = Unclassified]
    /\ successCount' = [successCount EXCEPT ![j] = 0]
    /\ attemptedAt' = [attemptedAt EXCEPT ![j] = refreshes + 1]
    /\ spoiled' = [spoiled EXCEPT ![j] = {}]
    /\ out' = out \ S

\* The next list is fetched, whatever its URL serves now, and merged: a later list wins.
FetchList(j) ==
    /\ at[j] = "fetching"
    /\ \E l \in FirstsOf(todo[j]) : \E listDomains \in Versions[l] :
         /\ todo' = [todo EXCEPT ![j] = @ \ {l}]
         /\ src' = [src EXCEPT ![j] = l]
         /\ fetched' = [fetched EXCEPT ![j][l] = listDomains]
         /\ combined' = [combined EXCEPT ![j] = [d \in Domains |-> IF d \in listDomains THEN l ELSE @[d]]]
    /\ successCount' = [successCount EXCEPT ![j] = @ + 1]
    /\ at' = [at EXCEPT ![j] = "caching"]
    /\ UNCHANGED <<listVars, cache, statusVars, forceVars, mainVars, sources, attemptedAt,
                   serverVars, boundVars, histVars>>

\* It cannot be fetched, or the context is done, and it is skipped.
FetchFails(j) ==
    /\ at[j] = "fetching"
    /\ FetchesFail \/ ctxDone
    /\ \E l \in FirstsOf(todo[j]) : todo' = [todo EXCEPT ![j] = @ \ {l}]
    /\ current' = [current EXCEPT ![j] = FALSE]
    /\ UNCHANGED <<listVars, cache, statusVars, forceVars, mainVars, at, sources, src, fetched,
                   combined, successCount, attemptedAt, serverVars, boundVars, spoiled, behind, out>>

\* Mutant: the old rows are deleted and the new ones never committed.
RowsDeletedOnly(listDomains) == {}

\* The rows of a list after WriteListDomains.
RowsWritten(listDomains) == listDomains

\* What job j's write of list l does to the others that have fetched it before.
Overwrites(j, l) ==
    /\ spoiled' = [k \in Jobs |-> IF k = j THEN spoiled[k] \ {l}
                                  ELSE IF fetched[k][l] = None THEN spoiled[k] ELSE spoiled[k] \cup {l}]
    /\ behind' = IF inForce[l] = None THEN behind ELSE behind \cup {l}

\* WriteListDomains: all of its rows in one transaction, or an error that is logged.
CacheList(j) ==
    /\ at[j] = "caching"
    /\ \/ /\ cache' = [cache EXCEPT ![src[j]] = RowsWritten(fetched[j][src[j]])]
          /\ Overwrites(j, src[j])
       \/ /\ WritesFail
          /\ spoiled' = [spoiled EXCEPT ![j] = @ \cup {src[j]}]
          /\ UNCHANGED <<cache, behind>>
    /\ src' = [src EXCEPT ![j] = None]
    /\ at' = [at EXCEPT ![j] = "fetching"]
    /\ UNCHANGED <<listVars, statusVars, forceVars, mainVars, sources, todo, fetched, combined,
                   successCount, attemptedAt, serverVars, boundVars, current, out>>

\* refreshErr # nil
Failed(j) == sources[j] # {} /\ successCount[j] = 0

\* Mutant: the pointer is swapped before the lists that remain are fetched.
FetchedEnough(j) == todo[j] = {} \/ successCount[j] > 0

FetchedAll(j) == todo[j] = {}

\* Mutant: the new domains are merged into the map in force.
MergedInto(f) == [d \in Domains |-> IF f[d] = None THEN domains[d] ELSE f[d]]

\* The map that is stored for f: a new one.
NewDomainMap(f) == f

\* All lists are done.  If none could be fetched the classification stays.
Finish(j) ==
    /\ at[j] = "fetching" /\ FetchedAll(j)
    /\ at' = [at EXCEPT ![j] = "recording"]
    /\ IF Failed(j)
       THEN UNCHANGED <<forceVars, behind, out>>
       ELSE /\ domains' = NewDomainMap(combined[j])
            /\ settled' = current[j]
            /\ stored' = stored \cup {attemptedAt[j]}
            /\ inForce' = fetched[j] /\ ordered' = TRUE /\ behind' = spoiled[j]
            /\ out' = out \cup (added \ (Enabled \cup UNION {sources[k] : k \in Jobs}))
    /\ fetched' = [fetched EXCEPT ![j] = Unfetched]
    /\ spoiled' = [spoiled EXCEPT ![j] = {}]
    /\ UNCHANGED <<listVars, cache, statusVars, mainVars, sources, todo, src, combined,
                   successCount, attemptedAt, serverVars, boundVars, current>>

\* Mutant: refreshErr is shadowed, and the deferred call sees nil.
RecordAttemptShadowed(attempt, failed) ==
    lastAttempt' = attempt /\ lastError' = FALSE /\ lastSuccess' = attempt

\* RecordListRefreshAttempt, in one transaction.
RecordAttempt(attempt, failed) ==
    /\ lastAttempt' = attempt /\ lastError' = failed
    /\ lastSuccess' = IF failed THEN lastSuccess ELSE attempt

\* Refresh returns, and its deferred call records the attempt.  main goes on to
\* start the workers, Run to wait for its timer, the web job to end.
Record(j) ==
    /\ at[j] = "recording"
    /\ RecordAttempt(attemptedAt[j], Failed(j)) \/ (WritesFail /\ UNCHANGED statusVars)
    /\ at' = [at EXCEPT ![j] = IF j = "web" THEN "ending" ELSE "off"]
    /\ sources' = [sources EXCEPT ![j] = {}]
    /\ combined' = [combined EXCEPT ![j] = Unclassified]
    /\ successCount' = [successCount EXCEPT ![j] = 0]
    /\ attemptedAt' = [attemptedAt EXCEPT ![j] = 0]
    /\ phase' = IF j = "manager" THEN "up" ELSE phase
    /\ UNCHANGED <<listVars, cache, forceVars, ctxDone, initialSources, todo, src, fetched,
                   serverVars, boundVars, histVars>>

Refresh(j) == FetchList(j) \/ FetchFails(j) \/ CacheList(j) \/ Finish(j) \/ Record(j)

-----------------------------------------------------------------------------
\* main, up to the start of the workers, and Manager.Run

\* LoadCachedDomains joins the enabled lists.
Loadable == Enabled

\* What LoadCachedDomains may return: it has no ORDER BY, and the last row read wins.
CachedDomains ==
    {f \in [Domains -> Lists \cup {None}] :
        \A d \in Domains :
            LET on == {l \in Loadable : d \in cache[l]}
            IN IF on = {} THEN f[d] = None ELSE f[d] \in on}

\* The defaults that a start adds: if there is no list, or the lists cannot be
\* read, those whose URL is not there (the insert of the others fails).
Seeds ==
    LET missing == Defaults \ added
        wanted == (IF listed = {} THEN {} ELSE {{}}) \cup (IF listed = {} \/ ReadsFail THEN {missing} ELSE {})
    IN IF WritesFail THEN UNION {SUBSET S : S \in wanted} ELSE wanted

\* LoadFromCache, whose error leaves the map empty, then defaultListSources, then
\* Refresh if nothing was loaded.
Boot ==
    /\ phase = "boot" /\ at["manager"] = "off"
    /\ \E seeds \in Seeds :
         /\ added' = added \cup seeds /\ listed' = listed \cup seeds
         /\ enabled' = enabled \cup seeds
    /\ \E f \in CachedDomains \cup (IF ReadsFail THEN {Unclassified} ELSE {}) :
         /\ domains' = f
         /\ \E S \in {listed' \cap enabled'} \cup (IF ReadsFail THEN {{}} ELSE {}) :
              /\ initialSources' = S
              /\ IF f = Unclassified
                 THEN /\ BeginRefresh("manager", S) /\ phase' = phase
                      /\ current' = [current EXCEPT !["manager"] = S = listed' \cap enabled']
                      /\ inForce' = Unfetched
                 ELSE /\ phase' = "up"
                      /\ inForce' = [l \in Lists |-> IF l \in Loadable THEN cache[l] ELSE None]
                      /\ UNCHANGED <<jobVars, refreshes, current, spoiled, out>>
    /\ UNCHANGED <<cache, statusVars, ctxDone, serverVars, timer, restarts, settled, stored,
                   ordered, behind>>

\* The timer fires.  If the lists cannot be read, Run falls back to those main read.
TimerFires ==
    /\ phase = "up" /\ at["manager"] = "off"
    /\ timer < MaxTimer
    /\ timer' = timer + 1
    /\ \E S \in {Enabled} \cup (IF ReadsFail THEN {initialSources} ELSE {}) :
         /\ BeginRefresh("manager", S)
         /\ current' = [current EXCEPT !["manager"] = S = Enabled]
    /\ UNCHANGED <<listVars, cache, statusVars, forceVars, mainVars, serverVars, restarts, behind>>

ManagerReturns ==
    /\ phase = "up" /\ ctxDone /\ at["manager"] = "off"
    /\ at' = [at EXCEPT !["manager"] = "returned"]
    /\ UNCHANGED <<listVars, cache, statusVars, forceVars, mainVars, sources, todo, src, fetched,
                   combined, successCount, attemptedAt, serverVars, boundVars, histVars>>

-----------------------------------------------------------------------------
\* Requests.  Each changes the lists (or not) and then asks for a refresh.

\* What the change does to the past: no job has the lists of now any more.
ListsChange ==
    /\ current' = [j \in Jobs |-> FALSE]
    /\ settled' = FALSE
    /\ UNCHANGED <<domains, stored, inForce, ordered, spoiled, behind>>

Serving(r) == phase = "up" /\ closer = "serving" /\ req[r] = "new"

\* handleAPIAddList, up to the call of refreshClassificationAsync.
AddList(r, l) ==
    /\ Serving(r) /\ l \notin added
    /\ added' = added \cup {l} /\ listed' = listed \cup {l} /\ enabled' = enabled \cup {l}
    /\ req' = [req EXCEPT ![r] = "asking"]
    /\ ListsChange
    /\ UNCHANGED <<cache, statusVars, mainVars, jobVars, refreshRunning, refreshJobs,
                   closer, boundVars, out>>

\* handleAPIUpdateList
UpdateListEnabled(r, l, on) ==
    /\ Serving(r) /\ l \in listed
    /\ enabled' = IF on THEN enabled \cup {l} ELSE enabled \ {l}
    /\ out' = IF on THEN out \ {l} ELSE out
    /\ req' = [req EXCEPT ![r] = "asking"]
    /\ ListsChange
    /\ UNCHANGED <<added, listed, cache, statusVars, mainVars, jobVars, refreshRunning,
                   refreshJobs, closer, boundVars>>

\* handleAPIDeleteList.  The database is opened without foreign_keys, so
\* ON DELETE CASCADE does nothing.
DeleteList(r, l) ==
    /\ Serving(r) /\ l \in listed
    /\ listed' = listed \ {l}
    /\ req' = [req EXCEPT ![r] = "asking"]
    /\ ListsChange
    /\ UNCHANGED <<added, enabled, cache, statusVars, mainVars, jobVars, refreshRunning,
                   refreshJobs, closer, boundVars, out>>

\* handleAPIRefreshLists
AskRefresh(r) ==
    /\ Serving(r)
    /\ req' = [req EXCEPT ![r] = "asking"]
    /\ UNCHANGED <<listVars, cache, statusVars, forceVars, mainVars, jobVars, refreshRunning,
                   refreshJobs, closer, boundVars, histVars>>

\* Mutant: the flag is set whether or not it was.
SwapsAlways == TRUE

Swaps == ~ refreshRunning

\* refreshClassificationAsync: the compare-and-swap.
CompareAndSwap(r) ==
    /\ req[r] = "asking"
    /\ req' = [req EXCEPT ![r] = IF Swaps THEN "swapped" ELSE "done"]
    /\ refreshRunning' = TRUE
    /\ UNCHANGED <<listVars, cache, statusVars, forceVars, mainVars, jobVars, refreshJobs, closer,
                   boundVars, histVars>>

\* refreshJobs.Add(1) and the go statement.
StartJob(r) ==
    /\ req[r] = "swapped"
    /\ req' = [req EXCEPT ![r] = "done"]
    /\ refreshJobs' = refreshJobs + 1
    /\ at' = [at EXCEPT !["web"] = "started"]
    /\ UNCHANGED <<listVars, cache, statusVars, forceVars, mainVars, sources, todo, src, fetched,
                   combined, successCount, attemptedAt, refreshRunning, closer, boundVars, histVars>>

Request(r) ==
    \/ \E l \in Lists : \/ AddList(r, l) \/ DeleteList(r, l)
                        \/ \E on \in BOOLEAN : UpdateListEnabled(r, l, on)
    \/ AskRefresh(r)

-----------------------------------------------------------------------------
\* The web job

BackgroundDone == closer \in {"cancelled", "closed"}

\* Mutant: the job does not look at its context first.
CheckedNever == "listing"

\* if ctx.Err() != nil { return }
Checked == IF BackgroundDone THEN "ending" ELSE "listing"

CheckContext ==
    /\ at["web"] = "started"
    /\ at' = [at EXCEPT !["web"] = Checked]
    /\ UNCHANGED <<listVars, cache, statusVars, forceVars, mainVars, sources, todo, src, fetched,
                   combined, successCount, attemptedAt, serverVars, boundVars, histVars>>

\* loadEnabledListSources; an error is recorded unless the context is done.
LoadSources ==
    /\ at["web"] = "listing"
    /\ \/ /\ BeginRefresh("web", Enabled)
          /\ current' = [current EXCEPT !["web"] = TRUE]
          /\ UNCHANGED statusVars
       \/ /\ ReadsFail
          /\ refreshes' = refreshes + 1
          /\ \/ RecordAttempt(refreshes + 1, TRUE)
             \/ (BackgroundDone \/ WritesFail) /\ UNCHANGED statusVars
          /\ at' = [at EXCEPT !["web"] = "ending"]
          /\ UNCHANGED <<sources, todo, src, fetched, combined, successCount, attemptedAt,
                         current, spoiled, out>>
    /\ UNCHANGED <<listVars, cache, forceVars, mainVars, serverVars, timer, restarts, behind>>

\* The deferred calls: refreshRunning.Store(false), then refreshJobs.Done().
ReleaseFlag ==
    /\ at["web"] = "ending"
    /\ at' = [at EXCEPT !["web"] = "off"]
    /\ refreshRunning' = FALSE
    /\ UNCHANGED <<listVars, cache, statusVars, forceVars, mainVars, sources, todo, src, fetched,
                   combined, successCount, attemptedAt, req, refreshJobs, closer, boundVars, histVars>>

\* Mutant: refreshJobs.Done is not called.
JobNeverDone == refreshJobs > 0 /\ UNCHANGED vars

JobDone ==
    /\ refreshJobs > (IF at["web"] = "off" THEN 0 ELSE 1)
    /\ refreshJobs' = refreshJobs - 1
    /\ UNCHANGED <<listVars, cache, statusVars, forceVars, mainVars, jobVars, req, refreshRunning,
                   closer, boundVars, histVars>>

-----------------------------------------------------------------------------
\* The end, and the next start

Cancel ==
    /\ phase \in {"boot", "up"} /\ ~ ctxDone
    /\ ctxDone' = TRUE
    /\ UNCHANGED <<listVars, cache, statusVars, forceVars, phase, initialSources, jobVars,
                   serverVars, boundVars, histVars>>

\* ListenAndServe: no new request is served; after httpShutdownTimeout handlers
\* may still be at work.
Shutdown ==
    /\ phase = "up" /\ ctxDone /\ closer = "serving"
    /\ closer' = "draining"
    /\ UNCHANGED <<listVars, cache, statusVars, forceVars, mainVars, jobVars, req, refreshRunning,
                   refreshJobs, boundVars, histVars>>

\* Server.Close: backgroundCancel, then refreshJobs.Wait.
CloseCancels ==
    /\ closer = "draining"
    /\ closer' = "cancelled"
    /\ UNCHANGED <<listVars, cache, statusVars, forceVars, mainVars, jobVars, req, refreshRunning,
                   refreshJobs, boundVars, histVars>>

CloseReturns ==
    /\ closer = "cancelled" /\ refreshJobs = 0
    /\ closer' = "closed"
    /\ UNCHANGED <<listVars, cache, statusVars, forceVars, mainVars, jobVars, req, refreshRunning,
                   refreshJobs, boundVars, histVars>>

\* The workers have returned, and db.Close is called.
Exit ==
    /\ phase = "up" /\ closer = "closed" /\ at["manager"] = "returned"
    /\ phase' = "exited"
    /\ UNCHANGED <<listVars, cache, statusVars, forceVars, ctxDone, initialSources, jobVars,
                   serverVars, boundVars, histVars>>

\* A crash at any time, or a start after the end.  The database is left, all else
\* is gone.  Bound: a second seeding of the defaults, under new ids, is left out.
Restart ==
    /\ restarts < MaxRestarts
    /\ listed # {} \/ added = {}
    /\ restarts' = restarts + 1
    /\ phase' = "boot" /\ ctxDone' = FALSE
    /\ domains' = Unclassified /\ initialSources' = {}
    /\ at' = [j \in Jobs |-> "off"]
    /\ sources' = [j \in Jobs |-> {}] /\ todo' = [j \in Jobs |-> {}]
    /\ src' = [j \in Jobs |-> None] /\ fetched' = [j \in Jobs |-> Unfetched]
    /\ combined' = [j \in Jobs |-> Unclassified]
    /\ successCount' = [j \in Jobs |-> 0] /\ attemptedAt' = [j \in Jobs |-> 0]
    /\ req' = [r \in Requests |-> IF req[r] = "new" THEN "new" ELSE "done"]
    /\ refreshRunning' = FALSE /\ refreshJobs' = 0 /\ closer' = "serving"
    /\ current' = [j \in Jobs |-> FALSE] /\ settled' = FALSE
    /\ inForce' = Unfetched /\ ordered' = FALSE
    /\ spoiled' = [j \in Jobs |-> {}] /\ behind' = {} /\ out' = added \ Enabled
    /\ UNCHANGED <<listVars, cache, statusVars, refreshes, timer, stored>>

Web == CheckContext \/ LoadSources \/ ReleaseFlag
Close == Shutdown \/ CloseCancels \/ CloseReturns

Next ==
    \/ Boot \/ TimerFires \/ ManagerReturns
    \/ \E j \in Jobs : Refresh(j)
    \/ \E r \in Requests : Request(r) \/ CompareAndSwap(r) \/ StartJob(r)
    \/ Web \/ JobDone
    \/ Cancel \/ Close \/ Exit
    \/ Restart

Spec == Init /\ [][Next]_vars

\* The goroutines run: fetches have a timeout, and a select sees the cancelled
\* context.  Signals, requests, timers and crashes are not forced.
Fairness ==
    /\ WF_vars(Boot) /\ WF_vars(ManagerReturns) /\ WF_vars(Web) /\ WF_vars(JobDone)
    /\ \A j \in Jobs : WF_vars(Refresh(j))
    /\ \A r \in Requests : WF_vars(CompareAndSwap(r) \/ StartJob(r))
    /\ WF_vars(Close) /\ WF_vars(Exit)
FairSpec == Spec /\ Fairness

-----------------------------------------------------------------------------
Classifications == [Domains -> Lists \cup {None}]

TypeOK ==
    /\ added \subseteq Lists /\ listed \subseteq added /\ enabled \subseteq added
    /\ cache \in [Lists -> SUBSET Domains]
    /\ lastAttempt \in Nat /\ lastSuccess \in Nat /\ lastError \in BOOLEAN
    /\ phase \in {"boot", "up", "exited"} /\ ctxDone \in BOOLEAN
    /\ domains \in Classifications /\ initialSources \subseteq Lists
    /\ at \in [Jobs -> {"off", "started", "listing", "fetching", "caching", "recording",
                        "ending", "returned"}]
    /\ sources \in [Jobs -> SUBSET Lists] /\ todo \in [Jobs -> SUBSET Lists]
    /\ src \in [Jobs -> Lists \cup {None}]
    /\ fetched \in [Jobs -> [Lists -> {None} \cup SUBSET Domains]]
    /\ combined \in [Jobs -> Classifications]
    /\ successCount \in [Jobs -> Nat] /\ attemptedAt \in [Jobs -> Nat]
    /\ req \in [Requests -> {"new", "asking", "swapped", "done"}]
    /\ refreshRunning \in BOOLEAN /\ refreshJobs \in Nat
    /\ closer \in {"serving", "draining", "cancelled", "closed"}
    /\ refreshes \in Nat /\ timer \in Nat /\ restarts \in Nat
    /\ current \in [Jobs -> BOOLEAN] /\ settled \in BOOLEAN
    /\ stored \subseteq Nat /\ ordered \in BOOLEAN
    /\ inForce \in [Lists -> {None} \cup SUBSET Domains]
    /\ spoiled \in [Jobs -> SUBSET Lists] /\ behind \subseteq Lists /\ out \subseteq added

\* The lists of f, a set of domains for each list fetched, that may name domain d:
\* after a merge by name the last ones, after a load of the cache any.
Having(f, d) == {l \in Lists : f[l] # None /\ d \in f[l]}
LastsOf(S) == {l \in S : \A k \in S : Name[k] <= Name[l]}
Naming(f, d) == IF ordered THEN LastsOf(Having(f, d)) ELSE Having(f, d)

\* What is in force is the merge, by name, of what one refresh fetched (or what one
\* start loaded): nothing is left of an earlier refresh, nor mixed in from one that
\* ran at the same time, whichever stored last.  After a refresh that read the lists
\* after their last change and could fetch them all, it is made of the enabled lists,
\* all of them; until a refresh that began before the change stores its own.
SettledClassification ==
    /\ \A d \in Domains :
         domains[d] \in IF Having(inForce, d) = {} THEN {None} ELSE Naming(inForce, d)
    /\ settled => ordered /\ {l \in Lists : inForce[l] # None} = Enabled

\* The status page tells the truth: the refresh it shows as the last success, and
\* the last attempt if no error is shown, did replace the classification.
StatusHonest ==
    /\ lastSuccess > 0 => lastSuccess \in stored
    /\ lastAttempt > 0 /\ ~ lastError => lastAttempt \in stored

\* What is in force can be loaded again, whatever the URLs serve by then: of each list
\* the cache holds exactly what the classification was made of.  Only a list that could
\* not be written is excepted, and one whose rows another refresh has written since: a
\* crash at that moment goes on from those rows.
SurvivesRestart ==
    \A l \in Lists : inForce[l] # None => l \in behind \/ cache[l] = inForce[l]

\* A list that is disabled or deleted, once a refresh has stored a result without it or
\* the process has started again, does not come back: not from a refresh at work, not
\* from its rows, which stay in the cache and may even be written after that, and not
\* after a crash.  Only a timer that cannot read the lists may fetch it again.
RemovedStaysOut == \A d \in Domains : domains[d] \notin out

\* At most one web job is past its start, and never one while the flag is clear;
\* the WaitGroup counts it.
OneWebJob ==
    /\ at["web"] # "off" => refreshRunning /\ refreshJobs > 0
    /\ Cardinality({r \in Requests : req[r] = "swapped"}) + (IF at["web"] = "off" THEN 0 ELSE 1) <= 1

\* Once Server.Close has returned no web job touches the database, which main
\* closes next; not even one that a handler starts after Shutdown has given up
\* on it, when refreshJobs.Wait has already returned.
NoJobAfterClose ==
    closer = "closed" => at["web"] \in {"off", "started", "ending"}

\* After a signal the program ends, whatever refresh is in progress, unless it crashes
\* and is started again.
ShutdownCompletes == ctxDone ~> (phase = "exited" \/ ~ ctxDone)

Quiet ==
    /\ phase = "up" /\ ~ ctxDone
    /\ \A j \in Jobs : at[j] = "off"
    /\ \A r \in Requests : req[r] \in {"new", "done"}

\* README: "Add, remove, or disable lists from the settings page", and POST
\* /api/lists/refresh is to "Trigger immediate list refresh".  A request that
\* comes while a refresh runs triggers none, and the one that runs read the lists
\* before the change.
ListsTakeEffect == Quiet => settled
=============================================================================
