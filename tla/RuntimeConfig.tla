---------------------------- MODULE RuntimeConfig ----------------------------
(***************************************************************************)
(* What the web UI changes while the program runs, the lists aside: the    *)
(* overrides of domains, which are kept in the table domain_overrides and  *)
(* in a map of classify.Manager, and the settings in the table config, of  *)
(* which Manager.Run reads list_refresh_hours for its timer.  Requests run *)
(* concurrently and lock nothing: each writes the database first, and then *)
(* changes the map or wakes Manager.Run.                                   *)
(*                                                                         *)
(* A request that is refused before its first write changes nothing and is *)
(* left out.  What a refresh does is the subject of ListRefresh.           *)
(***************************************************************************)
EXTENDS Naturals, FiniteSets

CONSTANTS Requests,   \* goroutines that serve one request after the other
          Names,      \* domains as requests and queries spell them
          Canonical,  \* Canonical[n]: lower case, without the trailing dot
          Categories,
          Listed,     \* Listed[d]: the category that the lists give a domain
          None,       \* no row, no value, no category
          DayInputs, HourInputs,   \* what requests ask for, None if they do not
          DaysRange, HoursRange,   \* what validateSettingRange lets pass
          DefaultHours,            \* 24
          WritesFail, ReadsFail,   \* which errors occur
          MaxCalls, MaxRestarts    \* bounds: requests, crashes and restarts

ASSUME ConfigAssumption ==
    /\ Canonical \in [Names -> Names]
    /\ \A n \in Names : Canonical[Canonical[n]] = Canonical[n]
    /\ None \notin Categories \cup DaysRange \cup HoursRange
    /\ Listed \in [Names -> Categories \cup {None}]
    /\ DefaultHours \in HoursRange
    /\ WritesFail \in BOOLEAN /\ ReadsFail \in BOOLEAN
    /\ MaxCalls \in Nat /\ MaxRestarts \in Nat

VARIABLES
    domain_overrides, days, hours, \* the rows on disk
    overrides,   \* Manager.overrides, the map in memory
    wake,        \* whether Manager.wake, of capacity one, is full
    main,        \* where main is
    manager,     \* where Manager.Run is
    default,     \* its argument interval
    interval,    \* what its timer is set to
    readFailed,  \* whether it could not read the setting for that
    ctxDone,
    req,         \* the request each goroutine is serving
    calls, restarts, \* bounds
    \* What the properties remember of the past:
    doubtful     \* domains with writes that overlapped, or that could not be loaded

tables == <<domain_overrides, days, hours>>
timerVars == <<manager, default, interval, readFailed>>
bounds == <<calls, restarts>>
vars == <<tables, overrides, wake, main, timerVars, ctxDone, req, bounds, doubtful>>

NoReq == [at |-> "none"]
Domains == {n \in Names : Canonical[n] = n}

\* The calls for domain d that have written the table but not yet the map.
Pending(d) == {r \in Requests : req[r].at = "map" /\ req[r].domain = d}

Classify(n) ==
    LET d == Canonical[n] IN IF overrides[d] # None THEN overrides[d] ELSE Listed[d]

Init ==
    /\ domain_overrides = [d \in Domains |-> None] /\ days = None /\ hours = None
    /\ overrides = [d \in Domains |-> None] /\ wake = FALSE
    /\ main = "load" /\ manager = "off"
    /\ default = DefaultHours /\ interval = DefaultHours /\ readFailed = FALSE
    /\ ctxDone = FALSE
    /\ req = [r \in Requests |-> NoReq]
    /\ calls = 0 /\ restarts = 0 /\ doubtful = {}

-----------------------------------------------------------------------------
\* The start.

\* LoadOverrides: a failed read is logged, and the program goes on without them.
LoadOverrides ==
    /\ main = "load"
    /\ main' = "interval"
    /\ \/ overrides' = domain_overrides /\ doubtful' = {}
       \/ /\ ReadsFail
          /\ doubtful' = {d \in Domains : domain_overrides[d] # None}
          /\ UNCHANGED overrides
    /\ UNCHANGED <<tables, wake, timerVars, ctxDone, req, bounds>>

\* What GetConfig("list_refresh_hours") leads to, a failed read included.
Hours(fallback) == IF hours = None THEN fallback ELSE hours

\* main reads the setting too, then starts Manager.Run and the web server.
Start ==
    /\ main = "interval"
    /\ main' = "running" /\ manager' = "reading"
    /\ \/ default' = Hours(DefaultHours)
       \/ ReadsFail /\ default' = DefaultHours
    /\ UNCHANGED <<tables, overrides, wake, interval, readFailed, ctxDone, req, bounds, doubtful>>

-----------------------------------------------------------------------------
\* Overrides.

Begin(r, what) ==
    /\ main = "running" /\ req[r] = NoReq /\ calls < MaxCalls
    /\ req' = [req EXCEPT ![r] = what]
    /\ calls' = calls + 1
    /\ UNCHANGED <<tables, overrides, wake, main, timerVars, ctxDone, restarts, doubtful>>

SetOverride(r) == \E n \in Names, c \in Categories :
    Begin(r, [at |-> "table", domain |-> Canonical[n], category |-> c])

RemoveOverride(r) == \E n \in Names :
    Begin(r, [at |-> "table", domain |-> Canonical[n], category |-> None])

Fails(r) ==
    /\ WritesFail
    /\ req' = [req EXCEPT ![r] = NoReq]
    /\ UNCHANGED <<tables, doubtful>>

\* Mutant: the error of the write is ignored.
StoreUnchecked(r) ==
    /\ req[r].at = "table"
    /\ \/ domain_overrides' = [domain_overrides EXCEPT ![req[r].domain] = req[r].category]
       \/ WritesFail /\ UNCHANGED domain_overrides
    /\ req' = [req EXCEPT ![r].at = "map"]
    /\ UNCHANGED <<days, hours, doubtful, overrides, wake, main, timerVars, ctxDone, bounds>>

\* SetDomainOverride or DeleteDomainOverride.  A call that comes here while another one for
\* the domain has yet to change the map leaves open which of them does so last.
StoreOverride(r) ==
    /\ req[r].at = "table"
    /\ \/ LET d == req[r].domain
          IN  /\ domain_overrides' = [domain_overrides EXCEPT ![d] = req[r].category]
              /\ req' = [req EXCEPT ![r].at = "map"]
              /\ doubtful' = IF Pending(d) = {} THEN doubtful \ {d} ELSE doubtful \cup {d}
              /\ UNCHANGED <<days, hours>>
       \/ Fails(r)
    /\ UNCHANGED <<overrides, wake, main, timerVars, ctxDone, bounds>>

\* Store or Delete of the map, and the answer 204.
ChangeMap(r) ==
    /\ req[r].at = "map"
    /\ overrides' = [overrides EXCEPT ![req[r].domain] = req[r].category]
    /\ req' = [req EXCEPT ![r] = NoReq]
    /\ UNCHANGED <<tables, wake, main, timerVars, ctxDone, bounds, doubtful>>

-----------------------------------------------------------------------------
\* UpdateSettings.

UpdateSettings(r) == \E dy \in DayInputs, hr \in HourInputs :
    /\ dy # None \/ hr # None
    /\ Begin(r, [at |-> "days", days |-> dy, hours |-> hr])

\* validateSettingRange.
InRange(value, range) == value \in range

\* One setting: left alone if the request has none, refused if out of range.  The request
\* has then changed the settings before it, and is answered with an error all the same.
Setting(r, value, range, stored, next) ==
    \/ /\ IF value = None THEN stored' = stored
                          ELSE InRange(value, range) /\ stored' = value
       /\ req' = [req EXCEPT ![r].at = next]
    \/ /\ value # None /\ (WritesFail \/ ~ InRange(value, range))
       /\ stored' = stored
       /\ req' = [req EXCEPT ![r] = NoReq]

SetDays(r) ==
    /\ req[r].at = "days"
    /\ Setting(r, req[r].days, DaysRange, days, "hours")
    /\ UNCHANGED <<domain_overrides, hours, overrides, wake, main, timerVars, ctxDone, bounds,
                   doubtful>>

SetHours(r) ==
    /\ req[r].at = "hours"
    /\ Setting(r, req[r].hours, HoursRange, hours, "notify")
    /\ UNCHANGED <<domain_overrides, days, overrides, wake, main, timerVars, ctxDone, bounds,
                   doubtful>>

\* Mutant: the channel has no buffer.
NotifyUnbuffered(r) ==
    /\ req[r].at = "notify"
    /\ wake' = (manager = "waiting")
    /\ req' = [req EXCEPT ![r] = NoReq]
    /\ UNCHANGED <<tables, overrides, main, timerVars, ctxDone, bounds, doubtful>>

\* A wake-up that has not been taken yet serves this change too.
NotifyConfigChanged(r) ==
    /\ req[r].at = "notify"
    /\ wake' = TRUE
    /\ req' = [req EXCEPT ![r] = NoReq]
    /\ UNCHANGED <<tables, overrides, main, timerVars, ctxDone, bounds, doubtful>>

-----------------------------------------------------------------------------
\* Manager.Run.

Goes(from, to) ==
    /\ manager = from /\ manager' = to
    /\ UNCHANGED <<tables, overrides, wake, main, default, interval, readFailed, ctxDone, req,
                   bounds, doubtful>>

\* refreshInterval, and the timer it sets.
SetTimer ==
    /\ manager = "reading"
    /\ manager' = "set"
    /\ \/ interval' = Hours(default) /\ readFailed' = FALSE
       \/ ReadsFail /\ interval' = default /\ readFailed' = TRUE
    /\ UNCHANGED <<tables, overrides, wake, main, default, ctxDone, req, bounds, doubtful>>

\* Only then does it wait.
Wait == Goes("set", "waiting")

Woken ==
    /\ manager = "waiting" /\ wake
    /\ wake' = FALSE /\ manager' = "reading"
    /\ UNCHANGED <<tables, overrides, main, default, interval, readFailed, ctxDone, req, bounds,
                   doubtful>>

TimerFires == Goes("waiting", "refreshing")
RefreshEnds == Goes("refreshing", "reading")
ManagerReturns == ctxDone /\ Goes("waiting", "returned")

-----------------------------------------------------------------------------
Cancel ==
    /\ main = "running" /\ ~ ctxDone
    /\ ctxDone' = TRUE
    /\ UNCHANGED <<tables, overrides, wake, main, timerVars, req, bounds, doubtful>>

\* A crash at any moment, or the end of the process, and a new start.
Restart ==
    /\ restarts < MaxRestarts
    /\ restarts' = restarts + 1
    /\ overrides' = [d \in Domains |-> None] /\ wake' = FALSE
    /\ main' = "load" /\ manager' = "off"
    /\ default' = DefaultHours /\ interval' = DefaultHours /\ readFailed' = FALSE
    /\ ctxDone' = FALSE
    /\ req' = [r \in Requests |-> NoReq]
    /\ doubtful' = {}
    /\ UNCHANGED <<tables, calls>>

Serve(r) ==
    StoreOverride(r) \/ ChangeMap(r) \/ SetDays(r) \/ SetHours(r) \/ NotifyConfigChanged(r)

Next ==
    \/ LoadOverrides \/ Start \/ Cancel \/ Restart
    \/ \E r \in Requests : SetOverride(r) \/ RemoveOverride(r) \/ UpdateSettings(r) \/ Serve(r)
    \/ SetTimer \/ Wait \/ Woken \/ TimerFires \/ RefreshEnds \/ ManagerReturns

Spec == Init /\ [][Next]_vars
-----------------------------------------------------------------------------
OverrideCall(at) == [at : at, domain : Domains, category : Categories \cup {None}]
SettingsCall == [at : {"days", "hours", "notify"}, days : DayInputs, hours : HourInputs]

\* Types: only settings within their ranges are stored (UpdateSettings), and only names in
\* their canonical form are written (SetOverride, RemoveOverride).
TypeOK ==
    /\ domain_overrides \in [Domains -> Categories \cup {None}]
    /\ overrides \in [Domains -> Categories \cup {None}]
    /\ days \in DaysRange \cup {None} /\ hours \in HoursRange \cup {None}
    /\ wake \in BOOLEAN /\ readFailed \in BOOLEAN /\ ctxDone \in BOOLEAN
    /\ main \in {"load", "interval", "running"}
    /\ manager \in {"off", "reading", "set", "waiting", "refreshing", "returned"}
    /\ default \in HoursRange /\ interval \in HoursRange
    /\ req \in [Requests -> {NoReq} \cup OverrideCall({"table", "map"}) \cup SettingsCall]
    /\ calls \in 0..MaxCalls /\ restarts \in 0..MaxRestarts
    /\ doubtful \subseteq Domains

\* Queries are classified as the table of overrides says, however requests interleave and
\* fail, and after any crash: the map may only differ for a domain one of whose calls is
\* between its two writes, or for which two calls were there at once since the last call
\* that had the domain for itself, or whose row could not be loaded at the start
\* (SetOverride, RemoveOverride, LoadOverrides, Classify).
OverridesInForce ==
    main # "load" =>
       \A n \in Names :
          LET d == Canonical[n]
          IN  d \in doubtful \/ Pending(d) # {}
                \/ Classify(n) = IF domain_overrides[d] # None THEN domain_overrides[d] ELSE Listed[d]

\* Manager.Run never waits with an old interval without being woken, whether the setting
\* changes before or after its timer was set from it: when the timer differs from what the
\* settings page shows, a wake-up is in the channel, or a request is about to send one,
\* unless the setting could not be read (Run, refreshInterval, NotifyConfigChanged,
\* loadRuntimeSettings).
NoLostWake ==
    manager \in {"set", "waiting"} =>
       interval = Hours(DefaultHours) \/ wake \/ readFailed \/ \E r \in Requests : req[r].at = "notify"
=============================================================================
