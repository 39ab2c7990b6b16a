------------------------- MODULE RuntimeConfigProofs -------------------------
(***************************************************************************)
(* Overrides and settings, for any number of concurrent requests, names,   *)
(* categories and settings: queries are classified as the table says, and  *)
(* no wake-up of Manager.Run is lost.                                      *)
(***************************************************************************)
EXTENDS RuntimeConfig, TLAPS

\* Type correctness: only settings within their ranges are stored, and only canonical names
\* are written.
THEOREM TypeCorrect == Spec => []TypeOK
<1> USE ConfigAssumption DEF ConfigAssumption
<1>1. Init => TypeOK
  <2> SUFFICES ASSUME Init PROVE TypeOK
    OBVIOUS
  <2>1. /\ domain_overrides \in [Domains -> Categories \cup {None}]
        /\ overrides \in [Domains -> Categories \cup {None}]
        /\ req \in [Requests -> {NoReq} \cup OverrideCall({"table", "map"}) \cup SettingsCall]
    BY DEF Init
  <2>2. /\ days \in DaysRange \cup {None} /\ hours \in HoursRange \cup {None}
        /\ wake \in BOOLEAN /\ readFailed \in BOOLEAN /\ ctxDone \in BOOLEAN
        /\ main \in {"load", "interval", "running"} /\ manager = "off"
        /\ default \in HoursRange /\ interval \in HoursRange
    BY DEF Init
  <2>3. calls \in 0..MaxCalls /\ restarts \in 0..MaxRestarts /\ doubtful \subseteq Domains
    BY DEF Init
  <2> QED
    BY <2>1, <2>2, <2>3 DEF TypeOK
<1>2. TypeOK /\ [Next]_vars => TypeOK'
  <2> SUFFICES ASSUME TypeOK, [Next]_vars PROVE TypeOK'
    OBVIOUS
  <2> USE DEF TypeOK, tables, timerVars, bounds
  <2>1. CASE LoadOverrides
    BY <2>1 DEF LoadOverrides
  <2>2. CASE Start
    BY <2>2 DEF Start, Hours
  <2>3. CASE Cancel
    BY <2>3 DEF Cancel
  <2>4. CASE Restart
    <3>1. /\ overrides' \in [Domains -> Categories \cup {None}]
          /\ req' \in [Requests -> {NoReq} \cup OverrideCall({"table", "map"}) \cup SettingsCall]
      BY <2>4 DEF Restart
    <3>2. /\ UNCHANGED tables /\ main' = "load" /\ manager' = "off"
          /\ wake' \in BOOLEAN /\ readFailed' \in BOOLEAN /\ ctxDone' \in BOOLEAN
          /\ default' \in HoursRange /\ interval' \in HoursRange
      BY <2>4 DEF Restart
    <3>3. calls' \in 0..MaxCalls /\ restarts' \in 0..MaxRestarts /\ doubtful' \subseteq Domains
      BY <2>4 DEF Restart
    <3> QED
      BY <3>1, <3>2, <3>3
  <2>5. ASSUME NEW r \in Requests, SetOverride(r) \/ RemoveOverride(r) PROVE TypeOK'
    <3>1. PICK n \in Names, c \in Categories \cup {None} :
             Begin(r, [at |-> "table", domain |-> Canonical[n], category |-> c])
      BY <2>5 DEF SetOverride, RemoveOverride
    <3>2. [at |-> "table", domain |-> Canonical[n], category |-> c] \in OverrideCall({"table", "map"})
      BY DEF OverrideCall, Domains
    <3> QED
      BY <3>1, <3>2 DEF Begin
  <2>6. ASSUME NEW r \in Requests, UpdateSettings(r) PROVE TypeOK'
    <3>1. PICK dy \in DayInputs, hr \in HourInputs : Begin(r, [at |-> "days", days |-> dy, hours |-> hr])
      BY <2>6 DEF UpdateSettings
    <3>2. [at |-> "days", days |-> dy, hours |-> hr] \in SettingsCall
      BY DEF SettingsCall
    <3> QED
      BY <3>1, <3>2 DEF Begin
  <2>7. ASSUME NEW r \in Requests, StoreOverride(r) \/ ChangeMap(r) PROVE TypeOK'
    <3>1. req[r] \in OverrideCall({"table", "map"})
      BY <2>7 DEF StoreOverride, ChangeMap, NoReq, SettingsCall
    <3>2. req[r].domain \in Domains /\ req[r].category \in Categories \cup {None}
      BY <3>1 DEF OverrideCall
    <3>3. [req[r] EXCEPT !.at = "map"] \in OverrideCall({"table", "map"})
      BY <3>1 DEF OverrideCall
    <3>4. req' \in [Requests -> {NoReq} \cup OverrideCall({"table", "map"}) \cup SettingsCall]
      BY <2>7, <3>3 DEF StoreOverride, ChangeMap, Fails
    <3> QED
      BY <2>7, <3>2, <3>4 DEF StoreOverride, ChangeMap, Fails
  <2>8. ASSUME NEW r \in Requests, SetDays(r) \/ SetHours(r) \/ NotifyConfigChanged(r) PROVE TypeOK'
    <3>1. req[r] \in SettingsCall
      BY <2>8 DEF SetDays, SetHours, NotifyConfigChanged, NoReq, OverrideCall
    <3>2. \A place \in {"hours", "notify"} : [req[r] EXCEPT !.at = place] \in SettingsCall
      BY <3>1 DEF SettingsCall
    <3>3. req' \in [Requests -> {NoReq} \cup OverrideCall({"table", "map"}) \cup SettingsCall]
      BY <2>8, <3>2 DEF SetDays, SetHours, NotifyConfigChanged, Setting
    <3> QED
      BY <2>8, <3>3 DEF SetDays, SetHours, NotifyConfigChanged, Setting, InRange
  <2>9. CASE SetTimer \/ Wait \/ Woken \/ TimerFires \/ RefreshEnds \/ ManagerReturns
    BY <2>9 DEF SetTimer, Wait, Woken, TimerFires, RefreshEnds, ManagerReturns, Goes, Hours
  <2>10. CASE UNCHANGED vars
    BY <2>10 DEF vars
  <2> QED
    BY <2>1, <2>2, <2>3, <2>4, <2>5, <2>6, <2>7, <2>8, <2>9, <2>10 DEF Next, Serve
<1> QED
  BY <1>1, <1>2, PTL DEF Spec

-----------------------------------------------------------------------------
(* The overrides.  A domain that is not in doubt has at most one call      *)
(* between its two writes, and that call has the row's category; without   *)
(* such a call the map agrees with the row.                                *)

SettledInv ==
    /\ main # "running" => req = [r \in Requests |-> NoReq]
    /\ main = "load" => doubtful = {} /\ overrides = [d \in Domains |-> None]
    /\ \A d \in Domains \ doubtful :
          /\ \A r, s \in Pending(d) : r = s
          /\ \A r \in Pending(d) : req[r].category = domain_overrides[d]
          /\ main # "load" /\ Pending(d) = {} => overrides[d] = domain_overrides[d]

\* A step that leaves the overrides and the calls for them alone.
LEMMA Untouched ==
    ASSUME SettledInv,
           UNCHANGED <<domain_overrides, overrides, doubtful>>,
           main' # "running" => req' = [r \in Requests |-> NoReq],
           main' = "load" <=> main = "load",
           \A d \in Domains : Pending(d)' = Pending(d),
           \A d \in Domains : \A r \in Pending(d) : req'[r].category = req[r].category
    PROVE  SettledInv'
BY DEF SettledInv

LEMMA SettledInit == Init => SettledInv
<1> SUFFICES ASSUME Init PROVE SettledInv
  OBVIOUS
<1>1. \A d : Pending(d) = {}
  BY DEF Init, Pending, NoReq
<1> QED
  BY <1>1 DEF Init, SettledInv

\* Every step keeps it; StoreOverride is where a domain becomes doubtful or ceases to be.
LEMMA SettledStep == TypeOK /\ SettledInv /\ [Next]_vars => SettledInv'
<1> SUFFICES ASSUME TypeOK, SettledInv, [Next]_vars PROVE SettledInv'
  OBVIOUS
<1> USE ConfigAssumption DEF ConfigAssumption, tables, timerVars, bounds
<1>1. CASE LoadOverrides
  <2>1. \A d : Pending(d)' = {} /\ Pending(d) = {}
    BY <1>1 DEF LoadOverrides, SettledInv, Pending, NoReq
  <2>2. CASE overrides' = domain_overrides
    BY <1>1, <2>1, <2>2 DEF LoadOverrides, SettledInv
  <2>3. CASE doubtful' = {d \in Domains : domain_overrides[d] # None} /\ UNCHANGED overrides
    BY <1>1, <2>1, <2>3 DEF LoadOverrides, SettledInv
  <2> QED
    BY <1>1, <2>2, <2>3 DEF LoadOverrides
<1>2. CASE Restart
  <2>1. \A d : Pending(d)' = {}
    BY <1>2 DEF Restart, Pending, NoReq
  <2> QED
    BY <1>2, <2>1 DEF Restart, SettledInv
<1>3. ASSUME NEW r \in Requests, StoreOverride(r) PROVE SettledInv'
  <2>0. req[r].at = "table" /\ main = "running" /\ main' = main /\ UNCHANGED overrides
    BY <1>3 DEF StoreOverride, SettledInv, NoReq
  <2>e. PICK e \in Domains : e = req[r].domain
    BY <2>0 DEF TypeOK, NoReq, SettingsCall, OverrideCall
  <2>1. CASE Fails(r)
    <3>1. \A d \in Domains : Pending(d)' = Pending(d)
      BY <2>0, <2>1 DEF Fails, Pending, TypeOK, NoReq
    <3>2. \A d \in Domains : \A s \in Pending(d) : req'[s].category = req[s].category
      BY <2>0, <2>1 DEF Fails, Pending, TypeOK
    <3> QED
      BY <2>0, <2>1, <3>1, <3>2, Untouched DEF Fails
  <2>2. CASE /\ domain_overrides' = [domain_overrides EXCEPT ![e] = req[r].category]
             /\ req' = [req EXCEPT ![r].at = "map"]
             /\ doubtful' = IF Pending(e) = {} THEN doubtful \ {e} ELSE doubtful \cup {e}
    <3>1. req[r] \in OverrideCall({"table", "map"})
      BY <2>0 DEF TypeOK, NoReq, SettingsCall
    <3>2. req'[r].at = "map" /\ req'[r].domain = e /\ req'[r].category = req[r].category
      BY <2>e, <2>2, <3>1 DEF TypeOK, OverrideCall
    <3>3. \A s \in Requests \ {r} : req'[s] = req[s]
      BY <2>2 DEF TypeOK
    <3>4. \A d \in Domains : Pending(d)' = IF d = e THEN Pending(d) \cup {r} ELSE Pending(d)
      BY <2>0, <3>2, <3>3 DEF Pending
    <3>5. ASSUME NEW d \in Domains \ doubtful', d # e PROVE
             /\ \A s, t \in Pending(d)' : s = t
             /\ \A s \in Pending(d)' : req'[s].category = domain_overrides'[d]
             /\ Pending(d)' = {} => overrides'[d] = domain_overrides'[d]
      <4>1. d \notin doubtful /\ domain_overrides'[d] = domain_overrides[d] /\ Pending(d)' = Pending(d)
        BY <2>2, <3>4, <3>5 DEF TypeOK
      <4>2. \A s \in Pending(d) : req'[s] = req[s]
        BY <2>0, <3>3 DEF Pending
      <4> QED
        BY <2>0, <4>1, <4>2 DEF SettledInv
    <3>6. ASSUME e \notin doubtful' PROVE
             /\ Pending(e)' = {r}
             /\ req'[r].category = domain_overrides'[e]
      BY <2>e, <2>2, <3>1, <3>2, <3>4, <3>6 DEF TypeOK, OverrideCall
    <3> QED
      BY <2>0, <3>5, <3>6 DEF SettledInv
  <2> QED
    BY <1>3, <2>e, <2>1, <2>2 DEF StoreOverride
<1>4. ASSUME NEW r \in Requests, ChangeMap(r) PROVE SettledInv'
  <2>0. main = "running" /\ main' = main /\ UNCHANGED <<domain_overrides, doubtful>>
    BY <1>4 DEF ChangeMap, SettledInv, NoReq
  <2>1. req[r] \in OverrideCall({"table", "map"})
    BY <1>4 DEF ChangeMap, TypeOK, NoReq, SettingsCall
  <2>e. PICK e \in Domains : e = req[r].domain
    BY <2>1 DEF OverrideCall
  <2>2. req'[r] = NoReq /\ \A s \in Requests \ {r} : req'[s] = req[s]
    BY <1>4 DEF ChangeMap, TypeOK
  <2>3. \A d \in Domains : Pending(d)' = Pending(d) \ {r}
    BY <2>2 DEF Pending, NoReq
  <2>4. r \in Pending(e)
    BY <1>4, <2>e DEF ChangeMap, Pending
  <2>5. ASSUME NEW d \in Domains \ doubtful' PROVE
           /\ \A s, t \in Pending(d)' : s = t
           /\ \A s \in Pending(d)' : req'[s].category = domain_overrides'[d]
           /\ Pending(d)' = {} => overrides'[d] = domain_overrides'[d]
    <3>1. \A s \in Pending(d)' : s \in Pending(d) /\ req'[s] = req[s]
      BY <2>2, <2>3 DEF Pending
    <3>2. CASE d = e
      BY <1>4, <2>e, <2>0, <2>3, <2>4, <3>1, <3>2 DEF SettledInv, ChangeMap, TypeOK
    <3>3. CASE d # e
      <4>1. Pending(d)' = Pending(d) /\ overrides'[d] = overrides[d]
        BY <1>4, <2>e, <2>3, <3>3 DEF Pending, ChangeMap, TypeOK
      <4> QED
        BY <2>0, <3>1, <4>1 DEF SettledInv
    <3> QED
      BY <3>2, <3>3
  <2> QED
    BY <2>0, <2>5 DEF SettledInv
<1>5. ASSUME NEW r \in Requests, NEW what, what.at # "map", Begin(r, what) PROVE SettledInv'
  <2>1. \A d \in Domains : Pending(d)' = Pending(d)
    BY <1>5 DEF Begin, Pending, TypeOK, NoReq
  <2>2. \A d \in Domains : \A s \in Pending(d) : req'[s].category = req[s].category
    BY <1>5 DEF Begin, Pending, TypeOK, NoReq
  <2> QED
    BY <1>5, <2>1, <2>2, Untouched DEF Begin
<1>6. ASSUME NEW r \in Requests, SetDays(r) \/ SetHours(r) \/ NotifyConfigChanged(r) PROVE SettledInv'
  <2>0. req[r].at # "map" /\ main = "running" /\ UNCHANGED <<main, domain_overrides, overrides, doubtful>>
    BY <1>6 DEF SetDays, SetHours, NotifyConfigChanged, SettledInv, NoReq
  <2>1. req'[r].at # "map"
    BY <1>6 DEF SetDays, SetHours, NotifyConfigChanged, Setting, TypeOK, NoReq, SettingsCall, OverrideCall
  <2>2. \A s \in Requests \ {r} : req'[s] = req[s]
    BY <1>6 DEF SetDays, SetHours, NotifyConfigChanged, Setting, TypeOK
  <2>3. \A d \in Domains : Pending(d)' = Pending(d)
    BY <2>0, <2>1, <2>2 DEF Pending
  <2>4. \A d \in Domains : \A s \in Pending(d) : req'[s].category = req[s].category
    BY <2>0, <2>2 DEF Pending
  <2> QED
    BY <2>0, <2>3, <2>4, Untouched
<1>7. CASE \/ Start \/ Cancel \/ SetTimer \/ Wait \/ Woken
           \/ TimerFires \/ RefreshEnds \/ ManagerReturns \/ UNCHANGED vars
  <2>1. /\ UNCHANGED <<domain_overrides, overrides, doubtful, req>>
        /\ \/ main' = main
           \/ main = "interval" /\ main' = "running"
    BY <1>7 DEF Start, Cancel, SetTimer, Wait, Woken, TimerFires, RefreshEnds, ManagerReturns,
                Goes, vars
  <2>2. \A d : Pending(d)' = Pending(d)
    BY <2>1 DEF Pending
  <2> QED
    BY <2>1, <2>2, Untouched DEF SettledInv
<1>8. ASSUME NEW r \in Requests, SetOverride(r) \/ RemoveOverride(r) \/ UpdateSettings(r)
      PROVE  SettledInv'
  <2>1. PICK what : what.at # "map" /\ Begin(r, what)
    BY <1>8 DEF SetOverride, RemoveOverride, UpdateSettings
  <2> QED
    BY <1>5, <2>1
<1> QED
  BY <1>1, <1>2, <1>3, <1>4, <1>6, <1>7, <1>8 DEF Next, Serve

\* Queries are classified as the table of overrides says, but for the domains that
\* OverridesInForce names, whatever requests, failures and crashes there are.
THEOREM OverridesInForceAlways == Spec => []OverridesInForce
<1>1. TypeOK /\ SettledInv => OverridesInForce
  BY ConfigAssumption DEF ConfigAssumption, SettledInv, OverridesInForce, Classify, Domains
<1> QED
  BY <1>1, TypeCorrect, SettledInit, SettledStep, PTL DEF Spec

-----------------------------------------------------------------------------
(* The settings.  Once there is a row it stays, so an interval that was    *)
(* taken for want of one is the default for as long as there is none.      *)

WakeInv ==
    /\ hours = None => default = DefaultHours
    /\ NoLostWake

\* A change of the setting has a request that is about to wake Manager.Run.
LEMMA WakeStep == TypeOK /\ WakeInv /\ [Next]_vars => WakeInv'
<1> SUFFICES ASSUME TypeOK, WakeInv, [Next]_vars PROVE WakeInv'
  OBVIOUS
<1> USE ConfigAssumption DEF ConfigAssumption, WakeInv, NoLostWake, Hours, tables, timerVars, bounds
<1>1. CASE LoadOverrides \/ Start \/ Cancel \/ Restart
  BY <1>1 DEF LoadOverrides, Start, Cancel, Restart
<1>2. ASSUME NEW r \in Requests, SetHours(r) PROVE WakeInv'
  <2>1. UNCHANGED <<wake, manager, interval, default, readFailed>>
    BY <1>2 DEF SetHours
  <2>2. CASE hours' = hours
    <3>1. \A s \in Requests : req[s].at = "notify" => req'[s].at = "notify"
      BY <1>2 DEF SetHours, Setting, TypeOK
    <3> QED
      BY <2>1, <2>2, <3>1
  <2>3. CASE hours' # hours
    <3>1. req' = [req EXCEPT ![r].at = "notify"] /\ hours' # None
      BY <1>2, <2>3 DEF SetHours, Setting
    <3>2. req'[r].at = "notify"
      BY <1>2, <3>1 DEF SetHours, TypeOK, NoReq, OverrideCall, SettingsCall
    <3> QED
      BY <2>1, <3>1, <3>2
  <2> QED
    BY <2>2, <2>3
<1>3. ASSUME NEW r \in Requests, NotifyConfigChanged(r) PROVE WakeInv'
  BY <1>3 DEF NotifyConfigChanged
<1>4. ASSUME NEW r \in Requests,
             \/ SetOverride(r) \/ RemoveOverride(r) \/ UpdateSettings(r)
             \/ StoreOverride(r) \/ ChangeMap(r) \/ SetDays(r)
      PROVE  WakeInv'
  <2>1. UNCHANGED <<hours, wake, manager, interval, default, readFailed>>
    BY <1>4 DEF SetOverride, RemoveOverride, UpdateSettings, Begin, StoreOverride, Fails, ChangeMap,
                SetDays
  <2>2. req[r].at # "notify" /\ \A s \in Requests \ {r} : req'[s] = req[s]
    BY <1>4 DEF SetOverride, RemoveOverride, UpdateSettings, Begin, StoreOverride, Fails, ChangeMap,
                SetDays, Setting, TypeOK, NoReq
  <2> QED
    BY <2>1, <2>2
<1>5. CASE SetTimer
  BY <1>5 DEF SetTimer
<1>6. CASE Wait \/ Woken \/ TimerFires \/ RefreshEnds \/ ManagerReturns
  BY <1>6 DEF Wait, Woken, TimerFires, RefreshEnds, ManagerReturns, Goes
<1>7. CASE UNCHANGED vars
  BY <1>7 DEF vars
<1> QED
  BY <1>1, <1>2, <1>3, <1>4, <1>5, <1>6, <1>7 DEF Next, Serve

\* Manager.Run never waits with an old interval without a wake-up in sight, for any number
\* of requests and settings.
THEOREM NoLostWakeAlways == Spec => []NoLostWake
<1>1. Init => WakeInv
  BY DEF Init, WakeInv, NoLostWake
<1>2. WakeInv => NoLostWake
  BY DEF WakeInv
<1> QED
  BY <1>1, <1>2, TypeCorrect, WakeStep, PTL DEF Spec
=============================================================================
