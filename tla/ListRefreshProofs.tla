-------------------------- MODULE ListRefreshProofs --------------------------
(***************************************************************************)
(* The classification lists, for any lists and domains, any number of      *)
(* requests, timers, failures, crashes and restarts: what is in force is   *)
(* the merge of one refresh and can be loaded again, a list that was       *)
(* removed stays out, the status tells the truth, and at most one web job  *)
(* runs, none after the close.                                             *)
(***************************************************************************)
EXTENDS ListRefresh, FiniteSetTheorems, WellFoundedInduction, TLAPS

States == {"off", "started", "listing", "fetching", "caching", "recording", "ending", "returned"}

Fetches == [Lists -> {None} \cup SUBSET Domains]

LEMMA EmptyTypes ==
    /\ Unclassified \in Classifications /\ Unfetched \in Fetches
    /\ \A l \in Lists : l # None
    /\ \A D \in SUBSET Domains : D # None
BY ListsAssumption DEF Unclassified, Classifications, Unfetched, Fetches, ListsAssumption

\* What TypeOK says of the variables that the steps of a refresh change.
LEMMA Typed ==
    ASSUME TypeOK
    PROVE  /\ at \in [Jobs -> States] /\ sources \in [Jobs -> SUBSET Lists] /\ todo \in [Jobs -> SUBSET Lists]
           /\ src \in [Jobs -> Lists \cup {None}] /\ fetched \in [Jobs -> Fetches]
           /\ combined \in [Jobs -> Classifications] /\ successCount \in [Jobs -> Nat]
           /\ attemptedAt \in [Jobs -> Nat] /\ current \in [Jobs -> BOOLEAN]
           /\ spoiled \in [Jobs -> SUBSET Lists] /\ inForce \in Fetches /\ behind \in SUBSET Lists
           /\ out \in SUBSET added /\ cache \in [Lists -> SUBSET Domains] /\ domains \in Classifications
           /\ added \in SUBSET Lists /\ listed \in SUBSET added /\ enabled \in SUBSET added
           /\ refreshes \in Nat /\ req \in [Requests -> {"new", "asking", "swapped", "done"}]
  BY DEF TypeOK, Fetches, States

-----------------------------------------------------------------------------
\* The list in work while it is written is one that was fetched.
CachingInv == \A j \in Jobs : at[j] = "caching" => src[j] \in Lists /\ fetched[j][src[j]] # None

\* A refresh begins.
LEMMA BeginTypes ==
    ASSUME TypeOK, CachingInv, NEW j \in Jobs, NEW S \in SUBSET Lists, BeginRefresh(j, S)
    PROVE  /\ refreshes' \in Nat /\ at' \in [Jobs -> States]
           /\ sources' \in [Jobs -> SUBSET Lists] /\ todo' \in [Jobs -> SUBSET Lists]
           /\ src' \in [Jobs -> Lists \cup {None}] /\ fetched' \in [Jobs -> Fetches]
           /\ combined' \in [Jobs -> Classifications]
           /\ successCount' \in [Jobs -> Nat] /\ attemptedAt' \in [Jobs -> Nat]
           /\ spoiled' \in [Jobs -> SUBSET Lists] /\ out' \subseteq out
           /\ CachingInv'
<1> USE Typed
<1>1. combined' \in [Jobs -> Classifications] /\ fetched' \in [Jobs -> Fetches]
  BY EmptyTypes DEF BeginRefresh
<1>2. /\ at' \in [Jobs -> States] /\ sources' \in [Jobs -> SUBSET Lists] /\ todo' \in [Jobs -> SUBSET Lists]
      /\ src' \in [Jobs -> Lists \cup {None}]
  BY DEF BeginRefresh, States
<1>3. refreshes' \in Nat /\ successCount' \in [Jobs -> Nat] /\ attemptedAt' \in [Jobs -> Nat]
  BY DEF BeginRefresh
<1>4. spoiled' \in [Jobs -> SUBSET Lists] /\ out' \subseteq out
  BY DEF BeginRefresh
<1>5. CachingInv'
  BY DEF BeginRefresh, CachingInv
<1> QED
  BY <1>1, <1>2, <1>3, <1>4, <1>5

LEMMA TypeStep == TypeOK /\ CachingInv /\ [Next]_vars => TypeOK' /\ CachingInv'
<1> SUFFICES ASSUME TypeOK, CachingInv, [Next]_vars PROVE TypeOK' /\ CachingInv'
  OBVIOUS
<1> USE DEF TypeOK, CachingInv, listVars, statusVars, mainVars, jobVars, serverVars, boundVars, histVars,
            forceVars, Fetches, States
<1>1. CASE Boot
  <2>1. /\ Defaults \subseteq Lists
        /\ UNCHANGED <<cache, statusVars, ctxDone, serverVars, timer, restarts, settled, stored,
                       ordered, behind>>
    BY <1>1, ListsAssumption DEF Boot, ListsAssumption
  <2>2. added' \subseteq Lists /\ listed' \subseteq added' /\ enabled' \subseteq added' /\ added \subseteq added'
    <3>1. PICK seeds \in Seeds : /\ added' = added \cup seeds /\ listed' = listed \cup seeds
                                 /\ enabled' = enabled \cup seeds
      BY <1>1 DEF Boot
    <3>2. seeds \subseteq Defaults
      BY <3>1 DEF Seeds
    <3> QED
      BY <2>1, <3>1, <3>2
  <2>3. PICK f \in CachedDomains \cup (IF ReadsFail THEN {Unclassified} ELSE {}) :
           /\ domains' = f
           /\ \E S \in {listed' \cap enabled'} \cup (IF ReadsFail THEN {{}} ELSE {}) :
                /\ initialSources' = S
                /\ IF f = Unclassified
                   THEN /\ BeginRefresh("manager", S) /\ phase' = phase
                        /\ current' = [current EXCEPT !["manager"] = S = listed' \cap enabled']
                        /\ inForce' = Unfetched
                   ELSE /\ phase' = "up"
                        /\ inForce' = [l \in Lists |-> IF l \in Loadable THEN cache[l] ELSE None]
                        /\ UNCHANGED <<jobVars, refreshes, current, spoiled, out>>
    BY <1>1 DEF Boot
  <2>4. PICK S \in {listed' \cap enabled'} \cup (IF ReadsFail THEN {{}} ELSE {}) :
           /\ initialSources' = S
           /\ IF f = Unclassified
              THEN /\ BeginRefresh("manager", S) /\ phase' = phase
                   /\ current' = [current EXCEPT !["manager"] = S = listed' \cap enabled']
                   /\ inForce' = Unfetched
              ELSE /\ phase' = "up"
                   /\ inForce' = [l \in Lists |-> IF l \in Loadable THEN cache[l] ELSE None]
                   /\ UNCHANGED <<jobVars, refreshes, current, spoiled, out>>
    BY <2>3
  <2>5. domains' \in Classifications
    BY <2>3, EmptyTypes DEF CachedDomains, Classifications
  <2>6. S \subseteq Lists
    BY <2>2, <2>4
  <2>7. CASE f = Unclassified
    <3>1. /\ BeginRefresh("manager", S) /\ phase' = phase
          /\ current' = [current EXCEPT !["manager"] = S = listed' \cap enabled']
          /\ inForce' = Unfetched
      BY <2>4, <2>7
    <3>2. /\ refreshes' \in Nat /\ at' \in [Jobs -> States]
          /\ sources' \in [Jobs -> SUBSET Lists] /\ todo' \in [Jobs -> SUBSET Lists]
          /\ src' \in [Jobs -> Lists \cup {None}] /\ fetched' \in [Jobs -> Fetches]
          /\ combined' \in [Jobs -> Classifications]
          /\ successCount' \in [Jobs -> Nat] /\ attemptedAt' \in [Jobs -> Nat]
          /\ spoiled' \in [Jobs -> SUBSET Lists] /\ out' \subseteq out
          /\ CachingInv'
      <4>1. "manager" \in Jobs
        BY DEF Jobs
      <4> HIDE DEF TypeOK, CachingInv, Fetches, States
      <4> QED
        BY <2>6, <3>1, <4>1, BeginTypes
    <3>3. current' \in [Jobs -> BOOLEAN] /\ inForce' \in Fetches
      <4>1. current' \in [Jobs -> BOOLEAN]
        BY <3>1
      <4>2. inForce' \in Fetches
        BY <3>1, EmptyTypes
      <4> QED
        BY <4>1, <4>2
    <3> QED
      BY <2>1, <2>2, <2>4, <2>5, <2>6, <3>1, <3>2, <3>3
  <2>8. CASE f # Unclassified
    <3>1. inForce' \in Fetches
      BY <2>4, <2>8
    <3> QED
      BY <2>1, <2>2, <2>4, <2>5, <2>6, <2>8, <3>1
  <2> QED
    BY <2>7, <2>8
<1>2. CASE TimerFires
  <2>1. PICK S \in {Enabled} \cup (IF ReadsFail THEN {initialSources} ELSE {}) :
           /\ BeginRefresh("manager", S)
           /\ current' = [current EXCEPT !["manager"] = S = Enabled]
    BY <1>2 DEF TimerFires
  <2>2. S \subseteq Lists /\ "manager" \in Jobs
    BY <2>1 DEF Enabled, Jobs
  <2>3. /\ refreshes' \in Nat /\ at' \in [Jobs -> States]
        /\ sources' \in [Jobs -> SUBSET Lists] /\ todo' \in [Jobs -> SUBSET Lists]
        /\ src' \in [Jobs -> Lists \cup {None}] /\ fetched' \in [Jobs -> Fetches]
        /\ combined' \in [Jobs -> Classifications]
        /\ successCount' \in [Jobs -> Nat] /\ attemptedAt' \in [Jobs -> Nat]
        /\ spoiled' \in [Jobs -> SUBSET Lists] /\ out' \subseteq out
        /\ CachingInv'
    <3> HIDE DEF TypeOK, CachingInv, Fetches, States
    <3> QED
      BY <2>1, <2>2, BeginTypes
  <2>4. current' \in [Jobs -> BOOLEAN]
    BY <2>1
  <2>5. /\ timer' = timer + 1
        /\ UNCHANGED <<listVars, cache, statusVars, forceVars, mainVars, serverVars, restarts, behind>>
    BY <1>2 DEF TimerFires
  <2> QED
    BY <2>3, <2>4, <2>5
<1>3. CASE ManagerReturns
  BY <1>3 DEF ManagerReturns
<1>4. ASSUME NEW j \in Jobs, FetchList(j)
      PROVE  TypeOK' /\ CachingInv'
  <2>0. PICK l \in FirstsOf(todo[j]) : \E listDomains \in Versions[l] :
          /\ todo' = [todo EXCEPT ![j] = @ \ {l}]
          /\ src' = [src EXCEPT ![j] = l]
          /\ fetched' = [fetched EXCEPT ![j][l] = listDomains]
          /\ combined' = [combined EXCEPT ![j] = [d \in Domains |-> IF d \in listDomains THEN l ELSE @[d]]]
    BY <1>4 DEF FetchList
  <2>1. PICK listDomains \in Versions[l] :
          /\ todo' = [todo EXCEPT ![j] = @ \ {l}]
          /\ src' = [src EXCEPT ![j] = l]
          /\ fetched' = [fetched EXCEPT ![j][l] = listDomains]
          /\ combined' = [combined EXCEPT ![j] = [d \in Domains |-> IF d \in listDomains THEN l ELSE @[d]]]
    BY <2>0
  <2>2. /\ at' = [at EXCEPT ![j] = "caching"]
        /\ successCount' = [successCount EXCEPT ![j] = @ + 1]
        /\ UNCHANGED <<listVars, cache, statusVars, forceVars, mainVars, sources, attemptedAt,
                       serverVars, boundVars, histVars>>
    BY <1>4 DEF FetchList
  <2>3. l \in Lists /\ listDomains \in SUBSET Domains /\ listDomains # None
    BY <2>1, ListsAssumption DEF ListsAssumption, FirstsOf
  <2>4. combined' \in [Jobs -> Classifications]
    BY <2>1, <2>3 DEF Classifications
  <2>5. fetched' \in [Jobs -> Fetches] /\ fetched'[j][l] = listDomains
        /\ \A k \in Jobs : k # j => fetched'[k] = fetched[k]
    BY <2>1, <2>3
  <2>6. /\ todo' \in [Jobs -> SUBSET Lists] /\ src' \in [Jobs -> Lists \cup {None}] /\ src'[j] = l
        /\ \A k \in Jobs : k # j => src'[k] = src[k] /\ at'[k] = at[k]
        /\ at' \in [Jobs -> States] /\ successCount' \in [Jobs -> Nat]
    BY <2>1, <2>2, <2>3
  <2>7. CachingInv'
    BY <2>3, <2>5, <2>6
  <2> QED
    BY <2>2, <2>4, <2>5, <2>6, <2>7
<1>5. ASSUME NEW j \in Jobs, FetchFails(j)
      PROVE  TypeOK' /\ CachingInv'
  <2>1. PICK l : todo' = [todo EXCEPT ![j] = @ \ {l}]
    BY <1>5 DEF FetchFails
  <2> QED
    BY <1>5, <2>1 DEF FetchFails
<1>6. ASSUME NEW j \in Jobs, CacheList(j)
      PROVE  TypeOK' /\ CachingInv'
  <2> DEFINE l == src[j]
  <2>1. /\ at[j] = "caching" /\ at' = [at EXCEPT ![j] = "fetching"]
        /\ src' = [src EXCEPT ![j] = None]
        /\ UNCHANGED <<listVars, statusVars, forceVars, mainVars, sources, todo, fetched, combined,
                       successCount, attemptedAt, serverVars, boundVars, current, out>>
    BY <1>6 DEF CacheList
  <2>2. l \in Lists /\ fetched[j][l] \in SUBSET Domains
    BY <2>1
  <2>3. cache' \in [Lists -> SUBSET Domains] /\ spoiled' \in [Jobs -> SUBSET Lists] /\ behind' \subseteq Lists
    <3>1. CASE cache' = [cache EXCEPT ![l] = fetched[j][l]] /\ Overwrites(j, l)
      BY <2>2, <3>1 DEF Overwrites
    <3>2. CASE spoiled' = [spoiled EXCEPT ![j] = @ \cup {l}] /\ UNCHANGED <<cache, behind>>
      BY <2>2, <3>2
    <3> QED
      BY <1>6, <3>1, <3>2 DEF CacheList, RowsWritten
  <2>4. src' \in [Jobs -> Lists \cup {None}] /\ at' \in [Jobs -> States]
    BY <2>1
  <2>5. CachingInv'
    BY <2>1
  <2> QED
    BY <2>1, <2>3, <2>4, <2>5
<1>7. ASSUME NEW j \in Jobs, Finish(j)
      PROVE  TypeOK' /\ CachingInv'
  <2>1. /\ at[j] = "fetching" /\ at' = [at EXCEPT ![j] = "recording"]
        /\ fetched' = [fetched EXCEPT ![j] = Unfetched]
        /\ spoiled' = [spoiled EXCEPT ![j] = {}]
        /\ UNCHANGED <<listVars, cache, statusVars, mainVars, sources, todo, src, combined,
                       successCount, attemptedAt, serverVars, boundVars, current>>
    BY <1>7 DEF Finish
  <2>2. /\ domains' \in Classifications /\ settled' \in BOOLEAN /\ stored' \subseteq Nat
        /\ ordered' \in BOOLEAN /\ inForce' \in Fetches /\ behind' \subseteq Lists /\ out' \subseteq added
    <3>1. combined[j] \in Classifications /\ current[j] \in BOOLEAN /\ attemptedAt[j] \in Nat
          /\ fetched[j] \in Fetches /\ spoiled[j] \subseteq Lists
      OBVIOUS
    <3>2. \/ UNCHANGED <<forceVars, behind, out>>
          \/ /\ domains' = combined[j] /\ settled' = current[j]
             /\ stored' = stored \cup {attemptedAt[j]}
             /\ inForce' = fetched[j] /\ ordered' = TRUE /\ behind' = spoiled[j]
             /\ out' = out \cup (added \ (Enabled \cup UNION {sources[k] : k \in Jobs}))
      BY <1>7 DEF Finish, NewDomainMap
    <3> QED
      BY <3>1, <3>2
  <2>3. fetched' \in [Jobs -> Fetches]
    BY <2>1, EmptyTypes
  <2>4. at' \in [Jobs -> States] /\ spoiled' \in [Jobs -> SUBSET Lists] /\ CachingInv'
    BY <2>1
  <2> QED
    BY <2>1, <2>2, <2>3, <2>4
<1>8. ASSUME NEW j \in Jobs, Record(j)
      PROVE  TypeOK' /\ CachingInv'
  <2>1. lastAttempt' \in Nat /\ lastSuccess' \in Nat /\ lastError' \in BOOLEAN
    <3>1. Failed(j) \in BOOLEAN /\ attemptedAt[j] \in Nat
      BY DEF Failed
    <3>2. RecordAttempt(attemptedAt[j], Failed(j)) \/ UNCHANGED statusVars
      BY <1>8 DEF Record
    <3> QED
      BY <3>1, <3>2 DEF RecordAttempt
  <2>2. /\ at' = [at EXCEPT ![j] = IF j = "web" THEN "ending" ELSE "off"]
        /\ sources' = [sources EXCEPT ![j] = {}]
        /\ combined' = [combined EXCEPT ![j] = Unclassified]
        /\ successCount' = [successCount EXCEPT ![j] = 0]
        /\ attemptedAt' = [attemptedAt EXCEPT ![j] = 0]
        /\ phase' = IF j = "manager" THEN "up" ELSE phase
        /\ UNCHANGED <<listVars, cache, forceVars, ctxDone, initialSources, todo, src, fetched,
                       serverVars, boundVars, histVars>>
    BY <1>8 DEF Record
  <2>3. combined' \in [Jobs -> Classifications]
    BY <2>2, EmptyTypes
  <2> QED
    BY <2>1, <2>2, <2>3
<1>9. ASSUME NEW r \in Requests, NEW l \in Lists, AddList(r, l)
      PROVE  TypeOK' /\ CachingInv'
  BY <1>9 DEF AddList, Serving, ListsChange
<1>10. ASSUME NEW r \in Requests, NEW l \in Lists, NEW on \in BOOLEAN,
             UpdateListEnabled(r, l, on)
      PROVE  TypeOK' /\ CachingInv'
  BY <1>10 DEF UpdateListEnabled, ListsChange
<1>11. ASSUME NEW r \in Requests, NEW l \in Lists, DeleteList(r, l)
      PROVE  TypeOK' /\ CachingInv'
  BY <1>11 DEF DeleteList, ListsChange
<1>12. ASSUME NEW r \in Requests, AskRefresh(r)
      PROVE  TypeOK' /\ CachingInv'
  BY <1>12 DEF AskRefresh, ListsChange
<1>13. ASSUME NEW r \in Requests, CompareAndSwap(r)
      PROVE  TypeOK' /\ CachingInv'
  BY <1>13 DEF CompareAndSwap, ListsChange
<1>14. ASSUME NEW r \in Requests, StartJob(r)
      PROVE  TypeOK' /\ CachingInv'
  <2>1. /\ req' = [req EXCEPT ![r] = "done"] /\ refreshJobs' = refreshJobs + 1
        /\ at' = [at EXCEPT !["web"] = "started"]
        /\ UNCHANGED <<listVars, cache, statusVars, forceVars, mainVars, sources, todo, src, fetched,
                       combined, successCount, attemptedAt, refreshRunning, closer, boundVars, histVars>>
    BY <1>14 DEF StartJob
  <2>2. /\ at' \in [Jobs -> States] /\ req' \in [Requests -> {"new", "asking", "swapped", "done"}]
        /\ \A j \in Jobs : at'[j] = "caching" => at[j] = "caching"
    BY <2>1
  <2> QED
    BY <2>1, <2>2
<1>15. CASE CheckContext
  BY <1>15 DEF CheckContext, Checked
<1>16. CASE LoadSources
  <2>1. UNCHANGED <<listVars, cache, forceVars, mainVars, serverVars, timer, restarts, behind>>
    BY <1>16 DEF LoadSources
  <2>2. CASE /\ BeginRefresh("web", Enabled)
             /\ current' = [current EXCEPT !["web"] = TRUE] /\ UNCHANGED statusVars
    <3>1. Enabled \subseteq Lists /\ "web" \in Jobs
      BY DEF Enabled, Jobs
    <3>2. /\ refreshes' \in Nat /\ at' \in [Jobs -> States]
          /\ sources' \in [Jobs -> SUBSET Lists] /\ todo' \in [Jobs -> SUBSET Lists]
          /\ src' \in [Jobs -> Lists \cup {None}] /\ fetched' \in [Jobs -> Fetches]
          /\ combined' \in [Jobs -> Classifications]
          /\ successCount' \in [Jobs -> Nat] /\ attemptedAt' \in [Jobs -> Nat]
          /\ spoiled' \in [Jobs -> SUBSET Lists] /\ out' \subseteq out
          /\ CachingInv'
      <4> HIDE DEF TypeOK, CachingInv, Fetches, States
      <4> QED
        BY <2>2, <3>1, BeginTypes
    <3>3. current' \in [Jobs -> BOOLEAN] /\ UNCHANGED statusVars
      BY <2>2
    <3> QED
      BY <2>1, <3>2, <3>3
  <2>3. CASE /\ refreshes' = refreshes + 1
             /\ at' = [at EXCEPT !["web"] = "ending"]
             /\ RecordAttempt(refreshes + 1, TRUE) \/ UNCHANGED statusVars
             /\ UNCHANGED <<sources, todo, src, fetched, combined, successCount, attemptedAt,
                            current, spoiled, out>>
    <3>1. lastAttempt' \in Nat /\ lastSuccess' \in Nat /\ lastError' \in BOOLEAN
      <4>1. CASE RecordAttempt(refreshes + 1, TRUE)
        <5>1. lastAttempt' = refreshes + 1 /\ lastSuccess' = lastSuccess /\ lastError' = TRUE
          BY <4>1 DEF RecordAttempt
        <5> QED
          BY <5>1
      <4>2. CASE UNCHANGED statusVars
        BY <4>2
      <4> QED
        BY <2>3, <4>1, <4>2
    <3>2. /\ refreshes' \in Nat /\ at' \in [Jobs -> States]
          /\ \A j \in Jobs : at'[j] = "caching" => at[j] = "caching"
      <4>1. refreshes' = refreshes + 1 /\ at' = [at EXCEPT !["web"] = "ending"]
        BY <2>3
      <4>2. refreshes' \in Nat
        BY <4>1
      <4>3. at \in [Jobs -> States]
        OBVIOUS
      <4> HIDE DEF TypeOK, CachingInv
      <4>4. at' \in [Jobs -> States] /\ \A j \in Jobs : at'[j] = "caching" => at[j] = "caching"
        BY <4>1, <4>3
      <4> QED
        BY <4>2, <4>4
    <3>3. UNCHANGED <<sources, todo, src, fetched, combined, successCount, attemptedAt, current,
                      spoiled, out>>
      BY <2>3
    <3> QED
      BY <2>1, <3>1, <3>2, <3>3
  <2> QED
    BY <1>16, <2>2, <2>3 DEF LoadSources
<1>17. CASE ReleaseFlag
  BY <1>17 DEF ReleaseFlag, ListsChange
<1>18. CASE JobDone
  BY <1>18 DEF JobDone, ListsChange
<1>19. CASE Cancel
  BY <1>19 DEF Cancel, ListsChange
<1>20. CASE Shutdown
  BY <1>20 DEF Shutdown, ListsChange
<1>21. CASE CloseCancels
  BY <1>21 DEF CloseCancels, ListsChange
<1>22. CASE CloseReturns
  BY <1>22 DEF CloseReturns, ListsChange
<1>23. CASE Exit
  BY <1>23 DEF Exit, ListsChange
<1>24. CASE Restart
  <2>1. /\ combined' \in [Jobs -> Classifications] /\ domains' \in Classifications
        /\ fetched' \in [Jobs -> Fetches] /\ inForce' \in Fetches
    <3>1. /\ combined' = [j \in Jobs |-> Unclassified] /\ domains' = Unclassified
          /\ fetched' = [j \in Jobs |-> Unfetched] /\ inForce' = Unfetched
      BY <1>24 DEF Restart
    <3> HIDE DEF Fetches
    <3> QED
      BY <3>1, EmptyTypes
  <2>2. /\ restarts' = restarts + 1 /\ phase' = "boot" /\ ctxDone' = FALSE /\ initialSources' = {}
        /\ refreshRunning' = FALSE /\ refreshJobs' = 0 /\ closer' = "serving" /\ settled' = FALSE
        /\ ordered' = FALSE /\ behind' = {} /\ out' = added \ Enabled
        /\ UNCHANGED <<listVars, cache, statusVars, refreshes, timer, stored>>
    BY <1>24 DEF Restart
  <2>3. /\ at' = [j \in Jobs |-> "off"]
        /\ sources' = [j \in Jobs |-> {}] /\ todo' = [j \in Jobs |-> {}]
        /\ src' = [j \in Jobs |-> None] /\ spoiled' = [j \in Jobs |-> {}]
        /\ successCount' = [j \in Jobs |-> 0] /\ attemptedAt' = [j \in Jobs |-> 0]
        /\ current' = [j \in Jobs |-> FALSE]
    BY <1>24 DEF Restart
  <2>4. req' \in [Requests -> {"new", "asking", "swapped", "done"}]
    BY <1>24 DEF Restart
  <2>5. /\ at' \in [Jobs -> States] /\ sources' \in [Jobs -> SUBSET Lists]
        /\ todo' \in [Jobs -> SUBSET Lists] /\ src' \in [Jobs -> Lists \cup {None}]
        /\ successCount' \in [Jobs -> Nat] /\ spoiled' \in [Jobs -> SUBSET Lists]
        /\ attemptedAt' \in [Jobs -> Nat] /\ current' \in [Jobs -> BOOLEAN] /\ CachingInv'
    BY <2>3
  <2>6. /\ restarts' \in Nat /\ refreshJobs' \in Nat /\ behind' \subseteq Lists
    BY <2>2
  <2>11. ctxDone' \in BOOLEAN /\ refreshRunning' \in BOOLEAN
    BY <2>2
  <2>10. settled' \in BOOLEAN /\ ordered' \in BOOLEAN
    BY <2>2
  <2>9. out' \subseteq added'
    BY <2>2
  <2>7. /\ phase' \in {"boot", "up", "exited"} /\ initialSources' \subseteq Lists
        /\ closer' \in {"serving", "draining", "cancelled", "closed"}
    BY <2>2
  <2>8. /\ added' \subseteq Lists /\ listed' \subseteq added' /\ enabled' \subseteq added'
        /\ cache' \in [Lists -> SUBSET Domains]
        /\ lastAttempt' \in Nat /\ lastSuccess' \in Nat /\ lastError' \in BOOLEAN
        /\ refreshes' \in Nat /\ timer' \in Nat /\ stored' \subseteq Nat
    BY <2>2
  <2> QED
    BY <2>1, <2>4, <2>5, <2>6, <2>7, <2>8, <2>9, <2>10, <2>11
<1>25. CASE UNCHANGED vars
  BY <1>25 DEF vars, ListsChange
<1> QED
  BY <1>1, <1>2, <1>3, <1>4, <1>5, <1>6, <1>7, <1>8, <1>9, <1>10, <1>11, <1>12, <1>13,
     <1>14, <1>15, <1>16, <1>17, <1>18, <1>19, <1>20, <1>21, <1>22, <1>23, <1>24, <1>25
  DEF Next, Refresh, Request, Web, Close

LEMMA TypeInit == Init => TypeOK /\ CachingInv
<1> SUFFICES ASSUME Init PROVE TypeOK /\ CachingInv
  OBVIOUS
<1>1. /\ domains \in Classifications /\ combined \in [Jobs -> Classifications]
      /\ fetched \in [Jobs -> Fetches] /\ inForce \in Fetches
  BY EmptyTypes DEF Init
<1>2. CachingInv
  BY DEF Init, CachingInv
<1>3. at \in [Jobs -> States] /\ req \in [Requests -> {"new", "asking", "swapped", "done"}]
  BY DEF Init, States
<1> QED
  BY <1>1, <1>2, <1>3 DEF Init, TypeOK, States, Fetches

\* Every variable keeps its type; a job classifies only by lists that exist.
THEOREM TypeCorrect == Spec => []TypeOK
BY TypeInit, TypeStep, PTL DEF Spec

LEMMA CachingAlways == Spec => []CachingInv
BY TypeInit, TypeStep, PTL DEF Spec

-----------------------------------------------------------------------------
\* The flag is set from the compare-and-swap to the end of the job, and the counter
\* of the WaitGroup is above zero from the start of the job to after its end.
JobInv ==
    /\ at["web"] # "off" => refreshRunning /\ refreshJobs > 0
    /\ \A r \in Requests : req[r] = "swapped" => refreshRunning /\ at["web"] = "off"
    /\ \A r, s \in Requests : req[r] = "swapped" /\ req[s] = "swapped" => r = s
    /\ closer = "closed" => at["web"] \in {"off", "started", "ending"}

LEMMA JobStep == TypeOK /\ JobInv /\ [Next]_vars => JobInv'
<1> SUFFICES ASSUME TypeOK, JobInv, [Next]_vars PROVE JobInv'
  OBVIOUS
<1>0. /\ at \in [Jobs -> States] /\ req \in [Requests -> {"new", "asking", "swapped", "done"}]
      /\ refreshRunning \in BOOLEAN /\ refreshJobs \in Nat
  BY DEF TypeOK, States
<1> USE <1>0 DEF JobInv, Jobs, listVars, statusVars, mainVars, jobVars, serverVars, boundVars, histVars, forceVars
<1>1. CASE Boot
  <2>1. UNCHANGED <<req, refreshRunning, refreshJobs, closer>>
    BY <1>1 DEF Boot
  <2>2. at'["web"] = at["web"]
    <3>1. at' = at \/ at' = [at EXCEPT !["manager"] = "fetching"]
      BY <1>1 DEF Boot, BeginRefresh
    <3> QED
      BY <3>1
  <2> QED
    BY <2>1, <2>2
<1>2. CASE TimerFires
  <2>1. UNCHANGED <<req, refreshRunning, refreshJobs, closer>>
    BY <1>2 DEF TimerFires
  <2>2. at'["web"] = at["web"]
    <3>1. at' = [at EXCEPT !["manager"] = "fetching"]
      BY <1>2 DEF TimerFires, BeginRefresh
    <3> QED
      BY <3>1
  <2> QED
    BY <2>1, <2>2
<1>3. CASE ManagerReturns
  BY <1>3 DEF ManagerReturns
<1>4. ASSUME NEW j \in Jobs, FetchList(j)
      PROVE  JobInv'
  <2>1. /\ at[j] = "fetching" /\ at' = [at EXCEPT ![j] = "caching"]
        /\ UNCHANGED <<req, refreshRunning, refreshJobs, closer>>
    BY <1>4 DEF FetchList
  <2>2. at'[j] = ("caching") /\ \A k \in Jobs \ {j} : at'[k] = at[k]
    BY <2>1
  <2> QED
    BY <2>1, <2>2
<1>5. ASSUME NEW j \in Jobs, FetchFails(j)
      PROVE  JobInv'
  BY <1>5 DEF FetchFails
<1>6. ASSUME NEW j \in Jobs, CacheList(j)
      PROVE  JobInv'
  <2>1. /\ at[j] = "caching" /\ at' = [at EXCEPT ![j] = "fetching"]
        /\ UNCHANGED <<req, refreshRunning, refreshJobs, closer>>
    BY <1>6 DEF CacheList
  <2>2. at'[j] = ("fetching") /\ \A k \in Jobs \ {j} : at'[k] = at[k]
    BY <2>1
  <2> QED
    BY <2>1, <2>2
<1>7. ASSUME NEW j \in Jobs, Finish(j)
      PROVE  JobInv'
  <2>1. /\ at[j] = "fetching" /\ at' = [at EXCEPT ![j] = "recording"]
        /\ UNCHANGED <<req, refreshRunning, refreshJobs, closer>>
    BY <1>7 DEF Finish
  <2>2. at'[j] = ("recording") /\ \A k \in Jobs \ {j} : at'[k] = at[k]
    BY <2>1
  <2> QED
    BY <2>1, <2>2
<1>8. ASSUME NEW j \in Jobs, Record(j)
      PROVE  JobInv'
  <2>1. /\ at[j] = "recording" /\ at' = [at EXCEPT ![j] = IF j = "web" THEN "ending" ELSE "off"]
        /\ UNCHANGED <<req, refreshRunning, refreshJobs, closer>>
    BY <1>8 DEF Record
  <2>2. at'[j] = (IF j = "web" THEN "ending" ELSE "off") /\ \A k \in Jobs \ {j} : at'[k] = at[k]
    BY <2>1
  <2> QED
    BY <2>1, <2>2
<1>9. ASSUME NEW r \in Requests, NEW l \in Lists, AddList(r, l)
      PROVE  JobInv'
  <2>1. req' = [req EXCEPT ![r] = "asking"] /\ UNCHANGED <<at, refreshRunning, refreshJobs, closer>>
    BY <1>9 DEF AddList
  <2>2. \A s \in Requests : req'[s] = "swapped" => req[s] = "swapped"
    BY <2>1
  <2> QED
    BY <2>1, <2>2
<1>10. ASSUME NEW r \in Requests, NEW l \in Lists, NEW on \in BOOLEAN,
             UpdateListEnabled(r, l, on)
      PROVE  JobInv'
  <2>1. req' = [req EXCEPT ![r] = "asking"] /\ UNCHANGED <<at, refreshRunning, refreshJobs, closer>>
    BY <1>10 DEF UpdateListEnabled, ListsChange
  <2>2. \A s \in Requests : req'[s] = "swapped" => req[s] = "swapped"
    BY <2>1
  <2> QED
    BY <2>1, <2>2
<1>11. ASSUME NEW r \in Requests, NEW l \in Lists, DeleteList(r, l)
      PROVE  JobInv'
  <2>1. req' = [req EXCEPT ![r] = "asking"] /\ UNCHANGED <<at, refreshRunning, refreshJobs, closer>>
    BY <1>11 DEF DeleteList, ListsChange
  <2>2. \A s \in Requests : req'[s] = "swapped" => req[s] = "swapped"
    BY <2>1
  <2> QED
    BY <2>1, <2>2
<1>12. ASSUME NEW r \in Requests, AskRefresh(r)
      PROVE  JobInv'
  <2>1. req' = [req EXCEPT ![r] = "asking"] /\ UNCHANGED <<at, refreshRunning, refreshJobs, closer>>
    BY <1>12 DEF AskRefresh
  <2>2. \A s \in Requests : req'[s] = "swapped" => req[s] = "swapped"
    BY <2>1
  <2> QED
    BY <2>1, <2>2
<1>13. ASSUME NEW r \in Requests, CompareAndSwap(r)
      PROVE  JobInv'
  <2>1. /\ req' = [req EXCEPT ![r] = IF refreshRunning THEN "done" ELSE "swapped"]
        /\ refreshRunning' = TRUE /\ UNCHANGED <<at, refreshJobs, closer>>
    BY <1>13 DEF CompareAndSwap, Swaps
  <2>2. CASE refreshRunning
    <3>1. \A s \in Requests : req'[s] = "swapped" => req[s] = "swapped"
      BY <2>1, <2>2
    <3> QED
      BY <2>1, <3>1
  <2>3. CASE ~ refreshRunning
    <3>1. \A s \in Requests : req[s] # "swapped" /\ (req'[s] = "swapped" => s = r)
      BY <2>1, <2>3
    <3> QED
      BY <2>1, <2>3, <3>1
  <2> QED
    BY <2>2, <2>3
<1>14. ASSUME NEW r \in Requests, StartJob(r)
      PROVE  JobInv'
  <2>1. /\ req[r] = "swapped" /\ req' = [req EXCEPT ![r] = "done"] /\ refreshJobs' = refreshJobs + 1
        /\ at' = [at EXCEPT !["web"] = "started"] /\ UNCHANGED <<refreshRunning, closer>>
    BY <1>14 DEF StartJob
  <2>2. \A s \in Requests : req'[s] # "swapped"
    BY <2>1
  <2>3. at'["web"] = "started" /\ refreshJobs' > 0
    BY <2>1
  <2> QED
    BY <2>1, <2>2, <2>3
<1>15. CASE CheckContext
  BY <1>15 DEF CheckContext, Checked, BackgroundDone
<1>16. CASE LoadSources
  <2>1. UNCHANGED <<req, refreshRunning, refreshJobs, closer>> /\ at["web"] = "listing"
    BY <1>16 DEF LoadSources
  <2>2. at' = [at EXCEPT !["web"] = "fetching"] \/ at' = [at EXCEPT !["web"] = "ending"]
    BY <1>16 DEF LoadSources, BeginRefresh
  <2>3. at'["manager"] = at["manager"] /\ at'["web"] \in {"fetching", "ending"}
    BY <2>2
  <2> QED
    BY <2>1, <2>3
<1>17. CASE ReleaseFlag
  BY <1>17 DEF ReleaseFlag
<1>18. CASE JobDone
  BY <1>18 DEF JobDone
<1>19. CASE Cancel
  BY <1>19 DEF Cancel
<1>20. CASE Shutdown
  BY <1>20 DEF Shutdown
<1>21. CASE CloseCancels
  BY <1>21 DEF CloseCancels
<1>22. CASE CloseReturns
  BY <1>22 DEF CloseReturns
<1>23. CASE Exit
  BY <1>23 DEF Exit
<1>24. CASE Restart
  <2>1. /\ at' = [j \in Jobs |-> "off"] /\ closer' = "serving" /\ refreshJobs' = 0
        /\ req' = [r \in Requests |-> IF req[r] = "new" THEN "new" ELSE "done"]
    BY <1>24 DEF Restart
  <2>2. \A r \in Requests : req'[r] # "swapped"
    BY <2>1
  <2> QED
    BY <2>1, <2>2
<1>25. CASE UNCHANGED vars
  BY <1>25 DEF vars
<1> QED
  BY <1>1, <1>2, <1>3, <1>4, <1>5, <1>6, <1>7, <1>8, <1>9, <1>10, <1>11, <1>12, <1>13,
     <1>14, <1>15, <1>16, <1>17, <1>18, <1>19, <1>20, <1>21, <1>22, <1>23, <1>24, <1>25
  DEF Next, Refresh, Request, Web, Close

LEMMA JobAlways == Spec => []JobInv
<1>1. Init => JobInv
  BY DEF Init, JobInv, Jobs
<1>2. TypeOK /\ JobInv /\ [Next]_vars => JobInv'
  BY JobStep
<1> QED
  BY <1>1, <1>2, TypeCorrect, PTL DEF Spec

\* However many requests ask for a refresh, one of them starts a job at a time.
THEOREM OneWebJobAlways == Spec => []OneWebJob
<1>1. JobInv => OneWebJob
  <2> SUFFICES ASSUME JobInv PROVE OneWebJob
    OBVIOUS
  <2> DEFINE swapped == {r \in Requests : req[r] = "swapped"}
  <2>1. CASE swapped = {}
    <3>1. Cardinality(swapped) = 0
      BY <2>1, FS_EmptySet
    <3> HIDE DEF swapped
    <3>2. Cardinality(swapped) + (IF at["web"] = "off" THEN 0 ELSE 1) <= 1
      BY <3>1
    <3> QED
      BY <3>2 DEF OneWebJob, JobInv, swapped
  <2>2. CASE swapped # {}
    <3>1. PICK r \in Requests : req[r] = "swapped"
      BY <2>2
    <3>2. swapped = {r} /\ at["web"] = "off"
      BY <3>1 DEF JobInv
    <3>3. Cardinality(swapped) = 1
      BY <3>2, FS_Singleton
    <3> HIDE DEF swapped
    <3>4. Cardinality(swapped) + (IF at["web"] = "off" THEN 0 ELSE 1) <= 1
      BY <3>2, <3>3
    <3> QED
      BY <3>4 DEF OneWebJob, JobInv, swapped
  <2> QED
    BY <2>1, <2>2
<1> QED
  BY <1>1, JobAlways, PTL

\* Once Server.Close has returned no job uses the database.
THEOREM NoJobAfterCloseAlways == Spec => []NoJobAfterClose
<1>1. JobInv => NoJobAfterClose
  BY DEF JobInv, NoJobAfterClose
<1> QED
  BY <1>1, JobAlways, PTL

-----------------------------------------------------------------------------
\* A refresh that is about to be recorded as a success has stored its result.
StatusInv ==
    /\ lastSuccess > 0 => lastSuccess \in stored
    /\ lastAttempt > 0 /\ ~ lastError => lastAttempt \in stored
    /\ \A j \in Jobs : at[j] = "recording" /\ ~ Failed(j) => attemptedAt[j] \in stored

LEMMA StatusStep == TypeOK /\ StatusInv /\ [Next]_vars => StatusInv'
<1> SUFFICES ASSUME TypeOK, StatusInv, [Next]_vars PROVE StatusInv'
  OBVIOUS
<1>0. /\ at \in [Jobs -> States] /\ sources \in [Jobs -> SUBSET Lists]
      /\ successCount \in [Jobs -> Nat] /\ attemptedAt \in [Jobs -> Nat]
  BY DEF TypeOK, States
<1> USE <1>0 DEF StatusInv, Jobs, listVars, statusVars, mainVars, jobVars, serverVars, boundVars,
                 histVars, forceVars
<1>1. CASE Boot
  <2>1. UNCHANGED <<statusVars, stored>>
    BY <1>1 DEF Boot
  <2>2. \A j \in Jobs : at'[j] = "recording" =>
           /\ at[j] = "recording" /\ sources'[j] = sources[j]
           /\ successCount'[j] = successCount[j] /\ attemptedAt'[j] = attemptedAt[j]
    <3>1. \/ UNCHANGED <<at, sources, successCount, attemptedAt>>
          \/ \E T : BeginRefresh("manager", T)
      BY <1>1 DEF Boot
    <3> QED
      BY <3>1 DEF BeginRefresh
  <2> QED
    BY <2>1, <2>2 DEF Failed
<1>2. CASE TimerFires
  <2>1. UNCHANGED <<statusVars, stored>>
    BY <1>2 DEF TimerFires
  <2>2. \A j \in Jobs : at'[j] = "recording" =>
           /\ at[j] = "recording" /\ sources'[j] = sources[j]
           /\ successCount'[j] = successCount[j] /\ attemptedAt'[j] = attemptedAt[j]
    <3>1. \/ UNCHANGED <<at, sources, successCount, attemptedAt>>
          \/ \E T : BeginRefresh("manager", T)
      BY <1>2 DEF TimerFires
    <3> QED
      BY <3>1 DEF BeginRefresh
  <2> QED
    BY <2>1, <2>2 DEF Failed
<1>3. CASE ManagerReturns
  <2>1. UNCHANGED <<statusVars, stored>>
    BY <1>3 DEF ManagerReturns
  <2>2. \A k \in Jobs : at'[k] = "recording" =>
           /\ at[k] = "recording" /\ sources'[k] = sources[k]
           /\ successCount'[k] = successCount[k] /\ attemptedAt'[k] = attemptedAt[k]
    BY <1>3 DEF ManagerReturns
  <2> QED
    BY <2>1, <2>2 DEF Failed
<1>4. ASSUME NEW j \in Jobs, FetchList(j)
      PROVE  StatusInv'
  <2>1. UNCHANGED <<statusVars, stored>>
    BY <1>4 DEF FetchList
  <2>2. \A k \in Jobs : at'[k] = "recording" =>
           /\ at[k] = "recording" /\ sources'[k] = sources[k]
           /\ successCount'[k] = successCount[k] /\ attemptedAt'[k] = attemptedAt[k]
    BY <1>4 DEF FetchList
  <2> QED
    BY <2>1, <2>2 DEF Failed
<1>5. ASSUME NEW j \in Jobs, FetchFails(j)
      PROVE  StatusInv'
  <2>1. UNCHANGED <<statusVars, stored>>
    BY <1>5 DEF FetchFails
  <2>2. \A k \in Jobs : at'[k] = "recording" =>
           /\ at[k] = "recording" /\ sources'[k] = sources[k]
           /\ successCount'[k] = successCount[k] /\ attemptedAt'[k] = attemptedAt[k]
    BY <1>5 DEF FetchFails
  <2> QED
    BY <2>1, <2>2 DEF Failed
<1>6. ASSUME NEW j \in Jobs, CacheList(j)
      PROVE  StatusInv'
  <2>1. UNCHANGED <<statusVars, stored>>
    BY <1>6 DEF CacheList
  <2>2. \A k \in Jobs : at'[k] = "recording" =>
           /\ at[k] = "recording" /\ sources'[k] = sources[k]
           /\ successCount'[k] = successCount[k] /\ attemptedAt'[k] = attemptedAt[k]
    BY <1>6 DEF CacheList
  <2> QED
    BY <2>1, <2>2 DEF Failed
<1>7. ASSUME NEW j \in Jobs, Finish(j)
      PROVE  StatusInv'
  <2>1. /\ at' = [at EXCEPT ![j] = "recording"] /\ stored \subseteq stored'
        /\ UNCHANGED <<statusVars, sources, successCount, attemptedAt>>
        /\ ~ Failed(j) => attemptedAt[j] \in stored'
    BY <1>7 DEF Finish
  <2>2. \A k \in Jobs : at'[k] = "recording" => k = j \/ at[k] = "recording"
    BY <2>1
  <2> QED
    BY <2>1, <2>2 DEF Failed
<1>8. ASSUME NEW j \in Jobs, Record(j)
      PROVE  StatusInv'
  <2>1. /\ at[j] = "recording" /\ stored' = stored
        /\ RecordAttempt(attemptedAt[j], Failed(j)) \/ UNCHANGED statusVars
    BY <1>8 DEF Record
  <2>2. /\ lastSuccess' > 0 => lastSuccess' \in stored'
        /\ lastAttempt' > 0 /\ ~ lastError' => lastAttempt' \in stored'
    <3>1. CASE RecordAttempt(attemptedAt[j], Failed(j))
      BY <2>1, <3>1 DEF RecordAttempt
    <3>2. CASE UNCHANGED statusVars
      BY <2>1, <3>2
    <3> QED
      BY <2>1, <3>1, <3>2
  <2>3. ASSUME NEW k \in Jobs, at'[k] = "recording"
        PROVE  /\ k # j /\ at[k] = "recording" /\ sources'[k] = sources[k]
               /\ successCount'[k] = successCount[k] /\ attemptedAt'[k] = attemptedAt[k]
    BY <1>8, <2>3 DEF Record
  <2> QED
    BY <2>1, <2>2, <2>3 DEF Failed
<1>9. ASSUME NEW r \in Requests, NEW l \in Lists, AddList(r, l)
      PROVE  StatusInv'
  <2>1. UNCHANGED <<statusVars, stored>>
    BY <1>9 DEF AddList, ListsChange
  <2>2. \A k \in Jobs : at'[k] = "recording" =>
           /\ at[k] = "recording" /\ sources'[k] = sources[k]
           /\ successCount'[k] = successCount[k] /\ attemptedAt'[k] = attemptedAt[k]
    BY <1>9 DEF AddList, ListsChange
  <2> QED
    BY <2>1, <2>2 DEF Failed
<1>10. ASSUME NEW r \in Requests, NEW l \in Lists, NEW on \in BOOLEAN,
             UpdateListEnabled(r, l, on)
      PROVE  StatusInv'
  <2>1. UNCHANGED <<statusVars, stored>>
    BY <1>10 DEF UpdateListEnabled, ListsChange
  <2>2. \A k \in Jobs : at'[k] = "recording" =>
           /\ at[k] = "recording" /\ sources'[k] = sources[k]
           /\ successCount'[k] = successCount[k] /\ attemptedAt'[k] = attemptedAt[k]
    BY <1>10 DEF UpdateListEnabled, ListsChange
  <2> QED
    BY <2>1, <2>2 DEF Failed
<1>11. ASSUME NEW r \in Requests, NEW l \in Lists, DeleteList(r, l)
      PROVE  StatusInv'
  <2>1. UNCHANGED <<statusVars, stored>>
    BY <1>11 DEF DeleteList, ListsChange
  <2>2. \A k \in Jobs : at'[k] = "recording" =>
           /\ at[k] = "recording" /\ sources'[k] = sources[k]
           /\ successCount'[k] = successCount[k] /\ attemptedAt'[k] = attemptedAt[k]
    BY <1>11 DEF DeleteList, ListsChange
  <2> QED
    BY <2>1, <2>2 DEF Failed
<1>12. ASSUME NEW r \in Requests, AskRefresh(r)
      PROVE  StatusInv'
  <2>1. UNCHANGED <<statusVars, stored>>
    BY <1>12 DEF AskRefresh
  <2>2. \A k \in Jobs : at'[k] = "recording" =>
           /\ at[k] = "recording" /\ sources'[k] = sources[k]
           /\ successCount'[k] = successCount[k] /\ attemptedAt'[k] = attemptedAt[k]
    BY <1>12 DEF AskRefresh
  <2> QED
    BY <2>1, <2>2 DEF Failed
<1>13. ASSUME NEW r \in Requests, CompareAndSwap(r)
      PROVE  StatusInv'
  <2>1. UNCHANGED <<statusVars, stored>>
    BY <1>13 DEF CompareAndSwap
  <2>2. \A k \in Jobs : at'[k] = "recording" =>
           /\ at[k] = "recording" /\ sources'[k] = sources[k]
           /\ successCount'[k] = successCount[k] /\ attemptedAt'[k] = attemptedAt[k]
    BY <1>13 DEF CompareAndSwap
  <2> QED
    BY <2>1, <2>2 DEF Failed
<1>14. ASSUME NEW r \in Requests, StartJob(r)
      PROVE  StatusInv'
  <2>1. UNCHANGED <<statusVars, stored>>
    BY <1>14 DEF StartJob
  <2>2. \A k \in Jobs : at'[k] = "recording" =>
           /\ at[k] = "recording" /\ sources'[k] = sources[k]
           /\ successCount'[k] = successCount[k] /\ attemptedAt'[k] = attemptedAt[k]
    BY <1>14 DEF StartJob
  <2> QED
    BY <2>1, <2>2 DEF Failed
<1>15. CASE CheckContext
  <2>1. UNCHANGED <<statusVars, stored>>
    BY <1>15 DEF CheckContext, Checked
  <2>2. \A k \in Jobs : at'[k] = "recording" =>
           /\ at[k] = "recording" /\ sources'[k] = sources[k]
           /\ successCount'[k] = successCount[k] /\ attemptedAt'[k] = attemptedAt[k]
    BY <1>15 DEF CheckContext, Checked
  <2> QED
    BY <2>1, <2>2 DEF Failed
<1>16. CASE LoadSources
  <2>1. stored' = stored
    BY <1>16 DEF LoadSources
  <2>2. CASE BeginRefresh("web", Enabled) /\ UNCHANGED statusVars
    <3>1. \A j \in Jobs : at'[j] = "recording" =>
             /\ at[j] = "recording" /\ sources'[j] = sources[j]
             /\ successCount'[j] = successCount[j] /\ attemptedAt'[j] = attemptedAt[j]
      BY <2>2 DEF BeginRefresh
    <3> QED
      BY <2>1, <2>2, <3>1 DEF Failed
  <2>3. CASE /\ RecordAttempt(refreshes + 1, TRUE) \/ UNCHANGED statusVars
             /\ at' = [at EXCEPT !["web"] = "ending"]
             /\ UNCHANGED <<sources, todo, combined, successCount, attemptedAt, current>>
    <3>1. /\ lastSuccess' = lastSuccess
          /\ lastError' = TRUE \/ (lastError' = lastError /\ lastAttempt' = lastAttempt)
      BY <2>3 DEF RecordAttempt
    <3>2. \A j \in Jobs : at'[j] = "recording" => at[j] = "recording"
      BY <2>3
    <3> QED
      BY <2>1, <2>3, <3>1, <3>2 DEF Failed
  <2> QED
    BY <1>16, <2>2, <2>3 DEF LoadSources
<1>17. CASE ReleaseFlag
  <2>1. UNCHANGED <<statusVars, stored>>
    BY <1>17 DEF ReleaseFlag
  <2>2. \A k \in Jobs : at'[k] = "recording" =>
           /\ at[k] = "recording" /\ sources'[k] = sources[k]
           /\ successCount'[k] = successCount[k] /\ attemptedAt'[k] = attemptedAt[k]
    BY <1>17 DEF ReleaseFlag
  <2> QED
    BY <2>1, <2>2 DEF Failed
<1>18. CASE JobDone
  <2>1. UNCHANGED <<statusVars, stored>>
    BY <1>18 DEF JobDone
  <2>2. \A k \in Jobs : at'[k] = "recording" =>
           /\ at[k] = "recording" /\ sources'[k] = sources[k]
           /\ successCount'[k] = successCount[k] /\ attemptedAt'[k] = attemptedAt[k]
    BY <1>18 DEF JobDone
  <2> QED
    BY <2>1, <2>2 DEF Failed
<1>19. CASE Cancel
  <2>1. UNCHANGED <<statusVars, stored>>
    BY <1>19 DEF Cancel
  <2>2. \A k \in Jobs : at'[k] = "recording" =>
           /\ at[k] = "recording" /\ sources'[k] = sources[k]
           /\ successCount'[k] = successCount[k] /\ attemptedAt'[k] = attemptedAt[k]
    BY <1>19 DEF Cancel
  <2> QED
    BY <2>1, <2>2 DEF Failed
<1>20. CASE Shutdown
  <2>1. UNCHANGED <<statusVars, stored>>
    BY <1>20 DEF Shutdown
  <2>2. \A k \in Jobs : at'[k] = "recording" =>
           /\ at[k] = "recording" /\ sources'[k] = sources[k]
           /\ successCount'[k] = successCount[k] /\ attemptedAt'[k] = attemptedAt[k]
    BY <1>20 DEF Shutdown
  <2> QED
    BY <2>1, <2>2 DEF Failed
<1>21. CASE CloseCancels
  <2>1. UNCHANGED <<statusVars, stored>>
    BY <1>21 DEF CloseCancels
  <2>2. \A k \in Jobs : at'[k] = "recording" =>
           /\ at[k] = "recording" /\ sources'[k] = sources[k]
           /\ successCount'[k] = successCount[k] /\ attemptedAt'[k] = attemptedAt[k]
    BY <1>21 DEF CloseCancels
  <2> QED
    BY <2>1, <2>2 DEF Failed
<1>22. CASE CloseReturns
  <2>1. UNCHANGED <<statusVars, stored>>
    BY <1>22 DEF CloseReturns
  <2>2. \A k \in Jobs : at'[k] = "recording" =>
           /\ at[k] = "recording" /\ sources'[k] = sources[k]
           /\ successCount'[k] = successCount[k] /\ attemptedAt'[k] = attemptedAt[k]
    BY <1>22 DEF CloseReturns
  <2> QED
    BY <2>1, <2>2 DEF Failed
<1>23. CASE Exit
  <2>1. UNCHANGED <<statusVars, stored>>
    BY <1>23 DEF Exit
  <2>2. \A k \in Jobs : at'[k] = "recording" =>
           /\ at[k] = "recording" /\ sources'[k] = sources[k]
           /\ successCount'[k] = successCount[k] /\ attemptedAt'[k] = attemptedAt[k]
    BY <1>23 DEF Exit
  <2> QED
    BY <2>1, <2>2 DEF Failed
<1>24. CASE Restart
  <2>1. UNCHANGED <<statusVars, stored>>
    BY <1>24 DEF Restart
  <2>2. \A k \in Jobs : at'[k] = "recording" =>
           /\ at[k] = "recording" /\ sources'[k] = sources[k]
           /\ successCount'[k] = successCount[k] /\ attemptedAt'[k] = attemptedAt[k]
    BY <1>24 DEF Restart
  <2> QED
    BY <2>1, <2>2 DEF Failed
<1>25. CASE UNCHANGED vars
  <2>1. UNCHANGED <<statusVars, stored>>
    BY <1>25 DEF vars
  <2>2. \A k \in Jobs : at'[k] = "recording" =>
           /\ at[k] = "recording" /\ sources'[k] = sources[k]
           /\ successCount'[k] = successCount[k] /\ attemptedAt'[k] = attemptedAt[k]
    BY <1>25 DEF vars
  <2> QED
    BY <2>1, <2>2 DEF Failed
<1> QED
  BY <1>1, <1>2, <1>3, <1>4, <1>5, <1>6, <1>7, <1>8, <1>9, <1>10, <1>11, <1>12, <1>13,
     <1>14, <1>15, <1>16, <1>17, <1>18, <1>19, <1>20, <1>21, <1>22, <1>23, <1>24, <1>25
  DEF Next, Refresh, Request, Web, Close

\* What the status shows as a success did replace the classification.
THEOREM StatusHonestAlways == Spec => []StatusHonest
<1>1. Init => StatusInv
  BY DEF Init, StatusInv, Jobs
<1>2. TypeOK /\ StatusInv /\ [Next]_vars => StatusInv'
  BY StatusStep
<1>3. StatusInv => StatusHonest
  BY DEF StatusInv, StatusHonest
<1> QED
  BY <1>1, <1>2, <1>3, TypeCorrect, PTL DEF Spec

-----------------------------------------------------------------------------
\* The steps that are no part of a refresh, for the invariants below: they leave the
\* lists, the cache and the classification alone, and a job at work where it is.
Working(j) == at[j] \in {"fetching", "caching"}

Aside ==
    /\ UNCHANGED <<listVars, cache, domains, settled, inForce, ordered, sources, todo, src, fetched,
                   combined, histVars>>
    /\ \A j \in Jobs : Working(j) \/ at'[j] \in {"fetching", "caching"} => at'[j] = at[j]

ListsChanged(r) == \E l \in Lists : \/ AddList(r, l) \/ DeleteList(r, l)
                                    \/ \E on \in BOOLEAN : UpdateListEnabled(r, l, on)

WebBegins ==
    /\ at["web"] = "listing" /\ BeginRefresh("web", Enabled)
    /\ current' = [current EXCEPT !["web"] = TRUE]
    /\ UNCHANGED <<listVars, cache, forceVars, behind>>

LEMMA StepKinds ==
    ASSUME TypeOK, JobInv, [Next]_vars
    PROVE  \/ Aside \/ Boot \/ TimerFires \/ WebBegins \/ Restart
           \/ \E j \in Jobs : Refresh(j)
           \/ \E r \in Requests : ListsChanged(r)
<1>0. at \in [Jobs -> States] /\ "web" \in Jobs /\ "manager" \in Jobs
  BY DEF TypeOK, States, Jobs
<1> USE <1>0 DEF Aside, Working, listVars, statusVars, mainVars, jobVars, serverVars, boundVars,
                 forceVars, histVars
<1>1. CASE ManagerReturns
  BY <1>1 DEF ManagerReturns
<1>2. ASSUME NEW r \in Requests, AskRefresh(r)
      PROVE  Aside
  BY <1>2 DEF AskRefresh
<1>3. ASSUME NEW r \in Requests, CompareAndSwap(r)
      PROVE  Aside
  BY <1>3 DEF CompareAndSwap
<1>4. ASSUME NEW r \in Requests, StartJob(r)
      PROVE  Aside
  <2>1. at["web"] = "off"
    BY <1>4 DEF StartJob, JobInv
  <2> QED
    BY <1>4, <2>1 DEF StartJob
<1>5. CASE CheckContext
  BY <1>5 DEF CheckContext, Checked
<1>6. CASE LoadSources
  <2>1. /\ at["web"] = "listing"
        /\ UNCHANGED <<listVars, cache, forceVars, mainVars, serverVars, timer, restarts, behind>>
    BY <1>6 DEF LoadSources
  <2>2. \/ BeginRefresh("web", Enabled) /\ current' = [current EXCEPT !["web"] = TRUE]
        \/ /\ at' = [at EXCEPT !["web"] = "ending"]
           /\ UNCHANGED <<sources, todo, src, fetched, combined, current, spoiled, out>>
    BY <1>6 DEF LoadSources
  <2> QED
    BY <2>1, <2>2 DEF WebBegins
<1>7. CASE ReleaseFlag
  BY <1>7 DEF ReleaseFlag
<1>8. CASE JobDone
  BY <1>8 DEF JobDone
<1>9. CASE Cancel \/ Close \/ Exit
  BY <1>9 DEF Cancel, Close, Shutdown, CloseCancels, CloseReturns, Exit
<1>10. CASE UNCHANGED vars
  BY <1>10 DEF vars
<1> QED
  BY <1>1, <1>2, <1>3, <1>4, <1>5, <1>6, <1>7, <1>8, <1>9, <1>10
  DEF Next, Request, Web, ListsChanged

-----------------------------------------------------------------------------
\* What a job has fetched is in the cache, but for the list it is about to write, and
\* for those it could not write or another has written since.
SavedInv ==
    /\ SurvivesRestart
    /\ \A j \in Jobs, l \in Lists :
         fetched[j][l] # None => \/ l \in spoiled[j] \/ cache[l] = fetched[j][l]
                                 \/ at[j] = "caching" /\ l = src[j]

LEMMA SavedBegins ==
    ASSUME TypeOK, SavedInv, NEW j \in Jobs, NEW S, BeginRefresh(j, S), cache' = cache
    PROVE  \A k \in Jobs, l \in Lists :
             fetched'[k][l] # None => \/ l \in spoiled'[k] \/ cache'[l] = fetched'[k][l]
                                      \/ at'[k] = "caching" /\ l = src'[k]
<1> SUFFICES ASSUME NEW k \in Jobs, NEW l \in Lists, fetched'[k][l] # None
             PROVE  \/ l \in spoiled'[k] \/ cache'[l] = fetched'[k][l]
                    \/ at'[k] = "caching" /\ l = src'[k]
  OBVIOUS
<1>1. CASE k = j
  <2>1. fetched'[k] = Unfetched
    BY <1>1, Typed DEF BeginRefresh
  <2> QED
    BY <2>1 DEF Unfetched
<1>2. CASE k # j
  <2>1. /\ fetched'[k] = fetched[k] /\ spoiled'[k] = spoiled[k] /\ at'[k] = at[k] /\ src'[k] = src[k]
    BY <1>2, Typed DEF BeginRefresh
  <2> QED
    BY <2>1 DEF SavedInv
<1> QED
  BY <1>1, <1>2

LEMMA SavedStep == TypeOK /\ CachingInv /\ JobInv /\ SavedInv /\ [Next]_vars => SavedInv'
<1> SUFFICES ASSUME TypeOK, CachingInv, JobInv, SavedInv, [Next]_vars PROVE SavedInv'
  OBVIOUS
<1> USE Typed
<1>1. CASE Aside
  <2>1. /\ UNCHANGED <<cache, inForce, behind, fetched, spoiled, src>>
        /\ \A j \in Jobs : at[j] = "caching" => at'[j] = "caching"
    BY <1>1 DEF Aside, Working, histVars
  <2> QED
    BY <2>1 DEF SavedInv, SurvivesRestart
<1>2. CASE Boot
  <2>1. UNCHANGED <<cache, behind>>
    BY <1>2 DEF Boot
  <2>2. \/ /\ \E S : BeginRefresh("manager", S)
           /\ inForce' = Unfetched
        \/ /\ inForce' = [l \in Lists |-> IF l \in Loadable THEN cache[l] ELSE None]
           /\ UNCHANGED <<at, src, fetched, spoiled>>
    BY <1>2 DEF Boot, jobVars
  <2>3. SurvivesRestart'
    BY <2>1, <2>2 DEF SurvivesRestart, Unfetched
  <2>4. CASE \E S : BeginRefresh("manager", S)
    BY <2>1, <2>3, <2>4, SavedBegins DEF SavedInv, Jobs
  <2>5. CASE UNCHANGED <<at, src, fetched, spoiled>>
    BY <2>1, <2>3, <2>5 DEF SavedInv
  <2> QED
    BY <2>2, <2>4, <2>5
<1>3. CASE TimerFires \/ WebBegins
  <2>1. /\ UNCHANGED <<cache, inForce, behind>>
        /\ \E j \in Jobs : \E S : BeginRefresh(j, S)
    BY <1>3 DEF TimerFires, WebBegins, forceVars, Jobs
  <2>2. SurvivesRestart'
    BY <2>1 DEF SurvivesRestart, SavedInv
  <2> QED
    BY <2>1, <2>2, SavedBegins DEF SavedInv
<1>4. ASSUME NEW j \in Jobs, FetchList(j)
      PROVE  SavedInv'
  <2>0. PICK l \in FirstsOf(todo[j]) : \E D \in Versions[l] :
          /\ todo' = [todo EXCEPT ![j] = @ \ {l}]
          /\ src' = [src EXCEPT ![j] = l]
          /\ fetched' = [fetched EXCEPT ![j][l] = D]
    BY <1>4 DEF FetchList
  <2>1. PICK D \in Versions[l] : /\ src' = [src EXCEPT ![j] = l]
                                 /\ fetched' = [fetched EXCEPT ![j][l] = D]
    BY <2>0
  <2>2. /\ at[j] = "fetching" /\ at' = [at EXCEPT ![j] = "caching"]
        /\ UNCHANGED <<cache, inForce, behind, spoiled>>
    BY <1>4 DEF FetchList, forceVars, histVars
  <2>3. SurvivesRestart'
    BY <2>2 DEF SurvivesRestart, SavedInv
  <2>4. ASSUME NEW k \in Jobs, NEW m \in Lists, fetched'[k][m] # None
        PROVE  \/ m \in spoiled'[k] \/ cache'[m] = fetched'[k][m]
               \/ at'[k] = "caching" /\ m = src'[k]
    <3>1. CASE k = j /\ m = l
      BY <2>1, <2>2, <3>1
    <3>2. CASE ~ (k = j /\ m = l)
      <4>1. fetched'[k][m] = fetched[k][m] /\ (k # j => at'[k] = at[k] /\ src'[k] = src[k])
        BY <2>1, <2>2, <3>2
      <4> QED
        BY <2>2, <2>4, <4>1 DEF SavedInv
    <3> QED
      BY <3>1, <3>2
  <2> QED
    BY <2>3, <2>4 DEF SavedInv
<1>5. ASSUME NEW j \in Jobs, FetchFails(j)
      PROVE  SavedInv'
  BY <1>5 DEF FetchFails, forceVars, SavedInv, SurvivesRestart
<1>6. ASSUME NEW j \in Jobs, CacheList(j)
      PROVE  SavedInv'
  <2> DEFINE w == src[j]
  <2>1. /\ at[j] = "caching" /\ at' = [at EXCEPT ![j] = "fetching"]
        /\ UNCHANGED <<inForce, fetched>> /\ src' = [src EXCEPT ![j] = None]
        /\ w \in Lists /\ fetched[j][w] # None
    BY <1>6 DEF CacheList, forceVars, CachingInv
  <2>2. CASE cache' = [cache EXCEPT ![w] = fetched[j][w]] /\ Overwrites(j, w)
    <3>1. SurvivesRestart'
      <4> SUFFICES ASSUME NEW m \in Lists, inForce[m] # None
                   PROVE  m \in behind' \/ cache'[m] = inForce[m]
        BY <2>1 DEF SurvivesRestart
      <4>1. m \in behind \/ cache[m] = inForce[m]
        BY DEF SavedInv, SurvivesRestart
      <4> QED
        BY <2>2, <4>1 DEF Overwrites
    <3>2. ASSUME NEW k \in Jobs, NEW m \in Lists, fetched[k][m] # None
          PROVE  \/ m \in spoiled'[k] \/ cache'[m] = fetched[k][m]
                 \/ at'[k] = "caching" /\ m = src'[k]
      <4>0. \/ m \in spoiled[k] \/ cache[m] = fetched[k][m]
            \/ at[k] = "caching" /\ m = src[k]
        BY <3>2 DEF SavedInv
      <4>1. spoiled'[k] = IF k = j THEN spoiled[k] \ {w}
                          ELSE IF fetched[k][w] = None THEN spoiled[k] ELSE spoiled[k] \cup {w}
        BY <2>2 DEF Overwrites
      <4>2. cache'[w] = fetched[j][w] /\ (m # w => cache'[m] = cache[m])
        BY <2>1, <2>2
      <4>3. k # j => at'[k] = at[k] /\ src'[k] = src[k]
        BY <2>1
      <4>4. CASE k = j
        BY <4>0, <4>1, <4>2, <4>4
      <4>5. CASE k # j
        BY <3>2, <4>0, <4>1, <4>2, <4>3, <4>5
      <4> QED
        BY <4>4, <4>5
    <3> QED
      BY <2>1, <3>1, <3>2 DEF SavedInv
  <2>3. CASE spoiled' = [spoiled EXCEPT ![j] = @ \cup {w}] /\ UNCHANGED <<cache, behind>>
    <3>1. SurvivesRestart'
      BY <2>1, <2>3 DEF SavedInv, SurvivesRestart
    <3>2. ASSUME NEW k \in Jobs, NEW m \in Lists, fetched[k][m] # None
          PROVE  \/ m \in spoiled'[k] \/ cache'[m] = fetched[k][m]
                 \/ at'[k] = "caching" /\ m = src'[k]
      <4>0. \/ m \in spoiled[k] \/ cache[m] = fetched[k][m]
            \/ at[k] = "caching" /\ m = src[k]
        BY <3>2 DEF SavedInv
      <4>1. spoiled'[k] = (IF k = j THEN spoiled[k] \cup {w} ELSE spoiled[k])
        BY <2>3
      <4>2. k # j => at'[k] = at[k] /\ src'[k] = src[k]
        BY <2>1
      <4> QED
        BY <2>3, <4>0, <4>1, <4>2
    <3> QED
      BY <2>1, <3>1, <3>2 DEF SavedInv
  <2> QED
    BY <1>6, <2>2, <2>3 DEF CacheList, RowsWritten
<1>7. ASSUME NEW j \in Jobs, Finish(j)
      PROVE  SavedInv'
  <2>1. /\ at[j] = "fetching" /\ at' = [at EXCEPT ![j] = "recording"]
        /\ fetched' = [fetched EXCEPT ![j] = Unfetched]
        /\ spoiled' = [spoiled EXCEPT ![j] = {}]
        /\ UNCHANGED <<cache, src>>
    BY <1>7 DEF Finish
  <2>2. \/ UNCHANGED <<inForce, behind>>
        \/ inForce' = fetched[j] /\ behind' = spoiled[j]
    BY <1>7 DEF Finish, forceVars
  <2>3. SurvivesRestart'
    BY <2>1, <2>2 DEF SavedInv, SurvivesRestart
  <2>4. ASSUME NEW k \in Jobs, NEW m \in Lists, fetched'[k][m] # None
        PROVE  \/ m \in spoiled'[k] \/ cache'[m] = fetched'[k][m]
               \/ at'[k] = "caching" /\ m = src'[k]
    <3>1. k # j
      <4>1. k = j => fetched'[k] = Unfetched
        BY <2>1
      <4> QED
        BY <2>4, <4>1 DEF Unfetched
    <3>2. fetched'[k] = fetched[k] /\ spoiled'[k] = spoiled[k] /\ at'[k] = at[k]
      BY <2>1, <3>1
    <3> QED
      BY <2>1, <2>4, <3>2 DEF SavedInv
  <2> QED
    BY <2>3, <2>4 DEF SavedInv
<1>8. ASSUME NEW j \in Jobs, Record(j)
      PROVE  SavedInv'
  <2>1. /\ at[j] = "recording" /\ \A k \in Jobs : k # j => at'[k] = at[k]
        /\ UNCHANGED <<cache, inForce, behind, fetched, spoiled, src>>
    BY <1>8 DEF Record, forceVars, histVars
  <2> QED
    BY <2>1 DEF SavedInv, SurvivesRestart
<1>9. ASSUME NEW r \in Requests, ListsChanged(r)
      PROVE  SavedInv'
  <2>1. UNCHANGED <<cache, inForce, behind, fetched, spoiled, src, at>>
    BY <1>9 DEF ListsChanged, AddList, DeleteList, UpdateListEnabled, ListsChange, jobVars
  <2> QED
    BY <2>1 DEF SavedInv, SurvivesRestart
<1>10. CASE Restart
  <2>1. inForce' = Unfetched /\ fetched' = [j \in Jobs |-> Unfetched]
    BY <1>10 DEF Restart
  <2> QED
    BY <2>1 DEF SavedInv, SurvivesRestart, Unfetched
<1> QED
  BY <1>1, <1>2, <1>3, <1>4, <1>5, <1>6, <1>7, <1>8, <1>9, <1>10, StepKinds DEF Refresh

\* What is in force is in the cache too, whatever the lists' URLs serve later, unless
\* a list could not be written or another refresh has written it since.
THEOREM SurvivesRestartAlways == Spec => []SurvivesRestart
<1>1. Init => SavedInv
  BY DEF Init, SavedInv, SurvivesRestart, Unfetched
<1>2. TypeOK /\ CachingInv /\ JobInv /\ SavedInv /\ [Next]_vars => SavedInv'
  BY SavedStep
<1>3. SavedInv => SurvivesRestart
  BY DEF SavedInv
<1> QED
  BY <1>1, <1>2, <1>3, TypeCorrect, CachingAlways, JobAlways, PTL DEF Spec

-----------------------------------------------------------------------------
\* No job fetches a list that stays out, and no classification in the making has one.
OutInv ==
    /\ out \cap Enabled = {}
    /\ \A j \in Jobs : /\ out \cap sources[j] = {}
                       /\ Working(j) => todo[j] \subseteq sources[j]
    /\ \A j \in Jobs, d \in Domains : combined[j][d] # None => combined[j][d] \in sources[j]
    /\ RemovedStaysOut

LEMMA NoneStaysOut == TypeOK => None \notin out
BY EmptyTypes DEF TypeOK

LEMMA OutBegins ==
    ASSUME TypeOK, OutInv, NEW j \in Jobs, NEW S, BeginRefresh(j, S)
    PROVE  /\ \A k \in Jobs : /\ out' \cap sources'[k] = {}
                              /\ at'[k] \in {"fetching", "caching"} => todo'[k] \subseteq sources'[k]
           /\ \A k \in Jobs, d \in Domains : combined'[k][d] # None => combined'[k][d] \in sources'[k]
           /\ out' \subseteq out
<1>1. out' = out \ S
  BY DEF BeginRefresh
<1>2. ASSUME NEW k \in Jobs, k = j
      PROVE  sources'[k] = S /\ todo'[k] = S /\ combined'[k] = Unclassified
  BY <1>2, Typed DEF BeginRefresh
<1>3. ASSUME NEW k \in Jobs, k # j
      PROVE  sources'[k] = sources[k] /\ todo'[k] = todo[k] /\ combined'[k] = combined[k] /\ at'[k] = at[k]
  BY <1>3, Typed DEF BeginRefresh
<1> QED
  BY <1>1, <1>2, <1>3 DEF OutInv, Working, Unclassified

LEMMA OutStep == TypeOK /\ JobInv /\ OutInv /\ [Next]_vars => OutInv'
<1> SUFFICES ASSUME TypeOK, JobInv, OutInv, [Next]_vars PROVE OutInv'
  OBVIOUS
<1> USE Typed
<1>1. CASE Aside
  <2>1. /\ UNCHANGED <<out, listed, enabled, sources, todo, combined, domains>>
        /\ \A j \in Jobs : at'[j] \in {"fetching", "caching"} => at'[j] = at[j]
    BY <1>1 DEF Aside, histVars, listVars
  <2> QED
    BY <2>1 DEF OutInv, Enabled, Working, RemovedStaysOut
<1>2. CASE Boot
  <2>1. PICK seeds \in Seeds : listed' = listed \cup seeds /\ enabled' = enabled \cup seeds
    BY <1>2 DEF Boot
  <2>2. seeds \cap added = {}
    BY <2>1 DEF Seeds
  <2>3. out \cap (listed' \cap enabled') = {}
    BY <2>1, <2>2 DEF OutInv, Enabled
  <2>4. PICK f \in CachedDomains \cup {Unclassified} : domains' = f
    BY <1>2 DEF Boot
  <2>5. \A d \in Domains : domains'[d] \notin out
    <3> SUFFICES ASSUME NEW d \in Domains PROVE f[d] \notin out
      BY <2>4
    <3>1. f[d] = None \/ f[d] \in Enabled
      BY <2>4 DEF CachedDomains, Unclassified, Loadable
    <3> QED
      BY <3>1, NoneStaysOut DEF OutInv
  <2>6. \/ UNCHANGED <<at, sources, todo, combined, out>>
        \/ \E S : BeginRefresh("manager", S)
    BY <1>2 DEF Boot, jobVars
  <2>7. CASE UNCHANGED <<at, sources, todo, combined, out>>
    BY <2>3, <2>5, <2>7 DEF OutInv, Enabled, Working, RemovedStaysOut
  <2>8. CASE \E S : BeginRefresh("manager", S)
    <3>1. "manager" \in Jobs
      BY DEF Jobs
    <3> QED
      BY <2>3, <2>5, <2>8, <3>1, OutBegins DEF OutInv, Enabled, Working, RemovedStaysOut
  <2> QED
    BY <2>6, <2>7, <2>8
<1>3. CASE TimerFires \/ WebBegins
  <2>1. /\ UNCHANGED <<listed, enabled, domains>>
        /\ \E j \in Jobs : \E S : BeginRefresh(j, S)
    BY <1>3 DEF TimerFires, WebBegins, forceVars, listVars, Jobs
  <2> QED
    BY <2>1, OutBegins DEF OutInv, Enabled, Working, RemovedStaysOut
<1>4. ASSUME NEW j \in Jobs, FetchList(j)
      PROVE  OutInv'
  <2>0. PICK l \in FirstsOf(todo[j]) : \E D \in Versions[l] :
          /\ todo' = [todo EXCEPT ![j] = @ \ {l}]
          /\ src' = [src EXCEPT ![j] = l]
          /\ fetched' = [fetched EXCEPT ![j][l] = D]
          /\ combined' = [combined EXCEPT ![j] = [d \in Domains |-> IF d \in D THEN l ELSE @[d]]]
    BY <1>4 DEF FetchList
  <2>1. PICK D \in Versions[l] :
          /\ todo' = [todo EXCEPT ![j] = @ \ {l}]
          /\ combined' = [combined EXCEPT ![j] = [d \in Domains |-> IF d \in D THEN l ELSE @[d]]]
    BY <2>0
  <2>2. /\ at[j] = "fetching" /\ at' = [at EXCEPT ![j] = "caching"]
        /\ UNCHANGED <<out, listed, enabled, sources, domains>>
    BY <1>4 DEF FetchList, forceVars, histVars, listVars
  <2>3. l \in sources[j]
    BY <2>1, <2>2 DEF OutInv, Working, FirstsOf
  <2>4. ASSUME NEW k \in Jobs, NEW d \in Domains, combined'[k][d] # None
        PROVE  combined'[k][d] \in sources[k]
    <3>1. combined'[k][d] = combined[k][d] \/ (k = j /\ combined'[k][d] = l)
      BY <2>1
    <3> QED
      BY <2>3, <2>4, <3>1 DEF OutInv
  <2>5. \A k \in Jobs : at'[k] \in {"fetching", "caching"} => Working(k) /\ todo'[k] \subseteq todo[k]
    BY <2>1, <2>2 DEF Working
  <2> QED
    BY <2>2, <2>4, <2>5 DEF OutInv, Enabled, Working, RemovedStaysOut
<1>5. ASSUME NEW j \in Jobs, FetchFails(j)
      PROVE  OutInv'
  <2>1. PICK l : todo' = [todo EXCEPT ![j] = @ \ {l}]
    BY <1>5 DEF FetchFails
  <2>2. UNCHANGED <<at, out, listed, enabled, sources, combined, domains>>
    BY <1>5 DEF FetchFails, forceVars, listVars
  <2>3. \A k \in Jobs : todo'[k] \subseteq todo[k]
    BY <2>1
  <2> QED
    BY <2>2, <2>3 DEF OutInv, Enabled, Working, RemovedStaysOut
<1>6. ASSUME NEW j \in Jobs, CacheList(j)
      PROVE  OutInv'
  <2>1. /\ at[j] = "caching" /\ \A k \in Jobs : k # j => at'[k] = at[k]
        /\ UNCHANGED <<out, listed, enabled, sources, todo, combined, domains>>
    BY <1>6 DEF CacheList, forceVars, listVars
  <2> QED
    BY <2>1 DEF OutInv, Enabled, Working, RemovedStaysOut
<1>7. ASSUME NEW j \in Jobs, Finish(j)
      PROVE  OutInv'
  <2>1. /\ at' = [at EXCEPT ![j] = "recording"]
        /\ UNCHANGED <<listed, enabled, sources, todo, combined>>
    BY <1>7 DEF Finish, listVars
  <2>2. \A k \in Jobs : at'[k] \in {"fetching", "caching"} => at'[k] = at[k]
    BY <2>1
  <2>3. CASE UNCHANGED <<domains, out>>
    BY <2>1, <2>2, <2>3 DEF OutInv, Enabled, Working, RemovedStaysOut
  <2>4. CASE /\ domains' = combined[j]
             /\ out' = out \cup (added \ (Enabled \cup UNION {sources[k] : k \in Jobs}))
    <3>1. out' \cap Enabled = {} /\ \A k \in Jobs : out' \cap sources[k] = {}
      BY <2>4 DEF OutInv
    <3>2. ASSUME NEW d \in Domains PROVE domains'[d] \notin out'
      <4>1. combined[j][d] = None \/ combined[j][d] \in sources[j]
        BY DEF OutInv
      <4>2. None \notin out'
        BY <2>4, EmptyTypes, NoneStaysOut
      <4> QED
        BY <2>4, <3>1, <4>1, <4>2
    <3> QED
      BY <2>1, <2>2, <3>1, <3>2 DEF OutInv, Enabled, Working, RemovedStaysOut
  <2> QED
    BY <1>7, <2>3, <2>4 DEF Finish, NewDomainMap, forceVars
<1>8. ASSUME NEW j \in Jobs, Record(j)
      PROVE  OutInv'
  <2>1. /\ at' = [at EXCEPT ![j] = IF j = "web" THEN "ending" ELSE "off"]
        /\ sources' = [sources EXCEPT ![j] = {}]
        /\ combined' = [combined EXCEPT ![j] = Unclassified]
        /\ UNCHANGED <<out, listed, enabled, todo, domains>>
    BY <1>8 DEF Record, forceVars, histVars, listVars
  <2>2. ASSUME NEW k \in Jobs
        PROVE  /\ out \cap sources'[k] = {}
               /\ at'[k] \in {"fetching", "caching"} => todo[k] \subseteq sources'[k]
               /\ \A d \in Domains : combined'[k][d] # None => combined'[k][d] \in sources'[k]
    <3>1. CASE k = j
      <4>1. sources'[k] = {} /\ combined'[k] = Unclassified /\ at'[k] \in {"ending", "off"}
        BY <2>1, <3>1
      <4> QED
        BY <4>1 DEF Unclassified
    <3>2. CASE k # j
      <4>1. sources'[k] = sources[k] /\ combined'[k] = combined[k] /\ at'[k] = at[k]
        BY <2>1, <3>2
      <4> QED
        BY <4>1 DEF OutInv, Working
    <3> QED
      BY <3>1, <3>2
  <2> QED
    BY <2>1, <2>2 DEF OutInv, Enabled, Working, RemovedStaysOut
<1>9. ASSUME NEW r \in Requests, ListsChanged(r)
      PROVE  OutInv'
  <2>1. UNCHANGED <<at, sources, todo, combined, domains>>
    BY <1>9 DEF ListsChanged, AddList, DeleteList, UpdateListEnabled, ListsChange, jobVars
  <2>2. out' \subseteq out /\ out' \cap (listed' \cap enabled') = {}
    <3>1. CASE \E l \in Lists : AddList(r, l)
      BY <3>1 DEF AddList, OutInv, Enabled
    <3>2. CASE \E l \in Lists : DeleteList(r, l)
      BY <3>2 DEF DeleteList, OutInv, Enabled
    <3>3. CASE \E l \in Lists, on \in BOOLEAN : UpdateListEnabled(r, l, on)
      BY <3>3 DEF UpdateListEnabled, OutInv, Enabled
    <3> QED
      BY <1>9, <3>1, <3>2, <3>3 DEF ListsChanged
  <2> QED
    BY <2>1, <2>2 DEF OutInv, Enabled, Working, RemovedStaysOut
<1>10. CASE Restart
  <2>1. /\ out' = added \ Enabled /\ domains' = Unclassified
        /\ sources' = [j \in Jobs |-> {}] /\ combined' = [j \in Jobs |-> Unclassified]
        /\ at' = [j \in Jobs |-> "off"] /\ UNCHANGED <<listed, enabled>>
    BY <1>10 DEF Restart, listVars
  <2>2. \A d \in Domains : domains'[d] \notin out'
    BY <2>1, EmptyTypes DEF Unclassified
  <2> QED
    BY <2>1, <2>2 DEF OutInv, Enabled, Working, RemovedStaysOut, Unclassified
<1> QED
  BY <1>1, <1>2, <1>3, <1>4, <1>5, <1>6, <1>7, <1>8, <1>9, <1>10, StepKinds DEF Refresh

\* A list that was disabled or deleted, and that a refresh or a start has left out,
\* does not come back.
THEOREM RemovedStaysOutAlways == Spec => []RemovedStaysOut
<1>1. Init => OutInv
  BY DEF Init, OutInv, RemovedStaysOut, Unclassified, Working
<1>2. TypeOK /\ JobInv /\ OutInv /\ [Next]_vars => OutInv'
  BY OutStep
<1>3. OutInv => RemovedStaysOut
  BY DEF OutInv
<1> QED
  BY <1>1, <1>2, <1>3, TypeCorrect, JobAlways, PTL DEF Spec

-----------------------------------------------------------------------------
\* Before main has started the workers there is no web job, and until its own refresh
\* is over the classification is not one that a refresh merged.
BootInv ==
    phase = "boot" => /\ at["web"] = "off"
                      /\ \A r \in Requests : req[r] \notin {"asking", "swapped"}
                      /\ at["manager"] = "off" => ~ settled /\ ~ ordered

LEMMA BootStep == TypeOK /\ BootInv /\ [Next]_vars => BootInv'
<1> SUFFICES ASSUME TypeOK, BootInv, [Next]_vars, phase' = "boot"
             PROVE  /\ at'["web"] = "off"
                    /\ \A r \in Requests : req'[r] \notin {"asking", "swapped"}
                    /\ at'["manager"] = "off" => ~ settled' /\ ~ ordered'
  BY DEF BootInv
<1>0. at \in [Jobs -> States] /\ req \in [Requests -> {"new", "asking", "swapped", "done"}]
  BY Typed
<1> USE <1>0 DEF BootInv, Jobs, listVars, statusVars, mainVars, jobVars, serverVars, boundVars,
                 forceVars, histVars
<1>1. CASE Boot
  <2>1. phase = "boot" /\ UNCHANGED <<req, settled, ordered>>
    BY <1>1 DEF Boot
  <2>2. at' = [at EXCEPT !["manager"] = "fetching"]
    BY <1>1 DEF Boot, BeginRefresh
  <2> QED
    BY <2>1, <2>2
<1>2. CASE TimerFires \/ ManagerReturns \/ Shutdown \/ Exit
  BY <1>2 DEF TimerFires, ManagerReturns, Shutdown, Exit
<1>3. ASSUME NEW r \in Requests, Request(r)
      PROVE  FALSE
  BY <1>3 DEF Request, AddList, DeleteList, UpdateListEnabled, AskRefresh, Serving
<1>4. ASSUME NEW j \in Jobs, Refresh(j)
      PROVE  /\ at'["web"] = "off" /\ req' = req /\ at'["manager"] # "off" /\ phase = "boot"
  <2>1. at[j] \in {"fetching", "caching", "recording"} /\ req' = req
    BY <1>4 DEF Refresh, FetchList, FetchFails, CacheList, Finish, Record
  <2>2. phase = "boot" /\ at["web"] = "off" /\ j = "manager"
    <3>1. j = "web" => phase' = phase
      BY <1>4 DEF Refresh, FetchList, FetchFails, CacheList, Finish, Record
    <3>2. j = "manager" => phase' = phase \/ phase' = "up"
      BY <1>4 DEF Refresh, FetchList, FetchFails, CacheList, Finish, Record
    <3> QED
      BY <2>1, <3>1, <3>2
  <2>3. \E x \in {"fetching", "caching", "recording"} : at' = [at EXCEPT ![j] = x]
    <3>1. ~ Record(j)
      BY <2>2 DEF Record
    <3>2. CASE FetchFails(j)
      BY <2>1, <3>2 DEF FetchFails
    <3> QED
      BY <1>4, <3>1, <3>2 DEF Refresh, FetchList, CacheList, Finish
  <2> QED
    BY <2>1, <2>2, <2>3
<1>5. ASSUME NEW r \in Requests, CompareAndSwap(r) \/ StartJob(r)
      PROVE  FALSE
  BY <1>5 DEF CompareAndSwap, StartJob
<1>6. CASE Web
  BY <1>6 DEF Web, CheckContext, LoadSources, ReleaseFlag
<1>7. CASE JobDone \/ Cancel \/ CloseCancels \/ CloseReturns \/ UNCHANGED vars
  BY <1>7 DEF JobDone, Cancel, CloseCancels, CloseReturns, vars
<1>8. CASE Restart
  BY <1>8 DEF Restart
<1> QED
  BY <1>1, <1>2, <1>3, <1>4, <1>5, <1>6, <1>7, <1>8 DEF Next, Close

LEMMA BootAlways == Spec => []BootInv
<1>1. Init => BootInv
  BY DEF Init, BootInv, Jobs
<1> QED
  BY <1>1, BootStep, TypeCorrect, PTL DEF Spec

-----------------------------------------------------------------------------
\* Before a list is fetched, combined is the merge of what has been fetched, and what is
\* still to be fetched comes later by name.  A job that has fetched all so far, and whose
\* sources are the enabled lists, will have fetched those when nothing is left to do.
Merged(f, m) ==
    \A d \in Domains : m[d] \in IF Having(f, d) = {} THEN {None} ELSE LastsOf(Having(f, d))

Fetched(f) == {l \in Lists : f[l] # None}

MergeInv ==
    /\ \A j \in Jobs : Working(j) =>
         /\ Merged(fetched[j], combined[j])
         /\ \A k \in Fetched(fetched[j]), m \in todo[j] : Name[k] <= Name[m] /\ k # m
         /\ current[j] => /\ todo[j] \subseteq sources[j] /\ sources[j] = Enabled
                          /\ Fetched(fetched[j]) = sources[j] \ todo[j]
    /\ SettledClassification

LEMMA NothingMerged == Merged(Unfetched, Unclassified) /\ Fetched(Unfetched) = {}
BY DEF Merged, Fetched, Having, Unfetched, Unclassified

\* One more list is merged.
LEMMA OneMoreMerged ==
    ASSUME NEW f \in Fetches, NEW m \in Classifications, Merged(f, m),
           NEW l \in Lists, f[l] = None, \A k \in Fetched(f) : Name[k] <= Name[l],
           NEW D \in SUBSET Domains
    PROVE  /\ Merged([f EXCEPT ![l] = D], [d \in Domains |-> IF d \in D THEN l ELSE m[d]])
           /\ Fetched([f EXCEPT ![l] = D]) = Fetched(f) \cup {l}
<1> DEFINE g == [f EXCEPT ![l] = D]
           n == [d \in Domains |-> IF d \in D THEN l ELSE m[d]]
<1>1. D # None /\ Name \in [Lists -> Nat]
  BY EmptyTypes, ListsAssumption DEF ListsAssumption
<1>2. g[l] = D /\ \A k \in Lists : k # l => g[k] = f[k]
  BY DEF Fetches
<1> HIDE DEF g
<1>3. Fetched(g) = Fetched(f) \cup {l}
  BY <1>1, <1>2 DEF Fetched
<1>4. ASSUME NEW d \in Domains
      PROVE  n[d] \in IF Having(g, d) = {} THEN {None} ELSE LastsOf(Having(g, d))
  <2>1. CASE d \in D
    <3>1. Having(g, d) = Having(f, d) \cup {l}
      BY <1>1, <1>2, <2>1 DEF Having
    <3>2. l \in LastsOf(Having(g, d))
      BY <1>1, <3>1 DEF LastsOf, Having, Fetched
    <3> QED
      BY <2>1, <3>1, <3>2
  <2>2. CASE d \notin D
    <3>1. Having(g, d) = Having(f, d)
      BY <1>1, <1>2, <2>2 DEF Having
    <3> QED
      BY <2>2, <3>1 DEF Merged
  <2> QED
    BY <2>1, <2>2
<1> QED
  BY <1>3, <1>4 DEF Merged, g

LEMMA MergeBegins ==
    ASSUME TypeOK, MergeInv, NEW j \in Jobs, NEW S, BeginRefresh(j, S), UNCHANGED <<listed, enabled>>,
           NEW b \in BOOLEAN, current' = [current EXCEPT ![j] = b], b => S = Enabled
    PROVE  \A k \in Jobs : at'[k] \in {"fetching", "caching"} =>
             /\ Merged(fetched'[k], combined'[k])
             /\ \A i \in Fetched(fetched'[k]), m \in todo'[k] : Name[i] <= Name[m] /\ i # m
             /\ current'[k] => /\ todo'[k] \subseteq sources'[k] /\ sources'[k] = Enabled
                               /\ Fetched(fetched'[k]) = sources'[k] \ todo'[k]
<1>1. ASSUME NEW k \in Jobs, k = j
      PROVE  /\ sources'[k] = S /\ todo'[k] = S /\ combined'[k] = Unclassified
             /\ fetched'[k] = Unfetched /\ (current'[k] => S = Enabled)
  BY <1>1, Typed DEF BeginRefresh
<1>2. ASSUME NEW k \in Jobs, k # j
      PROVE  /\ sources'[k] = sources[k] /\ todo'[k] = todo[k] /\ combined'[k] = combined[k]
             /\ fetched'[k] = fetched[k] /\ at'[k] = at[k] /\ current'[k] = current[k]
  BY <1>2, Typed DEF BeginRefresh
<1>3. ASSUME NEW k \in Jobs, k = j
      PROVE  /\ Merged(fetched'[k], combined'[k]) /\ Fetched(fetched'[k]) = {}
             /\ current'[k] => todo'[k] \subseteq sources'[k] /\ sources'[k] = Enabled /\ sources'[k] \ todo'[k] = {}
  BY <1>1, <1>3, NothingMerged
<1>4. ASSUME NEW k \in Jobs, k # j, at'[k] \in {"fetching", "caching"}
      PROVE  /\ Merged(fetched'[k], combined'[k])
             /\ \A i \in Fetched(fetched'[k]), m \in todo'[k] : Name[i] <= Name[m] /\ i # m
             /\ current'[k] => /\ todo'[k] \subseteq sources'[k] /\ sources'[k] = Enabled
                               /\ Fetched(fetched'[k]) = sources'[k] \ todo'[k]
  BY <1>2, <1>4 DEF MergeInv, Working
<1> QED
  BY <1>3, <1>4

LEMMA MergeStep == TypeOK /\ JobInv /\ BootInv /\ MergeInv /\ [Next]_vars => MergeInv'
<1> SUFFICES ASSUME TypeOK, JobInv, BootInv, MergeInv, [Next]_vars PROVE MergeInv'
  OBVIOUS
<1> USE Typed
<1> DEFINE Made(k) ==
      at[k] \in {"fetching", "caching"} =>
        /\ Merged(fetched[k], combined[k])
        /\ \A i \in Fetched(fetched[k]), m \in todo[k] : Name[i] <= Name[m] /\ i # m
        /\ current[k] => /\ todo[k] \subseteq sources[k] /\ sources[k] = Enabled
                         /\ Fetched(fetched[k]) = sources[k] \ todo[k]
<1>0. /\ \A k \in Jobs : Made(k)
      /\ (\A k \in Jobs : Made(k)') /\ SettledClassification' => MergeInv'
  BY DEF MergeInv, Working, Fetched, Merged, Having, LastsOf
<1>a. ASSUME UNCHANGED <<domains, ordered, inForce>>, settled' => settled /\ listed' \cap enabled' = Enabled
      PROVE  SettledClassification'
  BY <1>a DEF MergeInv, SettledClassification, Naming, Having, LastsOf, Enabled
<1>b. ASSUME NEW k \in Jobs, at'[k] \in {"fetching", "caching"} => at[k] \in {"fetching", "caching"},
             UNCHANGED <<fetched[k], combined[k], todo[k], sources[k]>>,
             current'[k] => current[k] /\ listed' \cap enabled' = Enabled
      PROVE  Made(k)'
  <2>1. /\ fetched'[k] = fetched[k] /\ combined'[k] = combined[k] /\ todo'[k] = todo[k]
        /\ sources'[k] = sources[k]
    BY <1>b
  <2>2. CASE at'[k] \notin {"fetching", "caching"}
    BY <2>2
  <2>3. CASE at'[k] \in {"fetching", "caching"}
    <3>1. /\ Merged(fetched[k], combined[k])
          /\ \A i \in Fetched(fetched[k]), m \in todo[k] : Name[i] <= Name[m] /\ i # m
          /\ current[k] => /\ todo[k] \subseteq sources[k] /\ sources[k] = Enabled
                           /\ Fetched(fetched[k]) = sources[k] \ todo[k]
      BY <1>0, <1>b, <2>3
    <3>2. /\ Merged(fetched'[k], combined'[k])
          /\ \A i \in Fetched(fetched'[k]), m \in todo'[k] : Name[i] <= Name[m] /\ i # m
      BY <2>1, <3>1
    <3>3. current'[k] => /\ todo'[k] \subseteq sources'[k] /\ sources'[k] = listed' \cap enabled'
                         /\ Fetched(fetched'[k]) = sources'[k] \ todo'[k]
      BY <1>b, <2>1, <3>1
    <3> QED
      BY <3>2, <3>3 DEF Fetched, Merged, Having, LastsOf, Enabled
  <2> QED
    BY <2>2, <2>3
<1> HIDE DEF Made
<1>1. CASE Aside
  <2>1. /\ UNCHANGED <<listed, enabled, domains, settled, inForce, ordered, sources, todo, fetched,
                       combined, current>>
        /\ \A j \in Jobs : at'[j] \in {"fetching", "caching"} => at'[j] = at[j]
    BY <1>1 DEF Aside, histVars, listVars
  <2>2. listed' \cap enabled' = Enabled
    BY <2>1 DEF Enabled
  <2> QED
    BY <1>0, <1>a, <1>b, <2>1, <2>2
<1>2. CASE Boot
  <2>1. /\ phase = "boot" /\ at["manager"] = "off" /\ at["web"] = "off" /\ ~ settled /\ ~ ordered
        /\ UNCHANGED <<settled, ordered>>
    BY <1>2 DEF Boot, BootInv
  <2>5. PICK f \in CachedDomains \cup {Unclassified} : \E S :
          /\ domains' = f
          /\ IF f = Unclassified
             THEN /\ BeginRefresh("manager", S)
                  /\ current' = [current EXCEPT !["manager"] = S = listed' \cap enabled']
                  /\ inForce' = Unfetched
             ELSE /\ inForce' = [l \in Lists |-> IF l \in Loadable THEN cache[l] ELSE None]
                  /\ at' = at
    BY <1>2 DEF Boot, jobVars
  <2>2. PICK S :
          /\ domains' = f
          /\ IF f = Unclassified
             THEN /\ BeginRefresh("manager", S)
                  /\ current' = [current EXCEPT !["manager"] = S = listed' \cap enabled']
                  /\ inForce' = Unfetched
             ELSE /\ inForce' = [l \in Lists |-> IF l \in Loadable THEN cache[l] ELSE None]
                  /\ at' = at
    BY <2>5
  <2>3. CASE f = Unclassified
    <3>1. SettledClassification'
      BY <2>1, <2>2, <2>3, NothingMerged
      DEF SettledClassification, Naming, Having, LastsOf, Merged, Unfetched, Unclassified
    <3>2. /\ at' = [at EXCEPT !["manager"] = "fetching"]
          /\ sources' = [sources EXCEPT !["manager"] = S] /\ todo' = [todo EXCEPT !["manager"] = S]
          /\ fetched' = [fetched EXCEPT !["manager"] = Unfetched]
          /\ combined' = [combined EXCEPT !["manager"] = Unclassified]
          /\ current' = [current EXCEPT !["manager"] = S = listed' \cap enabled']
      BY <2>2, <2>3 DEF BeginRefresh
    <3>3. Made("web")'
      BY <2>1, <3>2 DEF Made, Jobs
    <3>4. Made("manager")'
      <4>1. /\ fetched'["manager"] = Unfetched /\ combined'["manager"] = Unclassified
            /\ todo'["manager"] = S /\ sources'["manager"] = S
            /\ current'["manager"] => S = listed' \cap enabled'
        BY <3>2 DEF Jobs
      <4> QED
        BY <4>1, NothingMerged DEF Made, Fetched, Merged, Having, LastsOf, Enabled
    <3> QED
      BY <1>0, <3>1, <3>3, <3>4 DEF Jobs
  <2>4. CASE f # Unclassified
    <3>1. \A d \in Domains : domains'[d] \in IF Having(inForce', d) = {} THEN {None} ELSE Having(inForce', d)
      <4> SUFFICES ASSUME NEW d \in Domains
                   PROVE  f[d] \in IF Having(inForce', d) = {} THEN {None} ELSE Having(inForce', d)
        BY <2>2
      <4>1. Having(inForce', d) = {l \in Loadable : d \in cache[l]}
        BY <2>2, <2>4, EmptyTypes DEF Having, Loadable, Enabled
      <4>2. f[d] \in IF {l \in Loadable : d \in cache[l]} = {} THEN {None} ELSE {l \in Loadable : d \in cache[l]}
        BY <2>2, <2>4 DEF CachedDomains
      <4> QED
        BY <4>1, <4>2
    <3>2. SettledClassification'
      BY <2>1, <3>1 DEF SettledClassification, Naming, Having, LastsOf
    <3>3. \A k \in Jobs : Made(k)'
      BY <2>1, <2>2, <2>4 DEF Made, Jobs
    <3> QED
      BY <1>0, <3>2, <3>3
  <2> QED
    BY <2>3, <2>4
<1>3. CASE TimerFires \/ WebBegins
  <2>1. UNCHANGED <<listed, enabled, domains, settled, inForce, ordered>>
    BY <1>3 DEF TimerFires, WebBegins, forceVars, listVars
  <2>2. \A k \in Jobs : at'[k] \in {"fetching", "caching"} =>
             /\ Merged(fetched'[k], combined'[k])
             /\ \A i \in Fetched(fetched'[k]), m \in todo'[k] : Name[i] <= Name[m] /\ i # m
             /\ current'[k] => /\ todo'[k] \subseteq sources'[k] /\ sources'[k] = Enabled
                               /\ Fetched(fetched'[k]) = sources'[k] \ todo'[k]
    <3>1. CASE TimerFires
      <4>1. PICK S : /\ BeginRefresh("manager", S)
                     /\ current' = [current EXCEPT !["manager"] = S = Enabled]
        BY <3>1 DEF TimerFires
      <4>2. (S = Enabled) \in BOOLEAN /\ "manager" \in Jobs
        BY DEF Jobs
      <4> QED
        BY <2>1, <4>1, <4>2, MergeBegins
    <3>2. CASE WebBegins
      <4>1. "web" \in Jobs /\ TRUE \in BOOLEAN
        BY DEF Jobs
      <4>2. BeginRefresh("web", Enabled) /\ current' = [current EXCEPT !["web"] = TRUE]
        BY <3>2 DEF WebBegins
      <4> QED
        BY <2>1, <4>1, <4>2, MergeBegins
    <3> QED
      BY <1>3, <3>1, <3>2
  <2>3. \A k \in Jobs : Made(k)'
    BY <2>1, <2>2 DEF Made, Fetched, Merged, Having, LastsOf, Enabled
  <2>4. listed' \cap enabled' = Enabled
    BY <2>1 DEF Enabled
  <2> QED
    BY <1>0, <1>a, <2>1, <2>3, <2>4
<1>4. ASSUME NEW j \in Jobs, FetchList(j)
      PROVE  MergeInv'
  <2>1. PICK l \in FirstsOf(todo[j]) : \E D \in Versions[l] :
          /\ todo' = [todo EXCEPT ![j] = @ \ {l}]
          /\ src' = [src EXCEPT ![j] = l]
          /\ fetched' = [fetched EXCEPT ![j][l] = D]
          /\ combined' = [combined EXCEPT ![j] = [d \in Domains |-> IF d \in D THEN l ELSE @[d]]]
    BY <1>4 DEF FetchList
  <2>2. PICK D \in Versions[l] :
          /\ todo' = [todo EXCEPT ![j] = @ \ {l}]
          /\ fetched' = [fetched EXCEPT ![j][l] = D]
          /\ combined' = [combined EXCEPT ![j] = [d \in Domains |-> IF d \in D THEN l ELSE @[d]]]
    BY <2>1
  <2>3. /\ at[j] = "fetching" /\ at' = [at EXCEPT ![j] = "caching"]
        /\ UNCHANGED <<listed, enabled, domains, settled, inForce, ordered, sources, current>>
    BY <1>4 DEF FetchList, forceVars, histVars, listVars
  <2>4. l \in Lists /\ l \in todo[j] /\ D \in SUBSET Domains /\ \A m \in todo[j] : Name[l] <= Name[m]
    BY ListsAssumption DEF FirstsOf, ListsAssumption
  <2>5. /\ fetched'[j] = [fetched[j] EXCEPT ![l] = D] /\ todo'[j] = todo[j] \ {l}
        /\ combined'[j] = [d \in Domains |-> IF d \in D THEN l ELSE combined[j][d]]
        /\ \A k \in Jobs : k # j => /\ fetched'[k] = fetched[k] /\ todo'[k] = todo[k]
                                    /\ combined'[k] = combined[k] /\ at'[k] = at[k]
    BY <2>2, <2>3
  <2>6. /\ Merged(fetched[j], combined[j])
        /\ \A i \in Fetched(fetched[j]), m \in todo[j] : Name[i] <= Name[m] /\ i # m
        /\ current[j] => /\ todo[j] \subseteq sources[j] /\ sources[j] = Enabled
                         /\ Fetched(fetched[j]) = sources[j] \ todo[j]
    BY <1>0, <2>3 DEF Made
  <2>7. /\ fetched[j] \in Fetches /\ combined[j] \in Classifications /\ fetched[j][l] = None
        /\ \A k \in Fetched(fetched[j]) : Name[k] <= Name[l]
    BY <2>4, <2>6 DEF Fetched
  <2>8. Merged(fetched'[j], combined'[j]) /\ Fetched(fetched'[j]) = Fetched(fetched[j]) \cup {l}
    <3>1. /\ Merged([fetched[j] EXCEPT ![l] = D], [d \in Domains |-> IF d \in D THEN l ELSE combined[j][d]])
          /\ Fetched([fetched[j] EXCEPT ![l] = D]) = Fetched(fetched[j]) \cup {l}
      BY <2>4, <2>6, <2>7, OneMoreMerged
    <3> QED
      BY <2>5, <3>1
  <2>9. /\ \A i \in Fetched(fetched'[j]), m \in todo'[j] : Name[i] <= Name[m] /\ i # m
        /\ current'[j] => /\ todo'[j] \subseteq sources'[j] /\ sources'[j] = Enabled
                          /\ Fetched(fetched'[j]) = sources'[j] \ todo'[j]
    <3>1. ASSUME NEW i \in Fetched(fetched'[j]), NEW m \in todo'[j]
          PROVE  Name[i] <= Name[m] /\ i # m
      BY <2>4, <2>5, <2>6, <2>8
    <3>2. ASSUME current'[j]
          PROVE  /\ todo'[j] \subseteq sources'[j] /\ sources'[j] = Enabled
                 /\ Fetched(fetched'[j]) = sources'[j] \ todo'[j]
      <4>1. sources'[j] = sources[j] /\ current[j]
        BY <2>3, <3>2
      <4> QED
        <5>1. /\ todo[j] \subseteq sources[j] /\ sources[j] = Enabled
              /\ Fetched(fetched[j]) = sources[j] \ todo[j]
          BY <2>6, <4>1
        <5>2. Fetched(fetched'[j]) = (sources[j] \ todo[j]) \cup {l}
          BY <2>8, <5>1
        <5>3. (sources[j] \ todo[j]) \cup {l} = sources[j] \ (todo[j] \ {l})
          <6> HIDE Typed
          <6> QED
            BY <2>4, <5>1
        <5> QED
          BY <2>5, <4>1, <5>1, <5>2, <5>3
    <3> QED
      BY <3>1, <3>2
  <2>10. listed' \cap enabled' = Enabled
    BY <2>3 DEF Enabled
  <2>11. Made(j)'
    BY <2>3, <2>8, <2>9 DEF Made, Fetched, Merged, Having, LastsOf, Enabled
  <2>12. \A k \in Jobs : k # j => Made(k)'
    BY <1>b, <2>3, <2>5, <2>10
  <2> QED
    BY <1>0, <1>a, <2>3, <2>10, <2>11, <2>12
<1>5. ASSUME NEW j \in Jobs, FetchFails(j)
      PROVE  MergeInv'
  <2>1. PICK l : todo' = [todo EXCEPT ![j] = @ \ {l}]
    BY <1>5 DEF FetchFails
  <2>2. /\ at[j] = "fetching" /\ current' = [current EXCEPT ![j] = FALSE]
        /\ UNCHANGED <<at, listed, enabled, sources, fetched, combined, domains, settled, inForce, ordered>>
    BY <1>5 DEF FetchFails, forceVars, listVars
  <2>3. listed' \cap enabled' = Enabled
    BY <2>2 DEF Enabled
  <2>4. \A k \in Jobs : k # j => Made(k)'
    <3>1. \A k \in Jobs : k # j => todo'[k] = todo[k] /\ current'[k] = current[k]
      BY <2>1, <2>2
    <3> QED
      BY <1>b, <2>2, <2>3, <3>1
  <2>5. Made(j)'
    <3>1. todo'[j] \subseteq todo[j] /\ ~ current'[j]
      BY <2>1, <2>2
    <3>2. /\ Merged(fetched[j], combined[j])
          /\ \A i \in Fetched(fetched[j]), m \in todo[j] : Name[i] <= Name[m] /\ i # m
      BY <1>0, <2>2 DEF Made
    <3> QED
      BY <2>2, <3>1, <3>2 DEF Made, Fetched, Merged, Having, LastsOf
  <2> QED
    BY <1>0, <1>a, <2>2, <2>3, <2>4, <2>5
<1>6. ASSUME NEW j \in Jobs, CacheList(j)
      PROVE  MergeInv'
  <2>1. /\ at[j] = "caching" /\ \A k \in Jobs : k # j => at'[k] = at[k]
        /\ UNCHANGED <<listed, enabled, sources, todo, fetched, combined, domains, settled, inForce,
                       ordered, current>>
    BY <1>6 DEF CacheList, forceVars, listVars
  <2>2. listed' \cap enabled' = Enabled
    BY <2>1 DEF Enabled
  <2> QED
    BY <1>0, <1>a, <1>b, <2>1, <2>2
<1>7. ASSUME NEW j \in Jobs, Finish(j)
      PROVE  MergeInv'
  <2>1. /\ at[j] = "fetching" /\ todo[j] = {} /\ at' = [at EXCEPT ![j] = "recording"]
        /\ fetched' = [fetched EXCEPT ![j] = Unfetched]
        /\ UNCHANGED <<listed, enabled, sources, todo, combined, current>>
    BY <1>7 DEF Finish, FetchedAll, listVars
  <2>2. listed' \cap enabled' = Enabled
    BY <2>1 DEF Enabled
  <2>3. \A k \in Jobs : Made(k)'
    <3>1. ASSUME NEW k \in Jobs, k # j PROVE Made(k)'
      <4>1. fetched'[k] = fetched[k] /\ at'[k] = at[k]
        BY <2>1, <3>1
      <4> QED
        BY <1>b, <2>1, <2>2, <4>1
    <3>2. Made(j)'
      BY <2>1 DEF Made
    <3> QED
      BY <3>1, <3>2
  <2>4. SettledClassification'
    <3>1. CASE UNCHANGED forceVars
      BY <1>a, <2>2, <3>1 DEF forceVars
    <3>2. CASE /\ domains' = combined[j] /\ settled' = current[j]
               /\ inForce' = fetched[j] /\ ordered' = TRUE
      <4>1. /\ Merged(fetched[j], combined[j])
            /\ current[j] => Enabled = Fetched(fetched[j])
        BY <1>0, <2>1 DEF Made
      <4> QED
        BY <2>1, <3>2, <4>1 DEF SettledClassification, Naming, Having, LastsOf, Merged, Fetched, Enabled
    <3> QED
      BY <1>7, <3>1, <3>2 DEF Finish, NewDomainMap
  <2> QED
    BY <1>0, <2>3, <2>4
<1>8. ASSUME NEW j \in Jobs, Record(j)
      PROVE  MergeInv'
  <2>1. /\ at' = [at EXCEPT ![j] = IF j = "web" THEN "ending" ELSE "off"]
        /\ sources' = [sources EXCEPT ![j] = {}]
        /\ combined' = [combined EXCEPT ![j] = Unclassified]
        /\ UNCHANGED <<listed, enabled, todo, fetched, domains, settled, inForce, ordered, current>>
    BY <1>8 DEF Record, forceVars, histVars, listVars
  <2>2. listed' \cap enabled' = Enabled
    BY <2>1 DEF Enabled
  <2>3. Made(j)'
    BY <2>1 DEF Made
  <2>4. ASSUME NEW k \in Jobs, k # j PROVE Made(k)'
    <3>1. sources'[k] = sources[k] /\ combined'[k] = combined[k] /\ at'[k] = at[k]
      BY <2>1, <2>4
    <3> QED
      BY <1>b, <2>1, <2>2, <3>1
  <2> QED
    BY <1>0, <1>a, <2>1, <2>2, <2>3, <2>4
<1>9. ASSUME NEW r \in Requests, ListsChanged(r)
      PROVE  MergeInv'
  <2>1. /\ UNCHANGED <<at, sources, todo, fetched, combined, domains, inForce, ordered>>
        /\ settled' = FALSE /\ current' = [j \in Jobs |-> FALSE]
    BY <1>9 DEF ListsChanged, AddList, DeleteList, UpdateListEnabled, ListsChange, jobVars
  <2>2. \A j \in Jobs : ~ current'[j]
    BY <2>1
  <2> QED
    BY <1>0, <1>a, <1>b, <2>1, <2>2
<1>10. CASE Restart
  <2>1. /\ domains' = Unclassified /\ inForce' = Unfetched /\ settled' = FALSE
        /\ at' = [j \in Jobs |-> "off"]
    BY <1>10 DEF Restart
  <2>2. SettledClassification'
    BY <2>1 DEF SettledClassification, Having, Unfetched, Unclassified
  <2>3. \A k \in Jobs : Made(k)'
    BY <2>1 DEF Made
  <2> QED
    BY <1>0, <2>2, <2>3
<1> QED
  BY <1>1, <1>2, <1>3, <1>4, <1>5, <1>6, <1>7, <1>8, <1>9, <1>10, StepKinds DEF Refresh

\* What is in force is the merge, by name, of what one refresh fetched, or of what one
\* start loaded; after a complete refresh of the lists as they are, it is made of all
\* the enabled ones.
THEOREM SettledClassificationAlways == Spec => []SettledClassification
<1>1. Init => MergeInv
  BY DEF Init, MergeInv, Working, SettledClassification, Having, Unfetched, Unclassified
<1>2. TypeOK /\ JobInv /\ BootInv /\ MergeInv /\ [Next]_vars => MergeInv'
  BY MergeStep
<1>3. MergeInv => SettledClassification
  BY DEF MergeInv
<1> QED
  BY <1>1, <1>2, <1>3, TypeCorrect, JobAlways, BootAlways, PTL DEF Spec
=============================================================================
