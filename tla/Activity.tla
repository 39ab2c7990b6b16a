------------------------------ MODULE Activity ------------------------------
(***************************************************************************)
(* What the pages and the API say about the log: the queries of            *)
(* internal/store/db.go that group it by device, source, domain, category, *)
(* hour and day, and the handlers of internal/web (pages.go, api.go,       *)
(* activity_view.go) that put several of them together.  Each statement    *)
(* sees the database as it is at that moment, and some of them look at the *)
(* clock again: between two reads of one answer the writer and the tracker *)
(* commit, the purge deletes, and rows leave the window of a day.          *)
(*                                                                         *)
(* A handler writes nothing, so one request at a time is enough.  Flags    *)
(* (rate limits, anomalies, bypass signals), names, labels and the list of *)
(* a domain are left out of the page; LIMIT 10 of the network's domains is *)
(* as good as none here.  ConnPool has the connections of DeviceAnomalies. *)
(***************************************************************************)
EXTENDS QueryStore, Integers, Sequences, SequencesExt

CONSTANTS Day,       \* ticks in the 24 hours of "now"
          DayBuckets,\* of the longer charts (7 and 30)
          PriorDays, \* days before the last one, with which it is compared (7)
          PageSize,  \* detailDomainsPageSize (20)
          Asked,     \* bound: what is asked for, pairs of an actor (or Network) and a page
          Start      \* the clock at first

ASSUME ActivityAssumption ==
    /\ Day \in Nat /\ Day % Hour = 0 /\ Day > 0 /\ Domains \subseteq Nat
    /\ IsFiniteSet(Times) /\ IsFiniteSet(Macs) /\ IsFiniteSet(Ips) /\ DayBuckets \in Nat
    /\ PriorDays \in Nat \ {0} /\ PageSize \in Nat \ {0} /\ Start \in Times /\ Start >= Day

VARIABLES clock,
          devices, \* rows of devices
          req      \* the request that is being answered

allVars == <<vars, clock, devices, req>>

Network == [type |-> "network"]
Device(m) == [type |-> "device", mac |-> m]
Source(i) == [type |-> "source", ip |-> i]
Actors == {Device(m) : m \in Macs} \cup {Source(i) : i \in Ips}

\* A page is a number from one; what else is asked for is read as the first.
ASSUME AskedAssumption ==
    \A q \in Asked : q[1] \in Actors \cup {Network} /\ q[2] \in Nat \ {0}

\* actorFilter.
Of(a, r) == CASE a.type = "network" -> TRUE
              [] a.type = "device" -> r.mac = a.mac
              [] a.type = "source" -> r.mac = NoMac /\ r.ip = a.ip

\* timestamp >= cutoff, with cutoff a day before now; and timestamp < now where
\* trendWindowAt gives both ends.
Since(now) == {r \in queries : r.ts + Day >= now}
Within(now) == {r \in Since(now) : r.ts < now}

\* attributionIdentitySQL.
Identity(r) == IF r.mac # NoMac THEN Device(r.mac) ELSE Source(r.ip)
Identities(S) == Cardinality({Identity(r) : r \in S})
DomainsOf(S) == {r.domain : r \in S}
CountOf(S, d) == Cardinality({r \in S : r.domain = d})

-----------------------------------------------------------------------------
\* Charts, read from the hourly counts

\* Mutant: the last bucket is the hour before the current one.
HoursBack == Day \div Hour

\* hourlyActivity: oldestHour is this many hours before the current one.
OldestHour == Day \div Hour - 1

Counted(count, a, buckets) ==
    MapThenSumSet(LAMBDA k : count[k],
                  {k \in Keys : k[1] \in buckets /\ Of(a, [mac |-> k[2], ip |-> k[3]])})

HourChart(count, a) ==
    [i \in 1..Day \div Hour |-> Counted(count, a, {clock \div Hour - OldestHour + i - 1})]

\* dailyActivity: bucket_start / dayNS.
DayChart(count, a) ==
    [i \in 1..DayBuckets |->
        Counted(count, a, {b \in {k[1] : k \in Keys} : (b * Hour) \div Day = clock \div Day - DayBuckets + i})]

-----------------------------------------------------------------------------
\* The list of an actor's domains, page by page

\* Mutant: pages count from zero.
OffsetFromZero(p) == p.page * PageSize

Offset(p) == (p.page - 1) * PageSize

\* makeDetailDomainPagination: a page after the last one is the last one.
Pagination(requested, totalDomains) ==
    LET pageCount == IF totalDomains > 0 THEN (totalDomains + PageSize - 1) \div PageSize ELSE 1
        p == [page |-> IF requested > pageCount THEN pageCount ELSE requested]
    IN [page |-> p.page,
        first |-> IF totalDomains > 0 THEN (p.page - 1) * PageSize + 1 ELSE 0,
        last |-> IF totalDomains = 0 THEN 0
                 ELSE IF p.page * PageSize > totalDomains THEN totalDomains ELSE p.page * PageSize]

\* ORDER BY cnt DESC, domain ASC.
Before(S, d, e) == CountOf(S, d) > CountOf(S, e) \/ (CountOf(S, d) = CountOf(S, e) /\ d < e)

Ordered(S) == CHOOSE s \in [1..Cardinality(DomainsOf(S)) -> DomainsOf(S)] :
                  \A i, j \in DOMAIN s : i < j => Before(S, s[i], s[j])

\* topDomainsWithSourcePage: LIMIT and OFFSET.
DomainsPage(a, p) ==
    LET ordered == Ordered({r \in Since(clock) : Of(a, r)})
    IN SubSeq(ordered, Offset(p) + 1, IF Offset(p) + PageSize < Len(ordered) THEN Offset(p) + PageSize
                                                                       ELSE Len(ordered))

-----------------------------------------------------------------------------
\* Anomalies: the last day of a device against the days before

Recent(m, now) == {r \in Within(now) : r.mac = m}
Prior(m, now) ==
    {r \in queries : r.mac = m /\ r.ts + Day < now /\ r.ts + (PriorDays + 1) * Day >= now}

\* currentTrackerPct > averageTrackerPct + 5, without fractions.
TrackerSpike(m, now) ==
    LET c == Cardinality(Recent(m, now))  ct == Cardinality(Tracking(Recent(m, now)))
        p == Cardinality(Prior(m, now))   pt == Cardinality(Tracking(Prior(m, now)))
    IN c > 0 /\ IF p = 0 THEN 100 * ct > 5 * c ELSE 100 * ct * p > 100 * pt * c + 5 * c * p

\* currentCount > averageQueryCount * 3.
VolumeSpike(m, now) ==
    LET c == Cardinality(Recent(m, now))  p == Cardinality(Prior(m, now))
    IN c > 0 /\ p > 0 /\ PriorDays * c > 3 * p

Spikes == [mac : Macs, kind : {"tracker", "volume"}]
Spiked(s, now) == IF s.kind = "tracker" THEN TrackerSpike(s.mac, now) ELSE VolumeSpike(s.mac, now)

\* GROUP BY domain, category.
Groups(S) == {<<r.domain, r.cat>> : r \in S}
InGroup(S, g) == Cardinality({r \in S : <<r.domain, r.cat>> = g})

\* Mutant: the domain of a tracker spike is the one asked for most.
SpikeRowsAll(m, now) == Recent(m, now)

\* Where deviceTopTrackerDomain looks.
SpikeRows(m, now) == Tracking(Recent(m, now))

TopTracker(m, now) ==
    LET S == SpikeRows(m, now)
    IN {g \in Groups(S) : \A h \in Groups(S) :
            InGroup(S, g) > InGroup(S, h) \/ (InGroup(S, g) = InGroup(S, h) /\ g[1] <= h[1])}

\* delta of deviceTopVolumeSpikeDomain, times PriorDays.
Delta(m, now, g) == PriorDays * InGroup(Recent(m, now), g) - InGroup(Prior(m, now), g)

TopRisen(m, now) ==
    LET C == Recent(m, now)
        All == Groups(C \cup Prior(m, now))
        Leads(g, h) == LET dg == Delta(m, now, g)  dh == Delta(m, now, h)
                           cg == InGroup(C, g)     ch == InGroup(C, h)
                       IN dg > dh \/ (dg = dh /\ (cg > ch \/ (cg = ch /\ g[1] <= h[1])))
    IN {g \in All : \A h \in All : Leads(g, h)}

-----------------------------------------------------------------------------
\* Filters of the live stream; none is "" there, and NoMac, NoIp and 0 here.

Filters == {f \in [mac : Macs \cup {NoMac}, ip : Ips \cup {NoIp}, domain : Domains \cup {0}, cat : Categories] :
                f.mac = NoMac \/ f.ip = NoIp}

\* Mutant: a source's queries are those from its address.
FeedConditionsByAddress(r, f) ==
    /\ f.ip # NoIp => r.ip = f.ip
    /\ f.ip = NoIp /\ f.mac # NoMac => r.mac = f.mac
    /\ f.domain # 0 => r.domain = f.domain
    /\ f.cat = "uncategorized" => r.cat \in {"", "uncategorized"}
    /\ f.cat \notin {"", "uncategorized"} => r.cat = f.cat

\* The WHERE clause of QueryFeed.
FeedConditions(r, f) ==
    /\ f.ip # NoIp => r.mac = NoMac /\ r.ip = f.ip
    /\ f.ip = NoIp /\ f.mac # NoMac => r.mac = f.mac
    /\ f.domain # 0 => r.domain = f.domain
    /\ f.cat = "uncategorized" => r.cat \in {"", "uncategorized"}
    /\ f.cat \notin {"", "uncategorized"} => r.cat = f.cat

\* queryMatchesFeedFilter returns at the first condition that decides.
QueryMatches(r, f) ==
    IF f.ip # NoIp /\ (r.mac # NoMac \/ r.ip # f.ip) THEN FALSE
    ELSE IF f.ip = NoIp /\ f.mac # NoMac /\ r.mac # f.mac THEN FALSE
    ELSE IF f.domain # 0 /\ r.domain # f.domain THEN FALSE
    ELSE IF f.cat = "uncategorized" THEN r.cat = "" \/ r.cat = "uncategorized"
    ELSE f.cat = "" \/ r.cat = f.cat

-----------------------------------------------------------------------------
\* A request.  calm: nothing was written, and the clock stood still, since it began;
\* gone: a row that it could have seen was purged, or left the window.  An answer is
\* looked at before anything else happens.

Idle == [at |-> "idle"]
NewRequest(actor, page, at) ==
    [at |-> at, actor |-> actor, asked |-> page, now |-> clock, calm |-> TRUE, gone |-> FALSE,
     known |-> {}, roster |-> 0, sources |-> {}, total |-> 0, identities |-> 0, reach |-> 0,
     spikes |-> {}, named |-> {}, matched |-> 0, shown |-> [page |-> 1, first |-> 0, last |-> 0], rows |-> <<>>]

ActivityInit == Init /\ clock = Start /\ devices = {} /\ req = Idle

Get == UNCHANGED <<vars, clock, devices>>

\* handleActivity of "/" or "/devices/{key}?page=", handleAPIDomains and
\* handleAPIAnomalies.
Begin ==
    /\ opened /\ req.at \in {"idle", "done"}
    /\ \/ \E q \in Asked : req' = NewRequest(q[1], q[2], "devices")
       \/ \E at \in {"api", "anomalies"} : req' = NewRequest(Network, 0, at)
    /\ Get

\* ListDevicesWithTrendsAt: all devices that have a row, with their queries.
ReadDevices ==
    /\ req.at = "devices"
    /\ req' = [req EXCEPT !.at = "sources", !.known = devices,
                          !.roster = Cardinality({r \in Within(req.now) : r.mac \in devices})]
    /\ Get

\* Mutant: the queries of known devices count for their address too.
Anonymous(r) == TRUE

\* device_mac = ''.
Unattributed(r) == r.mac = NoMac

\* ListSourceWithTrendsAt: the sources that have queries.  An actor that was asked for
\* and is not listed is answered with a redirect.
ReadSources ==
    /\ req.at = "sources"
    /\ LET found == {r \in Within(req.now) : Unattributed(r)}
           listed == {r.ip : r \in found}
       IN req' = IF CASE req.actor = Network -> TRUE
                      [] req.actor.type = "device" -> req.actor.mac \in req.known
                      [] req.actor.type = "source" -> req.actor.ip \in listed
                 THEN [req EXCEPT !.at = "total", !.sources = listed,
                                  !.roster = @ + Cardinality(found)]
                 ELSE Idle
    /\ Get

\* DashboardSummaryAt; of its three statements the first matters here.
ReadTotal ==
    /\ req.at = "total"
    /\ req' = [req EXCEPT !.at = IF req.actor = Network THEN "counts" ELSE "summary",
                          !.total = Cardinality(Since(req.now))]
    /\ Get

\* privacySummaryAt: COUNT(DISTINCT domain) decides on the page.
ReadSummary ==
    /\ req.at = "summary"
    /\ req' = [req EXCEPT !.at = "counts",
           !.shown = Pagination(req.asked, Cardinality(DomainsOf({r \in Since(req.now) : Of(req.actor, r)})))]
    /\ Get

\* categoryCountsAt, summed over the categories.
ReadCounts ==
    /\ req.at = "counts"
    /\ req' = [req EXCEPT !.at = IF req.actor = Network THEN "reach" ELSE "page",
                          !.matched = Cardinality({r \in Within(req.now) : Of(req.actor, r)})]
    /\ Get

ReadPage ==
    /\ req.at = "page"
    /\ req' = [req EXCEPT !.at = "done", !.rows = DomainsPage(req.actor, req.shown)]
    /\ Get

\* The largest dev_cnt of TopDomainsWithSource, which looks at the clock itself.
LargestReach(now) == Max({0} \cup {Identities({r \in Since(now) : r.domain = d}) : d \in Domains})

ReadReach ==
    /\ req.at = "reach"
    /\ req' = [req EXCEPT !.at = "done", !.reach = LargestReach(clock)]
    /\ Get

\* Mutant: handleAPIDomains reads the number of devices first.
ReadDomainsLate ==
    /\ req.at \in {"api", "api2"}
    /\ req' = IF req.at = "api"
              THEN [req EXCEPT !.at = "api2", !.identities = Identities(Since(clock))]
              ELSE [req EXCEPT !.at = "done", !.reach = LargestReach(clock)]
    /\ Get

\* handleAPIDomains: TopDomainsWithSource, and then DashboardSummary.
ReadDomains ==
    /\ req.at \in {"api", "api2"}
    /\ req' = IF req.at = "api"
              THEN [req EXCEPT !.at = "api2", !.reach = LargestReach(clock)]
              ELSE [req EXCEPT !.at = "done", !.identities = Identities(Since(clock))]
    /\ Get

\* DeviceAnomalies: its first statement, with which all devices are judged.
ReadSpikes ==
    /\ req.at = "anomalies"
    /\ LET found == {s \in Spikes : s.mac \in devices /\ Spiked(s, clock)}
       IN req' = [req EXCEPT !.at = IF found = {} THEN "done" ELSE "spikes",
                             !.now = clock, !.spikes = found]
    /\ Get

\* The domain of each spike comes from a statement of its own, on another connection;
\* of one device the tracker spike is first.  It may find nothing any more.
NameSpike ==
    /\ req.at = "spikes"
    /\ \E s \in req.spikes :
         /\ s.kind = "volume" => [s EXCEPT !.kind = "tracker"] \notin req.spikes
         /\ LET top == IF s.kind = "tracker" THEN TopTracker(s.mac, req.now) ELSE TopRisen(s.mac, req.now)
            IN \E g \in IF top = {} THEN {<<0, "">>} ELSE top :
                 req' = [req EXCEPT !.at = IF req.spikes = {s} THEN "done" ELSE @,
                                    !.spikes = @ \ {s}, !.named = @ \cup {<<s, g>>}]
    /\ Get

Answer == ReadSpikes \/ NameSpike \/ ReadDevices \/ ReadSources \/ ReadTotal \/ ReadSummary \/ ReadCounts
          \/ ReadPage \/ ReadReach \/ ReadDomains

-----------------------------------------------------------------------------
\* Meanwhile

\* The tracker's batch: a device gets its row.
SaveDevice ==
    /\ opened /\ lock = "free"
    /\ \E m \in Macs \ devices : devices' = devices \cup {m}
    /\ stale' = TRUE
    /\ UNCHANGED <<queries, nextID, total, tracker, opened, lock, batch, purging, cutoff, chunk,
                   purges, crashes, outcome, clock>>

\* An entry waits for the writer for seconds, and a transaction lasts no longer: the
\* clock does not leave them a day behind.
Tick ==
    /\ clock + 1 \in Times
    /\ \A r \in batch : r.ts + Day > clock
    /\ clock' = clock + 1
    /\ UNCHANGED <<vars, devices>>

\* What is logged has just happened, and what expires is at least a day old.
StoreStep ==
    /\ Next
    /\ \A r \in batch' : r.ts <= clock /\ r.ts + Day >= clock
    /\ cutoff' # cutoff => cutoff' + Day <= clock
    /\ UNCHANGED <<clock, devices>>

Watch ==
    req' = IF req.at \in {"idle", "done"} \/ ~ opened' THEN Idle
           ELSE [req EXCEPT
               !.calm = @ /\ queries' = queries /\ devices' = devices /\ clock' = clock,
               !.gone = @ \/ \E r \in Since(req.now) : r \notin queries' \/ r.ts + Day < clock']

ActivityNext == Begin \/ Answer \/ ((StoreStep \/ SaveDevice \/ Tick) /\ Watch)

ActivitySpec == ActivityInit /\ [][ActivityNext]_allVars

-----------------------------------------------------------------------------
Answered == [at : {"devices", "sources", "total", "summary", "counts", "page", "reach", "api", "api2",
                   "anomalies", "spikes", "done"},
             spikes : SUBSET Spikes, named : SUBSET (Spikes \X (Nat \X (Categories \cup {""}))),
             actor : Actors \cup {Network}, asked : Nat, now : Times, calm : BOOLEAN, gone : BOOLEAN,
             known : SUBSET Macs, roster : Nat, sources : SUBSET Ips, total : Nat, identities : Nat,
             reach : Nat, matched : Nat, shown : [page : Nat \ {0}, first : Nat, last : Nat],
             rows : Seq(Domains)]

ActivityTypeOK ==
    /\ TypeOK
    /\ clock \in Times /\ devices \subseteq Macs
    /\ req = Idle \/ req \in Answered

Late == {r \in Since(req.now) : r.ts >= req.now}
PageDone == req.at = "done" /\ req.asked > 0

\* The numbers of one page add up although each is read on its own: the roster never
\* counts more queries than "Whole network" beside it, unless rows went away
\* meanwhile; and on a page that nothing disturbed every query counts for exactly one
\* row of the roster, but those of a device without a row and those that have come
\* since the page's "now".
PageAddsUp ==
    PageDone =>
        /\ ~ req.gone => req.roster <= req.total
        /\ req.calm =>
             /\ req.roster + Cardinality({r \in Since(req.now) : r \in Late \/ r.mac \notin devices \cup {NoMac}})
                  = req.total
             /\ req.actor = Network => req.matched + Cardinality(Late) = req.total

\* The page of domains that is shown has the rows that its caption announces, unless
\* some went away between the count and the list; on a page that nothing disturbed
\* they are those of that rank, so that the pages of an actor show every domain once.
PageHasItsRows ==
    LET S == {r \in Since(req.now) : Of(req.actor, r)}
        Rank(d) == 1 + Cardinality({e \in DomainsOf(S) : Before(S, e, d)})
    IN PageDone /\ req.actor # Network =>
        /\ ~ req.gone /\ req.shown.last > 0 => Len(req.rows) > req.shown.last - req.shown.first
        /\ req.calm => {req.rows[i] : i \in 1..Len(req.rows)}
                         = {d \in DomainsOf(S) : Rank(d) \in req.shown.first .. req.shown.last}

\* No domain of GET /api/domains was asked for by more devices than there are in all,
\* unless rows went away between the two reads.  On the page of the network, where the
\* number of actors is read first, this holds only if nothing happens meanwhile.
ReachWithinTotal ==
    req.at = "done" /\ req.actor = Network =>
        /\ req.asked = 0 /\ ~ req.gone => req.reach <= req.identities
        /\ req.asked # 0 /\ req.calm /\ Late = {} /\ {r.mac : r \in queries} \subseteq devices \cup {NoMac}
             => req.reach <= Cardinality(req.known) + Cardinality(req.sources)

\* Every spike of GET /api/anomalies is blamed on a domain that explains it, although
\* the domain is read after the spike was found and the writer commits in between: one
\* of the device's tracking domains of the last day, or one that the device asks for
\* more than before; unless rows went away meanwhile.
SpikesExplained ==
    req.at = "done" /\ ~ req.gone => \A e \in req.named :
        LET s == e[1] g == e[2]
        IN IF s.kind = "tracker" THEN \E r \in Tracking(Recent(s.mac, req.now)) : <<r.domain, r.cat>> = g
           ELSE Delta(s.mac, req.now, g) > 0

\* The charts agree with the log for every actor: each bucket of an hour or of a day
\* counts the rows of that hour or day, the last one being the current one, although
\* they are read from counts that the writer adds to and the purge counts again.
\* (A request writes nothing: it is enough to look while there is none.)
ChartsShowTheLog ==
    opened /\ req = Idle => \A a \in Actors \cup {Network} :
        LET S == {r \in queries : Of(a, r)}
            Hours(T, i) == Cardinality({r \in T : clock \div Hour - r.ts \div Hour = Day \div Hour - i})
            Days(T, i) == Cardinality({r \in T : clock \div Day - r.ts \div Day = DayBuckets - i})
        IN /\ \A i \in 1..Day \div Hour : /\ HourChart(total, a)[i] = Hours(S, i)
                                          /\ HourChart(tracker, a)[i] = Hours(Tracking(S), i)
           /\ \A i \in 1..DayBuckets : /\ DayChart(total, a)[i] = Days(S, i)
                                       /\ DayChart(tracker, a)[i] = Days(Tracking(S), i)

\* The backlog and the relay of a stream agree on every query: SQL and Go are two
\* implementations of one filter.
FilterAgree == req = Idle => \A r \in queries, f \in Filters : FeedConditions(r, f) = QueryMatches(r, f)
=============================================================================
