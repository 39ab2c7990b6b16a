# Umberrelay in TLA+

Umberrelay (`src/`) is a forwarding DNS server that logs every query, classifies it
against block lists, and shows the log in a web UI.  It is one Go process with a
dozen goroutines around one SQLite file.  This directory holds TLA+ specifications of
the parts where these goroutines, the database and the shutdown meet, the TLC
configurations that check them on small instances, and theorems that TLAPS proves for
every instance.

Run `tlc -config X.cfg M` for the runs below and `tlapm MProofs.tla` for the proofs.

## The system

| Component | Code | State | Operations |
| --- | --- | --- | --- |
| DNS rate limiter | `internal/dns/ratelimit.go` | window, counts by source, refusals, under one mutex | `Allow`, `Refusals` |
| DNS listener | `internal/dns/listener.go` | one UDP and one TCP server, a goroutine per query | `Run`, `handleQuery` |
| Pipeline writer | `internal/pipeline/writer.go` | the records channel (4096), a batch | `Run`, `flush` |
| Query store | `internal/store/db.go`, `schema.go` | `queries`, `query_rollups_hourly` | `WriteQueries`, `QueryFeed`, `PurgeQueriesOlderThan`, backfill in `Open` |
| Connection pool | `database/sql` as `Open` sets it | two connections | every use of the database |
| Live query stream | `internal/web/query_stream_hub.go`, `handleAPIQueryStream` | subscribers, cursor, wake and stop channels | `Subscribe`, `NotifyNewQueries`, `pollOnce`, `Close` |
| Classification lists | `internal/classify/manager.go`, `internal/app/lists.go`, list handlers in `internal/web/api.go` | `lists`, `list_domains`, the map in memory, the refresh status, the job flag | `Refresh`, `Run`, `LoadFromCache`, `refreshClassificationAsync` |
| Overrides | `Manager.SetOverride`, `RemoveOverride` | `domain_overrides`, a `sync.Map` | set, remove, `LoadOverrides`, `Classify` |
| Settings | `internal/app/settings.go`, `Manager.Run` | `config`, the timer and wake-up of `Manager.Run` | `UpdateSettings`, `NotifyConfigChanged`, `refreshInterval` |
| Device discovery | `internal/device/` | ARP cache, queue of devices, a batch, `devices` | `pollARP`, the DHCP, mDNS and SSDP listeners, `saveDiscoveredDevice`, `runDeviceWriter`, `UpsertDevices` |
| Labels | `UpdateDeviceLabel`, `SetSourceLabel` | columns of `devices`, `source_labels` | the first is modelled with device discovery |
| Analytics | `internal/store/db.go` from 462 | none of its own | read-only SQL: summaries, actors, categories, domains, charts, anomalies; partly modelled |
| Pages, API | `internal/web/` | none of their own | `handleActivity`, `handleAPIDomains`, `handleAPIAnomalies`, the stream's filter; partly modelled |
| Lifecycle | `cmd/umberrelay/main.go`, `Server.ListenAndServe`, `Listener.Run` | the context, the `WaitGroup`, `errCh`, the servers | `run`, the start and the end of each worker |

How they meet.  A query's goroutine asks the limiter, asks the upstreams one after the
other, answers, and sends a record on the channel unless it is full.  The writer
collects records into a batch, writes it in one transaction, and calls
`NotifyNewQueries`, which wakes the hub; the hub reads what is new and puts it into the
channel of every connected browser's handler.  Once a day the purge deletes old rows
from the tables the writer is writing to.  Four goroutines find devices and hand them to
a writer of their own; the pipeline's writer asks their address cache whom a query
belongs to.  A page is put together from several reads of the database, each of which
sees it as it is at that moment.  Requests change the lists and start a job
that fetches them again, while the manager's timer may be doing the same.  A signal
cancels one context: every worker ends in its own way, `main` waits for them and closes
the database.

What is hard here, and what the properties are for:

- the clock is read before a lock is taken (limiter);
- non-blocking sends that drop, merged wake-ups, bounded polls (pipeline, hub);
- a shared cursor that one goroutine moves while another has a batch in flight (hub);
- transactions that read first and write later under SQLite's snapshots (purge);
- counts kept beside the rows by two different computations (roll-ups);
- a flag, a `WaitGroup` and a context that must agree about one background job (lists);
- crashes between the cache on disk and the map in memory (lists);
- a queue that is full, not in use yet or not read any more, and what is saved then (devices);
- a table and a map changed one after the other without a lock, and a wake-up that must
  not be lost (overrides, settings);
- goroutines that hold one connection of two and want another (pool);
- numbers on one page that were read one after the other, some with the clock read
  again (pages);
- two implementations of one filter, and pages of a list whose length changes (API);
- errors, signals and timeouts that race at the end, and the shutdown of each worker
  (lifecycle).

`PROJECT.json` lists them one by one, at their lines, with the properties that cover
them, or the reason why none does.

## Modules

| Module | Models | Run by |
| --- | --- | --- |
| `RateLimiter` | `Allow`, `Refusals` and the start of `handleQuery` | `MCRateLimiter` |
| `RateLimiterProofs` | theorems about it | |
| `QueryLog` | abstract: what the pipeline promises | refined by `Pipeline` |
| `Pipeline` | `handleQuery`, the channel, `Writer.Run`, the servers, the exit | `Pipeline` |
| `PipelineProofs` | theorems about it, the refinement included | |
| `Lifecycle` | `run`, the listener's servers, `ListenAndServe`, the end of the database | `MCLifecycle` |
| `LifecycleProofs` | theorems about it | |
| `QueryStream` | hub, stream handler, the writer's commits, `Close` | `MCQueryStream` |
| `QueryStreamProofs` | theorems about it | |
| `ListRefresh` | lists, cache, refreshes, the web job, shutdown, restart | `MCListRefresh` |
| `ListRefreshProofs` | theorems about it | |
| `QueryStore` | writer, purge, roll-ups, backfill, crashes | through `Activity` |
| `Activity` | the reads of pages and API, composed with `QueryStore`, devices and the clock | `MCActivity` |
| `DeviceTracker` | discovery, the device writer, the rows of `devices` and their labels | `MCDeviceTracker` |
| `DeviceTrackerProofs` | theorems about it | |
| `RuntimeConfig` | overrides, settings, the timer of `Manager.Run` | `MCRuntimeConfig` |
| `RuntimeConfigProofs` | theorems about it | |
| `ConnPool` | the pool and `DeviceAnomalies` | `MCConnPool` |
| `DatabaseProofs` | theorems about `QueryStore`, `Activity` and `ConnPool` | |

Each definition stands for the lines that `PROJECT.json` maps it to, and keeps the
code's name where it can.  Some definitions come in two forms: the one with the comment
`Mutant:` is a plausible mistake, is used by no specification, and serves to see that a
property notices it.

### RateLimiter

`handler[h]` is a goroutine that is idle or has evaluated `time.Now()`; `Stamp` reads
the clock, `Admit` and `Refuse` are the two outcomes of `Allow`, which is atomic because
it holds the mutex throughout.  `windowStart` is kept in seconds plus one, 0 being
`time.Time{}`.  Refusals are records of count, first and last; those older than an hour
are pruned when the window changes.  `admitted`, `opened`, `reversals`, `lastRefused` and
`disordered` remember the past for the properties.

### Pipeline and QueryLog

`at[q]` says how far the goroutine of a query is.  The verdict of the limiter, the
results of the upstreams (an error that comes with a message included: the loop goes on,
but that message is sent to the client if nothing better comes) and of the transactions
are open.  `writer` is where `Writer.Run` is; `stopping` that it is in its drain.  The
UDP server is shut down and waited for before the TCP server; `Listener.Run` returns the
result of the first server that ends, so a handler of the other may still be running at
`Exit`.  `QueryLog` says the same in four actions: accept a query once, commit or lose a
batch from the front of the queue, close.

### Lifecycle

`main` is where `run` is: it starts the workers in `Order`, waits in its `select`, waits
for all of them, looks once more into `errCh` and closes the database.  A worker that
reports its error sends first and cancels second, as in the code, so that the `select`
may find either case ready.  `server` and `stopper` are the two DNS servers and the
goroutine that shuts them down; `Shutdown` of a server that has not started does nothing,
as in `miekg/dns`.  `hook` is the goroutine of `ListenAndServe` that ends the streams,
waits for the requests until a timeout, cancels the refresh job and waits for it.  In the
demo mode only the web server is started.  What a worker does with its data before it
ends is in its own module; here it ends when the context does.

### QueryStream

A query is its id.  `hub` is the hub goroutine's place: in "deliver" it holds the mutex,
which `Subscribe` and `Unsubscribe` wait for (`MuFree`).  The handler subscribes first,
then reads the cursor it starts from, then the backlog, and then relays, skipping what it
has sent already.  The database is `1..rows`: `INTEGER PRIMARY KEY AUTOINCREMENT` and a
single writer hand out ids in commit order.  `Wanted[c]` is the filter of a connection,
on which `QueryFeed` and `queryMatchesFeedFilter` agree (`FilterAgree`, below).

### ListRefresh

Two goroutines run `Manager.Refresh`: "manager" is `main` before the workers start, then
`Manager.Run`; "web" is the job of `refreshClassificationAsync`.  Fetching and caching
one list are two steps; the swap of the map and the record of the status are two more.
`Versions[l]` are the sets of domains that the URL of a list may serve: each fetch gets any
of them.  `Name` orders the lists by their names, and so the rows in which they are read;
names may be equal, since `lists` does not forbid it, and their order is open then
(`FirstsOf`).  A classification maps a domain to the list that its category comes from.
`Boot` is the start of `main` with its failures: a cache that cannot be read leaves the map
empty and has the lists fetched; lists that cannot be read are seeded again (`Seeds`), and
each insert may fail.  `Restart` is a crash at any moment, or a start after the end: the
tables stay, the rest is gone.  A default list that was deleted is not seeded a second time
under a new id; that is a bound.  `inForce` and `ordered` say what the classification was
made of, `spoiled` and `behind` which of its lists have other rows in the cache by now,
`out` which lists a refresh or a start has left out since they were removed.
SQLite runs with `synchronous(NORMAL)` in WAL mode, so a crash here is one of the
process, not of the machine.

### QueryStore

A row has an hour, a device or a source address, and is tracking or not.  `lock` is
SQLite's write lock and `stale` says that somebody has committed since the purge's
`SELECT`: a deferred transaction in WAL mode cannot write then.  The writer's first
statement is an `INSERT`, so it has no such window.  Any statement of a chunk, and its
commit, may fail (`PurgeFails`).  `total` and `tracker` are the
columns of `query_rollups_hourly`; the writer adds to them, the purge counts the touched
hours again, `Open` counts everything if there is nothing.

### Activity

`req` is the answer that is being put together; each read of the code is a step, in the
order of the code: devices, sources, total, then for the network its categories and its
domains, for an actor the number of its domains, its categories and one page of its
domains.  The rows are those of `QueryStore`, and every step of it, a new row of
`devices` and a tick of the clock may come between two reads.  A handler writes nothing,
so requests do not disturb each other and one at a time is enough.  `now` is what the
handler passes on; `ReadReach` and `ReadDomains` look at the clock themselves, as
`TopDomainsWithSource` does.  A new row is of now (`StoreStep`), and the clock does not
leave one that the writer has in hand a day behind (`Tick`): the writer flushes each second
and waits at most five for the lock (`busy_timeout`).  `Ordered` is the one order that
`ORDER BY` allows.  `ReadSpikes` and `NameSpike` are `DeviceAnomalies`: one
statement that judges the devices, and one more for the domain of each spike, which sees
the log as it is by then.  `calm` and `gone` say what has happened since the request
began: whether anything did, and whether a row that it could have counted was purged or
left the window of a day.  `QueryMatches` and `FeedConditions` are the Go and the SQL
form of the stream's filter, compared over all of `Filters`.

### DeviceTracker

`at[h]` is where each of the four goroutines is that find devices: the poll of the ARP
table, which `Run` does itself, and the three listeners, which it starts when its first
poll is over.  A packet is what its parser makes of it, an ARP table one of `ArpTables`,
the empty one standing for a failed read as well.  `saveDiscoveredDevice` has the steps
that other goroutines can come between: `LoadActive` reads `writerActive`; `Send` and
`Full` are the two cases of its `select`; `UpsertDevice` is the direct write.  The device
writer takes, flushes at a full batch or a tick, and drains; its drain ends when it finds
the channel empty, and only then does it call itself inactive.  A failed flush loses its
batch, as in the code.  Times are numbers of calls of `time.Now`.  `saved`, `stored`,
`lost`, `late`, `bypassed` and `given` remember the past.

### RuntimeConfig

`req[r]` is the request a goroutine of the web server is serving, and the step it is at:
"table" then "map" for an override, "days", "hours" and "notify" for settings.
`Canonical` is what `strings.ToLower` and `TrimSuffix` do to a name.  `Listed` is the
classification by lists, which `ListRefresh` models.  `manager` is the place of
`Manager.Run`, whose read of the setting, its timer and its `select` are steps of their
own; that a refresh takes time is the place "refreshing".  `doubtful` holds the domains
for which the last calls overlapped, or whose row could not be loaded.

### ConnPool

A goroutine waits for a connection, holds it, and gives it back.  `DeviceAnomalies` is
the one function that asks for a second connection while its rows are open.  The pool's
queue is external: a waiting goroutine gets a connection in the end (strong fairness).
That nobody waits for ever with one such call is proved and has no run of its own.

## Runs

| Run | Bounds | Shows |
| --- | --- | --- |
| `limiter` | 2 goroutines, 2 sources, limit 1, 6 queries, three seconds of 2 ticks; refusals kept 3 ticks | the limiter's guarantees under out-of-order stamps; about 75,000 states |
| `pipeline` | 1 UDP and 1 TCP query, 2 upstreams, channel 1, batch 2, both servers may fail | accounting, order, the drain, announcements, shutdown, the refinement |
| `stream` | 2 clients (one with a filter), 3 commits, backlog limit 2, channels of 1, fetches of 1, 2 per wake-up; reads fail | completeness, no repeats, closing; about 3 million states |
| `stream_liveness` | 1 client that reads, 3 commits, 1 fetch per wake-up | no wake-up is lost; `Close` returns |
| `lists` | 2 lists with equal names that share a domain, 2 requests, 1 restart; reads of the lists and the cache fail, fetches once the context is done | one job, none after the close, the shutdown ends; about 522,000 states, a minute and a half |
| `lists_crash` | 2 lists that share a domain, one of which may drop it, 1 request, 1 timer refresh, 1 restart; everything fails | the classification, cache and restart, removed lists, the status; about 5.7 million states, two to three minutes |
| `lists_skipped` | 2 requests, nothing fails | **violation**, see below |
| `lifecycle` | the listener, the writer and the web server, 1 request, with and without demo mode; sockets may fail | the error that is returned, the order of the end, and that it comes; about 285,000 states, a minute |
| `activity` | 4 old rows over 2 hours of 2 ticks, a day of 4 ticks, 1 device with 2 addresses, 3 domains, page size 2; compared with 2 days before; 2 new rows, 2 purges in chunks of 1, 1 crash | roll-ups, what a purge may report, pages, charts, spikes, filters; about 1.2 million states, three minutes |
| `tracker` | 1 device with 1 address, channel 1, batch 2, 3 packets or polls, 1 label; transactions fail | accounting, drain, order, merged rows, progress; about 3 minutes |
| `config` | 1 domain in 2 spellings, 2 categories, 2 goroutines, 4 requests, 1 restart; reads and writes fail | overrides in force, no lost wake-up; about 1.3 million states |
| `pool_anomalies` | 3 goroutines, two of them in `DeviceAnomalies` | **violation**, see below |

Why these bounds are enough to be interesting.  The limiter needs two goroutines to see
stamps out of order and three windows to leave one and come back.  In the pipeline two
queries fill the channel, one is dropped, and a batch is full or partial; that larger
instances are no different is proved, not checked.  In the stream a channel of one and
fetches of one make clients slow and polls end early with three queries, and a second
client is what shares the cursor.  Two lists with a common domain are needed for an order
of merging, a URL that serves two things for rows that are newer than the classification,
and two requests for the race about the flag; a timer's refresh, which may start before a
request changes the lists, overlaps with the job of that request.  A purge in chunks of one
has as many transactions as it has rows, and cuts an hour in two.  Two pages of
domains need three of them, and a device with two addresses, one of which is a source as
well, tells the two ways of attribution apart; a tick takes a row out of the day.  In
`lifecycle` two of the workers report errors and one does not, and one request can be
a stream, wait, or start the job; that more of them are no different is proved.  Three
discoveries of one device fill its queue, wait in a batch and overtake each other; more
devices do not interact, except through the cache.  Two requests overlap and a third ends
the doubt they left.

`CHECK_DEADLOCK FALSE` stands in every configuration: these systems exit, or run out of
queries.  That none of them stops too early is what their liveness properties say.  Type
invariants are proved and not run.

### What the properties say

- `AdmittedBounded`: however the goroutines interleave, a source passes at most the limit
  for each time its second became the window; going back is the only way past the limit.
  `NoEarlyRefusal`: nobody is refused before having had the limit in that second.
  `RefusalsReported`: the page shows who was refused within the hour, no more and, but
  for stamps out of order, no less.
- `ExitExplained`: `run` returns the first error that a worker reported, whatever was
  ready in its `select`, and none only after a signal.  `DbClosedLast`: when the database
  is closed nobody uses it any more, but for requests whose connection was cut, and for
  the case in which the web server's socket failed while it served.  `ShutdownCompletes`:
  a cancelled process ends, but for the case below.
- `RecordsAccounted`: each record that was sent is in the log, the batch, the channel or
  a batch that failed, once.  `DrainComplete`: what was queued before the cancellation is
  not left behind.  `ImplementsQueryLog`: the pipeline is the abstract log.
  `EventuallyAnnounced`, `ShutdownCompletes`: progress.
- `StreamComplete`: from its initial batch on a client has been sent or has in its channel
  every query up to the hub's cursor that it wants, or the stream has ended.
  `NeverResent`, `ClosedOnce`: the seam between backlog and relay.
  `CloseEndsEarlyStreams`, `CloseCompletes`, `EventuallyDelivered`.
- `SettledClassification`: what is in force is the merge by name of what one refresh
  fetched, or what one start loaded, and never a mixture of two refreshes that overlap; and
  after a complete refresh of the lists as they are it is made of all the enabled ones.
  `SurvivesRestart`: of each list that is in force the cache holds exactly what is in force,
  unless the list could not be written or another refresh has written it since (a crash
  then goes on from those rows).  `RemovedStaysOut`: a list that was disabled or deleted,
  once a refresh or a start has left it out, does not come back from a refresh at work, from
  the rows that stay behind in the cache, or with a restart.  `StatusHonest`: the status
  shows as a success only what was put in force.  `OneWebJob`, `NoJobAfterClose`,
  `ShutdownCompletes`: the job.
- `RollupsAgree`: the hourly counts are the counts of the rows.  `DoneMeansAll`: a purge
  that ends without an error has left nothing that had expired.
- `PageAddsUp`: the roster never shows more queries than the network, and on a page that
  nothing disturbed every query is counted once.  `PageHasItsRows`: the page of domains
  has the rows of its caption.  `ReachWithinTotal`: no domain of `GET /api/domains` has
  more devices than there are, because of the order of its two reads.  `SpikesExplained`:
  the domain that a spike is blamed on explains it, although it is read later.  `ChartsShowTheLog`:
  each bucket of the charts is the count of the rows of that hour or day.  `FilterAgree`:
  backlog and relay of a stream select the same queries.
- `DiscoveriesAccounted`: what was saved is in the channel, the batch, the table or a
  failed batch, once.  `DrainComplete`: only what was sent after the drain is left in the
  channel.  `InOrder`: discoveries are stored in the order they were saved (`Precedes`),
  unless the queue was full or not in use yet.  `RowsAgree`: a row has the latest known value of each
  field, the first and last time, and the user's label.  `EventuallyKnown`,
  `ShutdownCompletes`: progress.
- `OverridesInForce`: queries are classified as the table says, but for domains with a
  call in progress, overlapping calls, or a failed load.  `NoLostWake`: a changed interval
  reaches the timer.
- `AnomaliesAnswered`: a call of `DeviceAnomalies` is answered; see below.

### What the violations show

- `lists_skipped`: a change of the lists while a job runs starts no second one, although
  the job has read the lists before the change.
- `pool_anomalies`: two calls of `DeviceAnomalies` with spikes take both connections and
  wait for each other.  No timeout ends it, and the writer never writes again.

Met while modelling, and not the subject of a run:

- A stream resumes with one batch of at most `limit` after the client's cursor and then
  gets what is newer than the hub's cursor, so a client further behind misses what is in
  between (`StreamComplete` speaks of what follows the backlog).
- A commit of the writer between a chunk's `SELECT` and `DELETE` fails the `DELETE`, and
  the purge waits a day for its next try (`DoneMeansAll` allows for it).
- A discovery that is written directly may overtake older ones, so that `last_seen` may go
  back, even to before `first_seen`.
- A discovery sent after the drain stays in the channel (`late`).
- Two calls for the override of one domain that overlap may leave table and map different
  until the next (`doubtful`).
- A request for both settings that is refused for the second has changed the first.
- `Allow` can let a source pass more than the limit of one second when stamps come out of
  order (`AdmittedBounded` says by how much).
- A query that waits for its upstream at the cancellation may send its record after the
  drain (`DrainComplete` speaks of records queued before).
- A stream that subscribes while the hub is closing is ended only by the server's timeout
  (`CloseEndsEarlyStreams` speaks of those before).
- A cancellation that overtakes the start of both DNS servers leaves them running, because
  their `Shutdown` does nothing then and is not called again, and the process does not end
  (`Unstoppable` in `ShutdownCompletes` of `Lifecycle`; this needs a goroutine that does
  not run between the two).
- When the web server's socket fails while it serves, `ListenAndServe` returns without
  waiting for its goroutine, so that the database may be closed under a refresh job (`http
  = "broken"` in `DbClosedLast`).
- The page of the network reads the number of actors before the domains, so that it may
  show a domain with "3 of 2" (`ReachWithinTotal` promises this only for the API).
- The list that a domain is attributed to is always unknown outside of the demo data,
  because stored names end with a dot and the entries of lists do not (`db.go:1373`).
- `LoadCachedDomains` has no `ORDER BY`, so that a domain on two lists may get another
  category with a restart than with the refresh before it.
- A refresh that cannot fetch a list leaves its domains out of the map until the next,
  although they are in the cache.
- The address cache of device discovery never forgets an entry.
- The domains of a deleted list stay in `list_domains`, because foreign keys are not
  enforced (`RemovedStaysOut` shows that they do no harm).
- Of two refreshes that overlap the one that stores last wins, although it may have read the
  lists before the other did (`SettledClassification` says only that it is one of them).
- The rows of a list are committed before the classification made of them is in force, so a
  crash in between starts with new rows of one list and old rows of another
  (`SurvivesRestart` excepts the lists written since).
- A domain on two lists with equal names gets the category of either, and of another with the
  next refresh: `ORDER BY name` leaves their order open.

## Fairness

Goroutines that can run do run, so their steps are weakly fair.  What comes from outside
is never forced: queries, requests, signals, failures, crashes, timers of hours.

- `Pipeline`: an exchange has a timeout, `select` picks at random among its ready cases,
  so every ready case is taken in the end; the ticker fires each second.
- `Lifecycle`: `run`, the workers, the two servers' starts and ends, the hook (its wait
  for requests has a timeout) and the job go on.  Sockets need not fail, signals and
  requests need not come, and requests need not end.
- `QueryStream`: the hub, `OnFlush` after a commit, `Close`, and the handlers of the
  clients in `Readers`, whose clients keep reading; other clients may stop reading.
- `ListRefresh`: fetches have a timeout, so `Refresh` goes on; the web job and the
  shutdown go on.  A transaction returns.
- `DeviceTracker`: the goroutines, the ticker of the device writer, and the reaction to
  the end of the context.  The ticker of the polls and the packets are not forced.
- `ConnPool`: queries end; a connection that becomes free goes in the end to each
  goroutine that waits, `database/sql` serving its waiters one after the other.

## Proofs

| Module | Theorems | From |
| --- | --- | --- |
| `RateLimiterProofs` | `TypeCorrect`, `AllowanceCorrect`, `AdmittedBoundedAlways`, `NoEarlyRefusalAlways`, `RefusalsReportedAlways` | `LimiterAssumption` |
| `PipelineProofs` | `TypeCorrect`, `RecordsAccountedAlways`, `BatchBoundedAlways`, `DrainCompleteAlways`, `PipelineImplementsQueryLog` | `PipelineAssumption` |
| `LifecycleProofs` | `TypeCorrect`, `ExitExplainedAlways`, `DbClosedLastAlways` | `LifecycleAssumption` |
| `QueryStreamProofs` | `TypeCorrect`, `ClosedOnceAlways`, `CloseEndsEarlyStreamsAlways`, `NeverResentAlways`, `StreamCompleteAlways` | `StreamAssumption` |
| `ListRefreshProofs` | `TypeCorrect`, `OneWebJobAlways`, `NoJobAfterCloseAlways`, `StatusHonestAlways`, `SurvivesRestartAlways`, `RemovedStaysOutAlways`, `SettledClassificationAlways` | `ListsAssumption` |
| `DeviceTrackerProofs` | `TypeCorrect`, `DrainCompleteAlways`, `DiscoveriesAccountedAlways`, `InOrderAlways`, `RowsAgreeAlways` | `TrackerAssumption` |
| `RuntimeConfigProofs` | `TypeCorrect`, `OverridesInForceAlways`, `NoLostWakeAlways` | `ConfigAssumption` |
| `DatabaseProofs` | `CountsAgreeWithLog`, `PurgeDeletesAll`, `FiltersAgree`, `PageNumbersAddUp`, `ReachStaysWithinTotal`, `SpikesAreExplained`, `ChartsAgreeWithLog`, `PagesHaveTheirRows`, `ActivityTypeCorrect` | `StoreAssumption`, `ActivityAssumption`, `AskedAssumption` |
| | `PoolTypeCorrect`, `PoolNeverStuck` | `PoolAssumption`, and for the second `Cardinality(Nested) < PoolSize` |

The assumptions say that limits, capacities and sizes are numbers, positive where a zero
makes no sense; that no query arrives over both transports; that a URL serves
something and no address is listed twice; that the web server is the last worker that
`run` starts; and that a day is a whole number of hours, that the log is finite at first
and its rows have numbers of their own, and that what is logged is not about to expire.
`AskedAssumption` says that a page that is asked for is at least the first:
`pages.go:412` replaces any other number.

The limiter.  `AdmittedBounded` speaks of the past and is not inductive.  `IInv` adds
where the past is kept: the window that is open has used `counts[s]` of the allowance of
its latest opening (`AllowanceUsed`), a window cannot be opened twice without a reversal
in between (`OpenedBounded`), and what is left in `refusals` is the newest refusal of
each source in order (`RefusalsTracked`).

The pipeline.  `RecordsAccounted` is inductive with `TypeOK`: the steps move the boundary
between log, batch and channel, which are one sequence (`Trail`).  `BatchBounded` and
`DrainComplete` need `WriterInv`: a flush is never empty, and from the moment the drain
has found the channel empty only records sent after the cancellation are in it.  The
refinement maps batch and channel to the queue of `QueryLog`; `Take` and the drain's moves
are stutters, a commit is `Commit(Len(buf))`.  The lemmas about concatenation are stated
once at the head of the module.

The lifecycle.  `ErrInv`: until somebody takes it, the first error that was ever sent is
at the head of `errCh`, and `runErr` is that error or none; the context is cancelled only
after a signal or after something was sent.  `WebInv` says what each place of the hook
has behind it: the shutdown, then the end of the requests and `backgroundCancel`, then
the end of the job's work; and that a web server that did listen ends behind its hook.

The live stream.  `BatchInv`: what `pollOnce` has fetched is the ids after the cursor it
began with.  `CloseInv` ties the channels' closes to the subscribers and to the place of
the hub.  `SentInv`: what a handler has sent is no newer than its cursor.  `FlowInv`, for
`StreamComplete`: a channel holds the ids from a position to the hub's cursor, without a
gap, and what is wanted before the position has been sent.

The lists.  `CachingInv`: a list that is being written has been fetched.  `JobInv` relates
the flag, the counter of the `WaitGroup`, the job and the shutdown.  `StatusInv`: a refresh
about to be recorded as a success has stored its result.  `SavedInv` says of each job at
work what `SurvivesRestart` says of the classification, but for the list that it is about to
write: the swap then hands it on.  `OutInv`: no job has a list among its sources that stays
out, nor a domain of it in what it has merged, and no such list is enabled.  `MergeInv`: a
job has merged what it fetched, the last name winning, and what is still to be fetched comes
no earlier by name, so that one more list keeps it (`OneMoreMerged`); a job whose sources are
still the enabled lists and whose fetches have not failed has all of them when nothing is
left to do.  `BootInv`, that no job but `main`'s own runs before the workers do, is needed
for the load at the start.  `StepKinds` puts the steps that are no part of a refresh aside,
once for the last three.

Device discovery.  Where a discovery can be is one conserved set (`Accounted`); it needs
that channel and batch are sequences (`SeqInv`), nothing else.  `DrainComplete` needs
`DrainInv`: from the step that finds the channel empty on, all that it holds came `late`,
and the batch is empty when the writer goes to its end.  That nothing is there twice needs
more: that no discovery is ever saved again.  `FreshInv` says why.  A packet has a time that
nobody had before; the entries of one poll share a time, and differ by their addresses
because the ARP table lists an address once.  `PartsInv` follows: channel, batch and failed
batches are disjoint and without repetition, so that their lengths add up.  `OrderInv`
orders them: all that is stored was saved before all in the batch, and that before all in
the channel.  Until something has passed the channel by, a handler writes directly only
when the device writer has returned, which is why `writerActive` may not become false
before the drain.  `RowsInv` says of all rows at once what `RowsAgree` says of one, and that
a device without a row has no label.  `RowsGrown` is one upsert; that a transaction's fold
is its upserts one after the other is `FoldIs`.  It unfolds the community modules' fold
into the function that it computes with, and compares that function with the rows of every
part of the batch; the smallest part for which they differ, which would exist because the
parts are finite, leads to a contradiction.  In this way an induction over data is within
reach of the provers where the fold is over a set of positions.

Overrides and settings.  `SettledInv`: a domain that is not in doubt has at most one call
between its two writes, that call has the row's category, and without it map and row
agree.  `WakeInv` adds to `NoLostWake` that the default is the one of the settings page as
long as there is no row.

The store.  `StoreInv`: counts and rows agree (`CountsInv`), even before `Open` unless there
are no counts yet; each transaction adds to both what `GroupsAdd` says.  `LogInv` keeps the
rows finite and numbered below `nextID`; `PlaceInv` keeps writer and purge apart by the
lock; `PurgedInv` keeps a purge that said "done" true, which needs that nothing old is
logged.

The reads.  The properties of `Activity` speak of the end of a request, and others go on
between its reads, so each needs what is known after every read.  `ActivityInv` has the
shape of a request, and that what the writer has in hand is not a day old; a lemma
(`RowsStay`) says what others can do meanwhile: without `gone` the rows of the day only get
more, and while `calm` they stay.  On it rest `PageInv` (the roster is at most the total,
and on a calm page they count the same rows), `ReachInv` (the largest reach is at most the
number of devices and sources *then*, and that number only grows), `SpikeInv` (a spike that
holds keeps holding, some domain leads it, and a leader explains the sum) and `RowsInv`
(the caption is that of a number of domains that only gets larger).  That `ORDER BY` has a
result at all (`OrderExists`), and puts every domain at the place of its rank
(`PlaceIsRank`), is proved by the smallest counterexample, like the sums over the hourly
counts that the charts are (`SumIs`).  `FiltersAgree` needs no invariant.

The types of both (`ActivityTypeCorrect`).  `NumbersInv`: there are fewer rows than numbers
have been given, and a batch takes the next ones, so that no count exceeds `nextID` and no
two rows have the same number.  `StepsInv` bounds the chunk; `FormInv` says what the fields
of a request hold, which for the list of domains rests on `PageIs`.

The pool.  As long as the calls of `DeviceAnomalies` are fewer than the connections, not
every connection can be held by one that waits for a second.

Each of these invariants holds on the instance of its run, where TLC has checked it before
it was proved.

Only model-checked: all liveness, and with it `EventuallyAnnounced`, `EventuallyDelivered`,
`EventuallyKnown`, `CloseCompletes` and every `ShutdownCompletes`, which is beyond the
prover.  Every safety property that a passing run checks is a theorem.

## Not modelled

- Data whose meaning no other part depends on: the contents of records and messages,
  parsing and formatting, templates, the parsers of lists and of discovery packets.
- The HTTP guards (host, origin, size of the body), which are functions of one request.
- Of the analytics: trends and percentages, bypass signals, and the attribution of a
  domain to a list.  They are arithmetic on the counts that
  `Activity` models; flags and labels on the pages are left out with them.
- `SetSourceLabel`, one statement on a table of its own; the configuration file, which is
  read once; the demo data, which are written before the web server starts.
- The OUI table: `oui_data.go` is generated and is 39,124 of the 46,057 lines of the
  implementation.  `DeviceTracker` has the lookup as the constant `Vendor`.
- SQLite, `database/sql`, `net/http` and `miekg/dns` are external and appear as the code
  uses them.

## Plan

1. A composition of `Pipeline`, `QueryStream` and `QueryStore` in an abstract form: from
   the answered query to the browser.
2. A proof that what an anomaly is blamed on is the leader of its day and not only some
   domain that explains it.
3. The trends of an actor as operators, against a reference.
