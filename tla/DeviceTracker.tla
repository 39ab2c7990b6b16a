---------------------------- MODULE DeviceTracker ----------------------------
(***************************************************************************)
(* Device discovery (internal/device): Tracker.Run polls the ARP table,    *)
(* three listeners take DHCP, mDNS and SSDP packets, and each of them      *)
(* saves what it finds, through the channel deviceWrites while the device  *)
(* writer is active and the channel has room, and directly otherwise.  The *)
(* device writer collects batches and writes them to the table devices     *)
(* (internal/store/db.go), whose labels the web server edits.              *)
(*                                                                         *)
(* A packet without a usable name or address changes nothing and is not    *)
(* modelled.  Times are the numbers of the calls of time.Now.              *)
(***************************************************************************)
EXTENDS Naturals, Sequences, FiniteSets, SequencesExt

CONSTANTS Macs, Ips, Hosts, Vendors, Labels,
          Vendor,      \* Vendor[m]: what the OUI table says
          ArpTables,   \* contents of /proc/net/arp; the empty one also stands for a failed read
          DhcpRequests, \* requests that name a host; Empty if the client has no address
          Empty,       \* the empty string
          ChanCap,     \* capacity of deviceWrites (1024)
          BatchSize,   \* deviceBatchSize (64)
          WritesFail, ListenersFail,  \* which errors occur
          MaxClock,    \* bound: calls of time.Now, one for each packet and each poll
          MaxLabels    \* bound: edits of labels

Listeners == {"dhcp", "mdns", "ssdp"}
Handlers == Listeners \cup {"arp"}

ASSUME TrackerAssumption ==
    /\ Empty \notin Macs \cup Ips \cup Hosts \cup Vendors \cup Labels
    /\ Vendor \in [Macs -> Vendors \cup {Empty}]
    \* an address is listed once
    /\ ArpTables \subseteq Seq([ip : Ips, mac : Macs])
    /\ \A t \in ArpTables : \A j, k \in DOMAIN t : t[j].ip = t[k].ip => j = k
    /\ DhcpRequests \subseteq [mac : Macs, ip : Ips \cup {Empty}, host : Hosts]
    /\ ChanCap \in Nat \ {0} /\ BatchSize \in Nat \ {0}
    /\ WritesFail \in BOOLEAN /\ ListenersFail \in BOOLEAN
    /\ MaxClock \in Nat \ {0} /\ MaxLabels \in Nat

VARIABLES
    ctxDone,       \* the context of Run is cancelled
    arpCache,      \* arpCache: IP -> MAC
    at,            \* where each goroutine that discovers devices is
    dev,           \* the device that it is saving
    todo, pollNow, \* pollARP: the entries left, and its now
    deviceWrites,  \* the channel
    writerActive,
    writer,        \* where the device writer is
    buf,           \* its batch
    devices,       \* the committed rows
    clock, relabels, \* bounds
    \* What the properties remember of the past:
    saved,         \* the discoveries, in the order in which they were sent or written
    stored,        \* those that were committed, in the order of their statements
    lost,          \* those whose transaction failed
    late,          \* those sent after the drain saw an empty channel
    bypassed,      \* a discovery passed the channel by, which was full or not in use yet
    given          \* the latest label given to each device

handlerVars == <<arpCache, at, dev, todo, pollNow, clock>>
histVars == <<saved, stored, lost, late, bypassed, given>>
vars == <<ctxDone, handlerVars, deviceWrites, writerActive, writer, buf, devices, relabels, histVars>>

Discovery == [mac : Macs, ip : Ips \cup {Empty}, host : Hosts \cup {Empty},
              vendor : Vendors \cup {Empty}, seen : 1..MaxClock]
NoRow == [first |-> 0]
NoDev == [seen |-> 0]
Known(m) == devices[m] # NoRow

Init ==
    /\ ctxDone = FALSE
    /\ arpCache = [i \in Ips |-> Empty]
    /\ at = [h \in Handlers |-> IF h = "arp" THEN "start" ELSE "off"]
    /\ dev = [h \in Handlers |-> NoDev]
    /\ todo = <<>> /\ pollNow = 0
    /\ deviceWrites = <<>> /\ writerActive = FALSE
    /\ writer = "start" /\ buf = <<>>
    /\ devices = [m \in Macs |-> NoRow]
    /\ clock = 0 /\ relabels = 0
    /\ saved = <<>> /\ stored = <<>> /\ lost = {} /\ late = {}
    /\ bypassed = FALSE /\ given = [m \in Macs |-> Empty]

-----------------------------------------------------------------------------
\* The table devices.

\* Mutant: a discovery that does not know a field empties it.
Overwrite(new, old) == new

\* COALESCE(NULLIF(new, ''), old).
Coalesce(new, old) == IF new = Empty THEN old ELSE new

NewRow(d) == [ip |-> d.ip, host |-> d.host, vendor |-> d.vendor, label |-> Empty,
              first |-> d.seen, last |-> d.seen]
Merged(row, d) == [row EXCEPT !.ip = Coalesce(d.ip, @), !.host = Coalesce(d.host, @),
                              !.vendor = Coalesce(d.vendor, @), !.last = d.seen]

\* upsertDeviceSQL.
Upsert(rows, d) == [rows EXCEPT ![d.mac] = IF @ = NoRow THEN NewRow(d) ELSE Merged(@, d)]

\* UpsertDevices: all or nothing.
UpsertDevices(ds) ==
    \/ /\ devices' = FoldLeft(Upsert, devices, ds)
       /\ stored' = stored \o ds
       /\ UNCHANGED lost
    \/ /\ WritesFail
       /\ lost' = lost \cup ToSet(ds)
       /\ UNCHANGED <<devices, stored>>

\* A request that gives a device of the table a label; for any other it is ErrNotFound.
UpdateDeviceLabel ==
    /\ relabels < MaxLabels
    /\ \E m \in Macs, l \in Labels :
         /\ Known(m)
         /\ devices' = [devices EXCEPT ![m].label = l]
         /\ given' = [given EXCEPT ![m] = l]
    /\ relabels' = relabels + 1
    /\ UNCHANGED <<ctxDone, handlerVars, deviceWrites, writerActive, writer, buf,
                   saved, stored, lost, late, bypassed>>

-----------------------------------------------------------------------------
\* What is found.

Found(h, m, i, n, v, t) ==
    /\ dev' = [dev EXCEPT ![h] = [mac |-> m, ip |-> i, host |-> n, vendor |-> v, seen |-> t]]
    /\ at' = [at EXCEPT ![h] = "save"]

\* A packet for one of the listeners.
Packet(h) ==
    /\ at[h] = "idle" /\ clock < MaxClock
    /\ clock' = clock + 1
    /\ UNCHANGED <<ctxDone, todo, pollNow, deviceWrites, writerActive, writer, buf, devices,
                   relabels, histVars>>

\* parseDHCP: the address, if the client has one, goes into the cache first.
ParseDHCP ==
    /\ Packet("dhcp")
    /\ \E r \in DhcpRequests :
         /\ arpCache' = IF r.ip = Empty THEN arpCache ELSE [arpCache EXCEPT ![r.ip] = r.mac]
         /\ Found("dhcp", r.mac, r.ip, r.host, Empty, clock + 1)

\* parseMDNS: only for an address that the cache knows.
ParseMDNS ==
    /\ Packet("mdns")
    /\ \E i \in Ips, n \in Hosts :
         /\ arpCache[i] # Empty
         /\ Found("mdns", arpCache[i], Empty, n, Empty, clock + 1)
    /\ UNCHANGED arpCache

\* upsertFromSSDP: nothing but the presence of the device.
UpsertFromSSDP ==
    /\ Packet("ssdp")
    /\ \E i \in Ips :
         /\ arpCache[i] # Empty
         /\ Found("ssdp", arpCache[i], Empty, Empty, Empty, clock + 1)
    /\ UNCHANGED arpCache

\* pollARP, at the start of Run and whenever its ticker fires.
PollBegin ==
    /\ at["arp"] \in {"start", "idle"} /\ clock < MaxClock
    /\ todo' \in ArpTables
    /\ clock' = clock + 1 /\ pollNow' = clock + 1
    /\ at' = [at EXCEPT !["arp"] = "poll"]
    /\ UNCHANGED <<ctxDone, arpCache, dev, deviceWrites, writerActive, writer, buf, devices,
                   relabels, histVars>>

PollEntry ==
    /\ at["arp"] = "poll" /\ todo # <<>>
    /\ LET e == Head(todo)
       IN /\ arpCache' = [arpCache EXCEPT ![e.ip] = e.mac]
          /\ Found("arp", e.mac, e.ip, Empty, Vendor[e.mac], pollNow)
    /\ todo' = Tail(todo)
    /\ UNCHANGED <<ctxDone, pollNow, clock, deviceWrites, writerActive, writer, buf, devices,
                   relabels, histVars>>

\* The first poll is over before Run starts the listeners.
PollEnd ==
    /\ at["arp"] = "poll" /\ todo = <<>>
    /\ at' = [h \in Handlers |-> IF h = "arp" \/ at[h] = "off" THEN "idle" ELSE at[h]]
    /\ pollNow' = 0
    /\ UNCHANGED <<ctxDone, arpCache, dev, todo, clock, deviceWrites, writerActive, writer,
                   buf, devices, relabels, histVars>>

-----------------------------------------------------------------------------
\* saveDiscoveredDevice(dev[h]).

Saved(h) ==
    /\ at' = [at EXCEPT ![h] = IF h = "arp" THEN "poll" ELSE "idle"]
    /\ dev' = [dev EXCEPT ![h] = NoDev]

LoadActive(h) ==
    /\ at[h] = "save"
    /\ at' = [at EXCEPT ![h] = IF writerActive THEN "send" ELSE "write"]
    /\ bypassed' = (bypassed \/ writer = "start")
    /\ UNCHANGED <<ctxDone, arpCache, dev, todo, pollNow, clock, deviceWrites, writerActive, writer,
                   buf, devices, relabels, saved, stored, lost, late, given>>

HasRoom == Len(deviceWrites) < ChanCap

\* The writer has stopped reading: a drain that saw an empty channel only has its batch left.
Drained == writer \in {"last", "stop", "returned"}

Send(h) ==
    /\ at[h] = "send" /\ HasRoom
    /\ deviceWrites' = Append(deviceWrites, dev[h])
    /\ saved' = Append(saved, dev[h])
    /\ late' = IF Drained THEN late \cup {dev[h]} ELSE late
    /\ Saved(h)
    /\ UNCHANGED <<ctxDone, arpCache, todo, pollNow, clock, writerActive, writer, buf, devices,
                   relabels, stored, lost, bypassed, given>>

\* Mutant: the discovery is dropped.
DropWhenFull(h) ==
    /\ at[h] = "send" /\ ~ HasRoom
    /\ Saved(h)
    /\ saved' = Append(saved, dev[h])
    /\ UNCHANGED <<ctxDone, arpCache, todo, pollNow, clock, deviceWrites, writerActive, writer, buf,
                   devices, relabels, stored, lost, late, bypassed, given>>

\* Mutant: the send waits.
WaitWhenFull(h) == FALSE /\ UNCHANGED vars

\* default: of the select.
Full(h) ==
    /\ at[h] = "send" /\ ~ HasRoom
    /\ at' = [at EXCEPT ![h] = "write"]
    /\ bypassed' = TRUE
    /\ UNCHANGED <<ctxDone, arpCache, dev, todo, pollNow, clock, deviceWrites, writerActive, writer,
                   buf, devices, relabels, saved, stored, lost, late, given>>

UpsertDevice(h) ==
    /\ at[h] = "write"
    /\ UpsertDevices(<<dev[h]>>)
    /\ saved' = Append(saved, dev[h])
    /\ Saved(h)
    /\ UNCHANGED <<ctxDone, arpCache, todo, pollNow, clock, deviceWrites, writerActive, writer, buf,
                   relabels, late, bypassed, given>>

-----------------------------------------------------------------------------
\* runDeviceWriter.

Activate ==
    /\ writer = "start"
    /\ writer' = "loop" /\ writerActive' = TRUE
    /\ UNCHANGED <<ctxDone, handlerVars, deviceWrites, buf, devices, relabels, histVars>>

\* A receive, in the loop or in the drain; the batch may be full then.
Take ==
    /\ writer \in {"loop", "drain"} /\ deviceWrites # <<>>
    /\ buf' = Append(buf, Head(deviceWrites))
    /\ deviceWrites' = Tail(deviceWrites)
    /\ writer' = IF Len(buf') < BatchSize THEN writer
                 ELSE IF writer = "loop" THEN "flush" ELSE "drainflush"
    /\ UNCHANGED <<ctxDone, handlerVars, writerActive, devices, relabels, histVars>>

\* Mutant: the ticker is ignored.
NoTick == FALSE /\ UNCHANGED vars

TickFlush ==
    /\ writer = "loop" /\ buf # <<>>
    /\ writer' = "flush"
    /\ UNCHANGED <<ctxDone, handlerVars, deviceWrites, writerActive, buf, devices, relabels, histVars>>

\* Mutant: the writer calls itself inactive before it drains.
InactiveAtOnce ==
    /\ writer = "loop" /\ ctxDone
    /\ writer' = "drain" /\ writerActive' = FALSE
    /\ UNCHANGED <<ctxDone, handlerVars, deviceWrites, buf, devices, relabels, histVars>>

SeeDone ==
    /\ writer = "loop" /\ ctxDone
    /\ writer' = "drain"
    /\ UNCHANGED <<ctxDone, handlerVars, deviceWrites, writerActive, buf, devices, relabels, histVars>>

\* default: of the drain.
DrainEnds ==
    /\ writer = "drain" /\ deviceWrites = <<>>
    /\ writer' = IF buf = <<>> THEN "stop" ELSE "last"
    /\ UNCHANGED <<ctxDone, handlerVars, deviceWrites, writerActive, buf, devices, relabels, histVars>>

\* Mutant: one batch is all that the drain writes.
AfterOneBatch == [flush |-> "loop", drainflush |-> "stop", last |-> "stop"]

\* Where the writer goes on: in its loop, in the drain, or to the end.
AfterFlush == [flush |-> "loop", drainflush |-> "drain", last |-> "stop"]

\* flush: the batch is emptied whether or not it could be written.
Flush ==
    /\ writer \in DOMAIN AfterFlush
    /\ UpsertDevices(buf)
    /\ buf' = <<>>
    /\ writer' = AfterFlush[writer]
    /\ UNCHANGED <<ctxDone, handlerVars, deviceWrites, writerActive, relabels, saved, late,
                   bypassed, given>>

Deactivate ==
    /\ writer = "stop"
    /\ writer' = "returned" /\ writerActive' = FALSE
    /\ UNCHANGED <<ctxDone, handlerVars, deviceWrites, buf, devices, relabels, histVars>>

-----------------------------------------------------------------------------
Cancel ==
    /\ ~ ctxDone
    /\ ctxDone' = TRUE
    /\ UNCHANGED <<handlerVars, deviceWrites, writerActive, writer, buf, devices, relabels, histVars>>

Returned(h) ==
    /\ at[h] = "idle"
    /\ at' = [at EXCEPT ![h] = "returned"]
    /\ UNCHANGED <<ctxDone, arpCache, dev, todo, pollNow, clock, deviceWrites, writerActive, writer,
                   buf, devices, relabels, histVars>>

\* A listener whose connection is closed, or fails, returns for good; Run's loop ends with the context.
ListenerStops(h) == (ctxDone \/ ListenersFail) /\ Returned(h)
RunStops == ctxDone /\ Returned("arp")

Save(h) == LoadActive(h) \/ Send(h) \/ Full(h) \/ UpsertDevice(h)
Writer == Activate \/ Take \/ TickFlush \/ SeeDone \/ DrainEnds \/ Flush \/ Deactivate
Discover == ParseDHCP \/ ParseMDNS \/ UpsertFromSSDP \/ PollBegin

Next ==
    \/ Discover \/ PollEntry \/ PollEnd
    \/ \E h \in Handlers : Save(h)
    \/ Writer \/ UpdateDeviceLabel \/ Cancel
    \/ \E h \in Listeners : ListenerStops(h)
    \/ RunStops

Spec == Init /\ [][Next]_vars

\* Every goroutine is scheduled, the ticker fires, and a done context is seen.
\* Nothing says that packets come, that anybody edits or that the context ends.
FairSpec ==
    /\ Spec
    /\ WF_vars(at["arp"] = "start" /\ PollBegin) /\ WF_vars(PollEntry) /\ WF_vars(PollEnd)
    /\ \A h \in Handlers : WF_vars(Save(h))
    /\ WF_vars(Activate) /\ WF_vars(Take) /\ WF_vars(Flush) /\ WF_vars(TickFlush)
    /\ WF_vars(SeeDone) /\ WF_vars(DrainEnds) /\ WF_vars(Deactivate)
    /\ \A h \in Listeners : WF_vars(ctxDone /\ Returned(h))
    /\ WF_vars(RunStops)
-----------------------------------------------------------------------------
\* Types: the channel keeps to its capacity, and a batch to its size (runDeviceWriter).
\* What the rows are, RowsAgree says.
TypeOK ==
    /\ ctxDone \in BOOLEAN /\ writerActive \in BOOLEAN /\ bypassed \in BOOLEAN
    /\ arpCache \in [Ips -> Macs \cup {Empty}]
    /\ at \in [Handlers -> {"off", "start", "idle", "poll", "save", "send", "write", "returned"}]
    /\ \A h \in Handlers : IF at[h] \in {"save", "send", "write"} THEN dev[h] \in Discovery
                           ELSE dev[h] = NoDev
    /\ todo \in Seq([ip : Ips, mac : Macs]) /\ pollNow \in 0..MaxClock /\ clock \in 0..MaxClock
    /\ deviceWrites \in Seq(Discovery) /\ Len(deviceWrites) <= ChanCap
    /\ writer \in {"start", "loop", "drain", "stop", "returned"} \cup DOMAIN AfterFlush
    /\ buf \in Seq(Discovery) /\ Len(buf) <= BatchSize
    /\ relabels \in 0..MaxLabels
    /\ saved \in Seq(Discovery) /\ stored \in Seq(Discovery)
    /\ lost \subseteq Discovery /\ late \subseteq Discovery
    /\ given \in [Macs -> Labels \cup {Empty}]

Accounted == ToSet(saved) = ToSet(deviceWrites) \cup ToSet(buf) \cup ToSet(stored) \cup lost

\* saveDiscoveredDevice never drops a discovery ("write synchronously rather than drop"):
\* whatever was saved is in exactly one of the channel, the batch, the table, and the
\* batches that could not be written.
DiscoveriesAccounted ==
    /\ Accounted
    /\ Len(saved) = Len(deviceWrites) + Len(buf) + Len(stored) + Cardinality(lost)

\* The device writer leaves nothing in its batch, and in the channel only what was sent
\* after its drain had found the channel empty (runDeviceWriter, ctx.Done).
DrainComplete ==
    writer \in {"stop", "returned"} => buf = <<>> /\ ToSet(deviceWrites) \subseteq late

\* d was saved before e, whenever they were saved.
Precedes(d, e) == \A a, b \in DOMAIN saved : saved[a] = d /\ saved[b] = e => a < b

\* As long as no discovery has passed the channel by, because it was full or because the
\* device writer was not active yet, discoveries reach the table in the order in which they
\* were saved, through batches and through the end of the device writer: a device's name
\* and last_seen do not go back to those of an earlier save (saveDiscoveredDevice).
InOrder == bypassed \/ \A j, k \in DOMAIN stored : j < k => Precedes(stored[j], stored[k])

LastOf(m, f) ==
    LET S == {i \in DOMAIN stored : stored[i].mac = m /\ stored[i][f] # Empty}
    IN  IF S = {} THEN Empty ELSE stored[Max(S)][f]

\* A row puts together what the four sources know of a device: each field is the latest
\* that was stored with a value, the label is the user's, and first_seen stays
\* (upsertDeviceSQL, UpdateDeviceLabel).
RowsAgree ==
    \A m \in Macs :
       LET S == {i \in DOMAIN stored : stored[i].mac = m}
       IN  devices[m] = IF S = {} THEN NoRow
                        ELSE [ip |-> LastOf(m, "ip"), host |-> LastOf(m, "host"),
                              vendor |-> LastOf(m, "vendor"), label |-> given[m],
                              first |-> stored[Min(S)].seen, last |-> stored[Max(S)].seen]

\* A device that queries are attributed to (ResolveIP) gets its row, although the row goes
\* through the channel and the batch, unless a discovery of it was in a failed
\* transaction or came after the drain.
EventuallyKnown ==
    \A m \in Macs : (\E i \in Ips : arpCache[i] = m)
                      ~> (Known(m) \/ \E d \in lost \cup late : d.mac = m)

\* Run returns after a cancellation, with the device writer and all listeners, although
\* the listeners still send when nobody receives (Run's wg.Wait).
ShutdownCompletes == ctxDone ~> (writer = "returned" /\ \A h \in Handlers : at[h] = "returned")
=============================================================================
