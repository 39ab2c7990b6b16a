------------------------- MODULE DeviceTrackerProofs -------------------------
(***************************************************************************)
(* What DeviceTracker guarantees for all devices and addresses, every      *)
(* channel and batch size, and however many packets come.                  *)
(*                                                                         *)
(* That nothing is saved twice or lost needs that every discovery is new   *)
(* (FreshInv), which comes from the clock and from the addresses of a      *)
(* poll; with it the parts that discoveries are in stay disjoint           *)
(* (PartsInv) and in the order of saving (OrderInv).  A row is what was    *)
(* stored of its device (RowsInv): the fold of a batch over the rows is    *)
(* that of its discoveries one by one (FoldIs, RowsGrown).                 *)
(***************************************************************************)
EXTENDS DeviceTracker, SequenceTheorems, FiniteSetTheorems, WellFoundedInduction, TLAPS

IsSeq(s) == s \in Seq(ToSet(s))

LEMMA SeqOfElements ==
  ASSUME NEW S, NEW s \in Seq(S)
  PROVE  IsSeq(s)
  <1>1. Len(s) \in Nat /\ s \in [1..Len(s) -> S]
        OBVIOUS
  <1>2. s \in [1..Len(s) -> ToSet(s)]
        BY <1>1 DEF ToSet
  <1>3. s \in UNION {[1..n -> ToSet(s)] : n \in Nat}
        BY <1>1, <1>2
  <1>4. Seq(ToSet(s)) = UNION {[1..n -> ToSet(s)] : n \in Nat}
        BY SeqDef, Zenon
  <1> QED BY <1>3, <1>4, Zenon DEF IsSeq

LEMMA SeqOfNothing ==
  ASSUME NEW s, s = <<>>
  PROVE  IsSeq(s) /\ ToSet(s) = {}
  <1>1. s \in Seq({}) /\ DOMAIN s = {}
        OBVIOUS
  <1>2. ToSet(s) = {}
        BY <1>1, Zenon DEF ToSet
  <1> QED BY <1>1, <1>2, Zenon DEF IsSeq

LEMMA SeqAppended ==
  ASSUME NEW s, IsSeq(s), NEW e
  PROVE  IsSeq(Append(s, e)) /\ ToSet(Append(s, e)) = ToSet(s) \cup {e}
  <1> DEFINE S == ToSet(s) \cup {e}
  <1>1. s \in Seq(S) /\ e \in S
        BY DEF IsSeq
  <1>2. Append(s, e) \in Seq(S) /\ Len(s) \in Nat /\ Len(Append(s, e)) = Len(s) + 1
        BY <1>1
  <1>3. IsSeq(Append(s, e))
        BY <1>2, SeqOfElements
  <1>4. \A i \in 1..Len(s) : Append(s, e)[i] = s[i]
        BY <1>1
  <1>5. Append(s, e)[Len(s) + 1] = e
        BY <1>1
  <1>6. DOMAIN s = 1..Len(s) /\ DOMAIN Append(s, e) = (1..Len(s)) \cup {Len(s) + 1}
        BY <1>1, <1>2
  <1>7. ToSet(Append(s, e)) = ToSet(s) \cup {e}
        BY <1>4, <1>5, <1>6, Zenon DEF ToSet
  <1> QED BY <1>3, <1>7

LEMMA SeqSplit ==
  ASSUME NEW s, IsSeq(s), s # <<>>
  PROVE  IsSeq(Tail(s)) /\ ToSet(s) = ToSet(Tail(s)) \cup {Head(s)}
  <1> DEFINE S == ToSet(s)
  <1>1. s \in Seq(S) /\ Len(s) \in Nat \ {0} /\ DOMAIN s = 1..Len(s)
        BY DEF IsSeq
  <1>2. Tail(s) \in Seq(S) /\ Len(Tail(s)) = Len(s) - 1 /\ DOMAIN Tail(s) = 1..Len(Tail(s))
        BY <1>1
  <1>3. IsSeq(Tail(s))
        BY <1>2, SeqOfElements
  <1>4. Head(s) = s[1] /\ \A i \in DOMAIN Tail(s) : Tail(s)[i] = s[i + 1] /\ i + 1 \in DOMAIN s
        BY <1>1, <1>2
  <1>5. \A i \in DOMAIN s : i = 1 \/ (i - 1 \in DOMAIN Tail(s) /\ s[i] = Tail(s)[i - 1])
        BY <1>1, <1>2
  <1>6. ToSet(s) \subseteq ToSet(Tail(s)) \cup {Head(s)}
        BY <1>4, <1>5 DEF ToSet
  <1>7. ToSet(Tail(s)) \cup {Head(s)} \subseteq ToSet(s)
        BY <1>1, <1>4 DEF ToSet
  <1> QED BY <1>3, <1>6, <1>7

LEMMA SeqJoined ==
  ASSUME NEW s, IsSeq(s), NEW t, IsSeq(t)
  PROVE  IsSeq(s \o t) /\ ToSet(s \o t) = ToSet(s) \cup ToSet(t)
  <1> DEFINE S == ToSet(s) \cup ToSet(t)
  <1>1. s \in Seq(S) /\ t \in Seq(S)
        BY DEF IsSeq
  <1>2. s \o t \in Seq(S) /\ Len(s) \in Nat /\ Len(t) \in Nat /\ Len(s \o t) = Len(s) + Len(t)
        BY <1>1
  <1>3. IsSeq(s \o t)
        BY <1>2, SeqOfElements
  <1>4. DOMAIN s = 1..Len(s) /\ DOMAIN t = 1..Len(t) /\ DOMAIN (s \o t) = 1..Len(s \o t)
        BY <1>1, <1>2
  <1>5. \A i \in DOMAIN s : i \in DOMAIN (s \o t) /\ (s \o t)[i] = s[i]
        BY <1>1, <1>2, <1>4
  <1>6. \A i \in DOMAIN t : i + Len(s) \in DOMAIN (s \o t) /\ (s \o t)[i + Len(s)] = t[i]
        BY <1>1, <1>2, <1>4
  <1>7. \A i \in DOMAIN (s \o t) : \/ i \in DOMAIN s /\ (s \o t)[i] = s[i]
                                   \/ i - Len(s) \in DOMAIN t /\ (s \o t)[i] = t[i - Len(s)]
        BY <1>1, <1>2, <1>4
  <1>8. ToSet(s) \cup ToSet(t) \subseteq ToSet(s \o t)
        BY <1>5, <1>6 DEF ToSet
  <1>9. ToSet(s \o t) \subseteq ToSet(s) \cup ToSet(t)
        BY <1>7 DEF ToSet
  <1> QED BY <1>3, <1>8, <1>9

LEMMA SeqOfOne ==
  ASSUME NEW e
  PROVE  IsSeq(<<e>>) /\ ToSet(<<e>>) = {e}
  <1>1. <<e>> \in Seq({e})
        OBVIOUS
  <1>2. DOMAIN <<e>> = {1} /\ <<e>>[1] = e
        OBVIOUS
  <1>3. ToSet(<<e>>) = {e}
        BY <1>2, Zenon DEF ToSet
  <1> QED BY <1>1, <1>3 DEF IsSeq

-----------------------------------------------------------------------------
SeqInv == IsSeq(deviceWrites) /\ IsSeq(buf) /\ IsSeq(saved) /\ IsSeq(stored)

\* Once the drain has found the channel empty, whatever is in it is late.
DrainInv ==
    /\ Drained => ToSet(deviceWrites) \subseteq late
    /\ writer \in {"stop", "returned"} => buf = <<>>

IInv == SeqInv /\ Accounted /\ DrainInv

\* A transaction stores the discoveries ds or loses them.
LEMMA UpsertCases ==
  ASSUME NEW ds, IsSeq(ds), IsSeq(stored), UpsertDevices(ds)
  PROVE  /\ IsSeq(stored')
         /\ ToSet(stored') \cup lost' = ToSet(stored) \cup lost \cup ToSet(ds)
  <1>1. CASE stored' = stored \o ds /\ lost' = lost
        BY <1>1, SeqJoined
  <1>2. CASE lost' = lost \cup ToSet(ds) /\ stored' = stored
        BY <1>2
  <1> QED BY <1>1, <1>2 DEF UpsertDevices

\* Steps that move no discovery and do not end the drain.
Quiet ==
    \/ Discover \/ PollEntry \/ PollEnd \/ UpdateDeviceLabel \/ Cancel
    \/ Activate \/ TickFlush \/ SeeDone
    \/ RunStops \/ \E h \in Handlers : LoadActive(h) \/ Full(h) \/ Returned(h)

LEMMA QuietUnchanged ==
  ASSUME Quiet \/ UNCHANGED vars
  PROVE  /\ UNCHANGED <<deviceWrites, buf, saved, stored, lost, late>>
         /\ writer' = writer \/ writer' \in {"loop", "flush", "drain"}
  <1>1. CASE Discover
        BY <1>1 DEF Discover, ParseDHCP, ParseMDNS, UpsertFromSSDP, Packet, PollBegin, histVars
  <1>2. CASE PollEntry \/ PollEnd \/ UpdateDeviceLabel \/ Cancel
        BY <1>2 DEF PollEntry, PollEnd, UpdateDeviceLabel, Cancel, histVars
  <1>3. CASE Activate \/ TickFlush \/ SeeDone
        BY <1>3 DEF Activate, TickFlush, SeeDone, histVars
  <1>4. CASE RunStops \/ \E h \in Handlers : LoadActive(h) \/ Full(h) \/ Returned(h)
        BY <1>4 DEF RunStops, LoadActive, Full, Returned, histVars
  <1>5. CASE UNCHANGED vars
        BY <1>5 DEF vars, histVars
  <1> QED BY <1>1, <1>2, <1>3, <1>4, <1>5 DEF Quiet

LEMMA Inductive == IInv /\ [Next]_vars => IInv'
  <1> SUFFICES ASSUME IInv, [Next]_vars PROVE IInv'
      OBVIOUS
  <1> USE DEF IInv, SeqInv, Accounted, DrainInv, Drained
  <1>1. ASSUME NEW h \in Handlers, Send(h) PROVE IInv'
    <2>1. /\ deviceWrites' = Append(deviceWrites, dev[h]) /\ saved' = Append(saved, dev[h])
          /\ late' = IF Drained THEN late \cup {dev[h]} ELSE late
          /\ UNCHANGED <<writer, buf, stored, lost>>
          BY <1>1 DEF Send
    <2>2. /\ IsSeq(deviceWrites') /\ ToSet(deviceWrites') = ToSet(deviceWrites) \cup {dev[h]}
          /\ IsSeq(saved') /\ ToSet(saved') = ToSet(saved) \cup {dev[h]}
          BY <2>1, SeqAppended
    <2> QED BY <2>1, <2>2
  <1>2. ASSUME NEW h \in Handlers, UpsertDevice(h) PROVE IInv'
    <2>1. /\ UpsertDevices(<<dev[h]>>) /\ saved' = Append(saved, dev[h])
          /\ UNCHANGED <<writer, buf, deviceWrites, late>>
          BY <1>2 DEF UpsertDevice
    <2>2. IsSeq(saved') /\ ToSet(saved') = ToSet(saved) \cup {dev[h]}
          BY <2>1, SeqAppended
    <2>3. IsSeq(<<dev[h]>>) /\ ToSet(<<dev[h]>>) = {dev[h]}
          BY SeqOfOne
    <2>4. /\ IsSeq(stored')
          /\ ToSet(stored') \cup lost' = ToSet(stored) \cup lost \cup {dev[h]}
          BY <2>1, <2>3, UpsertCases
    <2> QED BY <2>1, <2>2, <2>4
  <1>3. ASSUME Take PROVE IInv'
    <2>1. /\ deviceWrites # <<>> /\ buf' = Append(buf, Head(deviceWrites))
          /\ deviceWrites' = Tail(deviceWrites)
          /\ writer' \in {"loop", "drain", "flush", "drainflush"}
          /\ UNCHANGED <<saved, stored, lost>>
          BY <1>3 DEF Take, histVars
    <2>2. /\ IsSeq(buf') /\ ToSet(buf') = ToSet(buf) \cup {Head(deviceWrites)}
          /\ IsSeq(deviceWrites')
          /\ ToSet(deviceWrites) = ToSet(deviceWrites') \cup {Head(deviceWrites)}
          BY <2>1, SeqAppended, SeqSplit
    <2> QED BY <2>1, <2>2
  <1>4. ASSUME DrainEnds PROVE IInv'
    <2>1. /\ deviceWrites = <<>> /\ writer' = IF buf = <<>> THEN "stop" ELSE "last"
          /\ UNCHANGED <<deviceWrites, buf, saved, stored, lost, late>>
          BY <1>4 DEF DrainEnds, histVars
    <2>2. ToSet(deviceWrites) = {}
          BY <2>1, SeqOfNothing, Zenon
    <2> QED BY <2>1, <2>2
  <1>5. ASSUME Flush PROVE IInv'
    <2>1. /\ UpsertDevices(buf) /\ buf' = <<>>
          /\ writer \in {"flush", "drainflush", "last"} /\ writer' = AfterFlush[writer]
          /\ UNCHANGED <<deviceWrites, saved, late>>
          BY <1>5 DEF Flush, AfterFlush
    <2>2. /\ IsSeq(stored')
          /\ ToSet(stored') \cup lost' = ToSet(stored) \cup lost \cup ToSet(buf)
          BY <2>1, UpsertCases
    <2>3. IsSeq(buf') /\ ToSet(buf') = {}
          BY <2>1, SeqOfNothing, Zenon
    <2>4. writer # "last" => writer' \in {"loop", "drain"}
          BY <2>1 DEF AfterFlush
    <2>5. writer = "last" => ToSet(deviceWrites) \subseteq late
          OBVIOUS
    <2> QED BY <2>1, <2>2, <2>3, <2>4, <2>5
  <1>6. ASSUME Deactivate PROVE IInv'
        BY <1>6 DEF Deactivate, histVars
  <1>7. ASSUME Quiet \/ UNCHANGED vars PROVE IInv'
        BY <1>7, QuietUnchanged
  <1> QED BY <1>1, <1>2, <1>3, <1>4, <1>5, <1>6, <1>7
          DEF Next, Save, Writer, ListenerStops, Quiet, Handlers

LEMMA InvAlways == Spec => []IInv
  <1>1. Init => IInv
    <2> SUFFICES ASSUME Init PROVE IInv
        OBVIOUS
    <2>1. /\ deviceWrites = <<>> /\ buf = <<>> /\ saved = <<>> /\ stored = <<>>
          /\ lost = {} /\ writer = "start"
          BY DEF Init
    <2>2. /\ IsSeq(deviceWrites) /\ IsSeq(buf) /\ IsSeq(saved) /\ IsSeq(stored)
          /\ ToSet(deviceWrites) = {} /\ ToSet(buf) = {} /\ ToSet(saved) = {} /\ ToSet(stored) = {}
          BY <2>1, SeqOfNothing, Zenon
    <2> QED BY <2>1, <2>2 DEF IInv, SeqInv, Accounted, DrainInv, Drained
  <1> QED BY <1>1, Inductive, PTL DEF Spec

\* The device writer's drain leaves nothing behind that was sent before it ended.
THEOREM DrainCompleteAlways == Spec => []DrainComplete
  <1>1. IInv => DrainComplete
        BY DEF IInv, DrainInv, DrainComplete, Drained
  <1> QED BY <1>1, InvAlways, PTL

-----------------------------------------------------------------------------
\* The types.
States == {"off", "start", "idle", "poll", "save", "send", "write", "returned"}
Saving == {"save", "send", "write"}

\* A poll in progress knows when it began.
HandlerTypes ==
    /\ arpCache \in [Ips -> Macs \cup {Empty}]
    /\ at \in [Handlers -> States] /\ dev \in [Handlers -> Discovery \cup {NoDev}]
    /\ \A h \in Handlers : IF at[h] \in Saving THEN dev[h] \in Discovery ELSE dev[h] = NoDev
    /\ todo \in Seq([ip : Ips, mac : Macs]) /\ pollNow \in 0..MaxClock /\ clock \in 0..MaxClock
    /\ at["arp"] \in {"poll"} \cup Saving => pollNow # 0

WriterTypes ==
    /\ deviceWrites \in Seq(Discovery) /\ Len(deviceWrites) <= ChanCap
    /\ writer \in {"start", "loop", "drain", "stop", "returned", "flush", "drainflush", "last"}
    /\ buf \in Seq(Discovery) /\ Len(buf) <= BatchSize
    /\ writer \in {"start", "loop", "drain"} => Len(buf) < BatchSize

HistTypes ==
    /\ saved \in Seq(Discovery) /\ stored \in Seq(Discovery)
    /\ lost \subseteq Discovery /\ late \subseteq Discovery
    /\ given \in [Macs -> Labels \cup {Empty}] /\ bypassed \in BOOLEAN

Flags == ctxDone \in BOOLEAN /\ writerActive \in BOOLEAN /\ relabels \in 0..MaxLabels

TInv == HandlerTypes /\ WriterTypes /\ HistTypes /\ Flags

\* What handler h does to its own state keeps the types of all.
LEMMA HandlerStep ==
  ASSUME at \in [Handlers -> States], dev \in [Handlers -> Discovery \cup {NoDev}],
         \A k \in Handlers : IF at[k] \in Saving THEN dev[k] \in Discovery ELSE dev[k] = NoDev,
         NEW h \in Handlers, NEW a \in States, NEW d,
         at' = [at EXCEPT ![h] = a], dev' = [dev EXCEPT ![h] = d],
         IF a \in Saving THEN d \in Discovery ELSE d = NoDev
  PROVE  /\ at' \in [Handlers -> States] /\ dev' \in [Handlers -> Discovery \cup {NoDev}]
         /\ \A k \in Handlers : IF at'[k] \in Saving THEN dev'[k] \in Discovery ELSE dev'[k] = NoDev
         /\ at'[h] = a /\ \A k \in Handlers \ {h} : at'[k] = at[k]
  <1>1. at' \in [Handlers -> States] /\ dev' \in [Handlers -> Discovery \cup {NoDev}]
        OBVIOUS
  <1>2. ASSUME NEW k \in Handlers
        PROVE  IF at'[k] \in Saving THEN dev'[k] \in Discovery ELSE dev'[k] = NoDev
    <2>1. CASE k = h
      <3>1. at'[k] = a /\ dev'[k] = d
            BY <2>1
      <3> QED BY <3>1
    <2>2. CASE k # h
      <3>1. at'[k] = at[k] /\ dev'[k] = dev[k]
            BY <2>2
      <3> QED BY <3>1
    <2> QED BY <2>1, <2>2
  <1> QED BY <1>1, <1>2

\* A handler that has found a device.
LEMMA FoundTypes ==
  ASSUME HandlerTypes, NEW h \in Handlers, NEW m \in Macs, NEW i \in Ips \cup {Empty},
         NEW n \in Hosts \cup {Empty}, NEW v \in Vendors \cup {Empty}, NEW t \in 1..MaxClock,
         Found(h, m, i, n, v, t), arpCache' \in [Ips -> Macs \cup {Empty}],
         todo' \in Seq([ip : Ips, mac : Macs]), pollNow' = pollNow, clock' \in 0..MaxClock,
         h = "arp" => pollNow # 0
  PROVE  HandlerTypes'
  <1>1. [mac |-> m, ip |-> i, host |-> n, vendor |-> v, seen |-> t] \in Discovery
        BY DEF Discovery
  <1>2. /\ at \in [Handlers -> States] /\ dev \in [Handlers -> Discovery \cup {NoDev}]
        /\ \A k \in Handlers : IF at[k] \in Saving THEN dev[k] \in Discovery ELSE dev[k] = NoDev
        BY DEF HandlerTypes
  <1>3. /\ at' = [at EXCEPT ![h] = "save"] /\ "save" \in States /\ "save" \in Saving
        /\ dev' = [dev EXCEPT ![h] = [mac |-> m, ip |-> i, host |-> n, vendor |-> v, seen |-> t]]
        BY DEF Found, States, Saving
  <1>4. /\ at' \in [Handlers -> States] /\ dev' \in [Handlers -> Discovery \cup {NoDev}]
        /\ \A k \in Handlers : IF at'[k] \in Saving THEN dev'[k] \in Discovery ELSE dev'[k] = NoDev
        /\ at'[h] = "save" /\ \A k \in Handlers \ {h} : at'[k] = at[k]
        BY <1>1, <1>2, <1>3, HandlerStep
  <1>5. at'["arp"] \in {"poll"} \cup Saving => pollNow' # 0
    <2>1. CASE h = "arp"
          BY <2>1
    <2>2. CASE h # "arp"
      <3>1. at'["arp"] = at["arp"]
            BY <1>4, <2>2 DEF Handlers
      <3> QED BY <3>1 DEF HandlerTypes
    <2> QED BY <2>1, <2>2
  <1>6. pollNow' \in 0..MaxClock
        BY DEF HandlerTypes
  <1> QED BY <1>4, <1>5, <1>6 DEF HandlerTypes

LEMMA DiscoverTypes == HandlerTypes /\ (Discover \/ PollEntry \/ PollEnd) => HandlerTypes'
  <1> SUFFICES ASSUME HandlerTypes, Discover \/ PollEntry \/ PollEnd PROVE HandlerTypes'
      OBVIOUS
  <1>0. /\ arpCache \in [Ips -> Macs \cup {Empty}] /\ clock \in 0..MaxClock /\ pollNow \in 0..MaxClock
        /\ todo \in Seq([ip : Ips, mac : Macs]) /\ Empty \notin Macs /\ MaxClock \in Nat \ {0}
        BY TrackerAssumption DEF HandlerTypes, TrackerAssumption
  <1>1. CASE ParseDHCP
    <2>1. PICK r \in DhcpRequests :
             /\ arpCache' = IF r.ip = Empty THEN arpCache ELSE [arpCache EXCEPT ![r.ip] = r.mac]
             /\ Found("dhcp", r.mac, r.ip, r.host, Empty, clock + 1)
          BY <1>1 DEF ParseDHCP
    <2>2. r.mac \in Macs /\ r.ip \in Ips \cup {Empty} /\ r.host \in Hosts
          BY TrackerAssumption DEF TrackerAssumption
    <2>3. arpCache' \in [Ips -> Macs \cup {Empty}]
          BY <1>0, <2>1, <2>2
    <2>4. /\ clock' = clock + 1 /\ clock + 1 \in 1..MaxClock
          /\ UNCHANGED <<todo, pollNow>> /\ "dhcp" \in Handlers
          BY <1>0, <1>1 DEF ParseDHCP, Packet, Handlers, Listeners
    <2>5. clock' \in 0..MaxClock /\ todo' \in Seq([ip : Ips, mac : Macs])
          BY <1>0, <2>4
    <2> QED BY <2>1, <2>2, <2>3, <2>4, <2>5, FoundTypes
  <1>2. CASE ParseMDNS
    <2>1. PICK i \in Ips, n \in Hosts :
             arpCache[i] # Empty /\ Found("mdns", arpCache[i], Empty, n, Empty, clock + 1)
          BY <1>2 DEF ParseMDNS
    <2>2. arpCache[i] \in Macs
          BY <1>0, <2>1
    <2>3. /\ clock' = clock + 1 /\ clock + 1 \in 1..MaxClock
          /\ UNCHANGED <<todo, pollNow, arpCache>> /\ "mdns" \in Handlers
          BY <1>0, <1>2 DEF ParseMDNS, Packet, Handlers, Listeners
    <2>4. /\ clock' \in 0..MaxClock /\ todo' \in Seq([ip : Ips, mac : Macs])
          /\ arpCache' \in [Ips -> Macs \cup {Empty}]
          BY <1>0, <2>3
    <2> QED BY <2>1, <2>2, <2>3, <2>4, FoundTypes
  <1>3. CASE UpsertFromSSDP
    <2>1. PICK i \in Ips : arpCache[i] # Empty /\ Found("ssdp", arpCache[i], Empty, Empty, Empty, clock + 1)
          BY <1>3 DEF UpsertFromSSDP
    <2>2. arpCache[i] \in Macs
          BY <1>0, <2>1
    <2>3. /\ clock' = clock + 1 /\ clock + 1 \in 1..MaxClock
          /\ UNCHANGED <<todo, pollNow, arpCache>> /\ "ssdp" \in Handlers
          BY <1>0, <1>3 DEF UpsertFromSSDP, Packet, Handlers, Listeners
    <2>4. /\ clock' \in 0..MaxClock /\ todo' \in Seq([ip : Ips, mac : Macs])
          /\ arpCache' \in [Ips -> Macs \cup {Empty}]
          BY <1>0, <2>3
    <2> QED BY <2>1, <2>2, <2>3, <2>4, FoundTypes
  <1>4. CASE PollBegin
    <2>1. /\ todo' \in ArpTables /\ clock' = clock + 1 /\ pollNow' = clock + 1 /\ clock < MaxClock
          /\ at["arp"] \in {"start", "idle"} /\ at' = [at EXCEPT !["arp"] = "poll"]
          /\ UNCHANGED <<arpCache, dev>>
          BY <1>4 DEF PollBegin
    <2>2. todo' \in Seq([ip : Ips, mac : Macs])
          BY <2>1, TrackerAssumption DEF TrackerAssumption
    <2>3. clock' \in 0..MaxClock /\ pollNow' \in 0..MaxClock /\ pollNow' # 0
          BY <1>0, <2>1
    <2>4. at' \in [Handlers -> States]
          BY <2>1 DEF HandlerTypes, States
    <2>5. \A k \in Handlers : IF at'[k] \in Saving THEN dev'[k] \in Discovery ELSE dev'[k] = NoDev
          BY <2>1 DEF HandlerTypes, Saving
    <2> QED BY <2>1, <2>2, <2>3, <2>4, <2>5 DEF HandlerTypes
  <1>5. CASE PollEntry
    <2>1. Head(todo) \in [ip : Ips, mac : Macs] /\ Tail(todo) \in Seq([ip : Ips, mac : Macs])
      <3>1. todo # <<>>
            BY <1>5 DEF PollEntry
      <3> QED BY <1>0, <3>1, HeadTailProperties
    <2>2. Head(todo).ip \in Ips /\ Head(todo).mac \in Macs
          BY <2>1
    <2>3. /\ arpCache' = [arpCache EXCEPT ![Head(todo).ip] = Head(todo).mac]
          /\ Found("arp", Head(todo).mac, Head(todo).ip, Empty, Vendor[Head(todo).mac], pollNow)
          /\ todo' = Tail(todo) /\ UNCHANGED <<pollNow, clock>> /\ at["arp"] = "poll"
          BY <1>5 DEF PollEntry
    <2>4. pollNow # 0
          BY <2>3 DEF HandlerTypes
    <2>5. Vendor[Head(todo).mac] \in Vendors \cup {Empty}
          BY <2>2, TrackerAssumption DEF TrackerAssumption
    <2>6. pollNow \in 1..MaxClock /\ clock' \in 0..MaxClock /\ "arp" \in Handlers
          BY <1>0, <2>3, <2>4 DEF Handlers
    <2>7. arpCache' \in [Ips -> Macs \cup {Empty}]
          BY <1>0, <2>2, <2>3
    <2> QED BY <2>1, <2>2, <2>3, <2>4, <2>5, <2>6, <2>7, FoundTypes
  <1>6. CASE PollEnd
    <2>1. /\ at["arp"] = "poll" /\ pollNow' = 0 /\ UNCHANGED <<arpCache, dev, todo, clock>>
          /\ at' = [h \in Handlers |-> IF h = "arp" \/ at[h] = "off" THEN "idle" ELSE at[h]]
          BY <1>6 DEF PollEnd
    <2>2. at' \in [Handlers -> States] /\ at'["arp"] = "idle"
          BY <2>1 DEF HandlerTypes, States, Handlers
    <2>3. \A k \in Handlers : IF at'[k] \in Saving THEN dev'[k] \in Discovery ELSE dev'[k] = NoDev
      <3>1. ASSUME NEW k \in Handlers
            PROVE  IF at'[k] \in Saving THEN dev'[k] \in Discovery ELSE dev'[k] = NoDev
        <4>1. CASE at'[k] = "idle"
          <5>1. at[k] \notin Saving
                BY <2>1, <4>1 DEF Saving
          <5> QED BY <2>1, <4>1, <5>1 DEF HandlerTypes, Saving
        <4>2. CASE at'[k] = at[k]
              BY <2>1, <4>2 DEF HandlerTypes
        <4> QED BY <2>1, <4>1, <4>2
      <3> QED BY <3>1
    <2>4. pollNow' \in 0..MaxClock
          BY <1>0, <2>1
    <2> QED BY <1>0, <2>1, <2>2, <2>3, <2>4 DEF HandlerTypes, Saving
  <1> QED BY <1>1, <1>2, <1>3, <1>4, <1>5, <1>6 DEF Discover

\* The handler is done with its device, or goes on with it.
LEMMA SaveTypes ==
  ASSUME HandlerTypes, NEW h \in Handlers,
         \/ Saved(h) /\ at[h] \in Saving
         \/ \E a \in Saving : at[h] \in Saving /\ at' = [at EXCEPT ![h] = a] /\ dev' = dev
         \/ Returned(h),
         UNCHANGED <<arpCache, todo, pollNow, clock>>
  PROVE  HandlerTypes'
  <1>1. /\ at \in [Handlers -> States] /\ dev \in [Handlers -> Discovery \cup {NoDev}]
        /\ \A k \in Handlers : IF at[k] \in Saving THEN dev[k] \in Discovery ELSE dev[k] = NoDev
        /\ at["arp"] \in {"poll"} \cup Saving => pollNow # 0
        BY DEF HandlerTypes
  <1>2. PICK a \in States, d \in Discovery \cup {NoDev} :
           /\ at' = [at EXCEPT ![h] = a] /\ dev' = [dev EXCEPT ![h] = d]
           /\ IF a \in Saving THEN d \in Discovery ELSE d = NoDev
           /\ at[h] \in Saving \/ a = "returned"
           /\ a = "poll" => at[h] \in Saving
    <2>1. CASE Saved(h) /\ at[h] \in Saving
      <3>1. /\ at' = [at EXCEPT ![h] = IF h = "arp" THEN "poll" ELSE "idle"]
            /\ dev' = [dev EXCEPT ![h] = NoDev]
            BY <2>1 DEF Saved
      <3> QED BY <2>1, <3>1 DEF States, Saving
    <2>2. CASE \E a \in Saving : at[h] \in Saving /\ at' = [at EXCEPT ![h] = a] /\ dev' = dev
      <3>1. PICK a \in Saving : at[h] \in Saving /\ at' = [at EXCEPT ![h] = a] /\ dev' = dev
            BY <2>2
      <3>2. dev' = [dev EXCEPT ![h] = dev[h]] /\ dev[h] \in Discovery
        <4>1. dev = [k \in Handlers |-> dev[k]]
              BY <1>1
        <4> QED BY <1>1, <3>1, <4>1
      <3>3. a \in States /\ a # "poll"
            BY DEF States, Saving
      <3> QED BY <3>1, <3>2, <3>3
    <2>3. CASE Returned(h)
      <3>1. at[h] = "idle" /\ at' = [at EXCEPT ![h] = "returned"] /\ dev' = dev
            BY <2>3 DEF Returned
      <3>2. dev[h] = NoDev
            BY <1>1, <3>1 DEF Saving
      <3>3. dev' = [dev EXCEPT ![h] = NoDev]
        <4>1. dev = [k \in Handlers |-> dev[k]]
              BY <1>1
        <4> QED BY <3>1, <3>2, <4>1
      <3> QED BY <3>1, <3>3 DEF States, Saving
    <2> QED BY <2>1, <2>2, <2>3
  <1>3. /\ at' \in [Handlers -> States] /\ dev' \in [Handlers -> Discovery \cup {NoDev}]
        /\ \A k \in Handlers : IF at'[k] \in Saving THEN dev'[k] \in Discovery ELSE dev'[k] = NoDev
        /\ at'[h] = a /\ \A k \in Handlers \ {h} : at'[k] = at[k]
        BY <1>1, <1>2, HandlerStep
  <1>4. at'["arp"] \in {"poll"} \cup Saving => pollNow' # 0
    <2>1. CASE h = "arp"
          BY <1>1, <1>2, <1>3, <2>1 DEF Saving
    <2>2. CASE h # "arp"
      <3>1. at'["arp"] = at["arp"]
            BY <1>3, <2>2 DEF Handlers
      <3> QED BY <1>1, <3>1
    <2> QED BY <2>1, <2>2
  <1> QED BY <1>3, <1>4 DEF HandlerTypes

\* A transaction stores or loses discoveries.
LEMMA UpsertTypes ==
  ASSUME stored \in Seq(Discovery), lost \subseteq Discovery,
         NEW ds \in Seq(Discovery), UpsertDevices(ds)
  PROVE  stored' \in Seq(Discovery) /\ lost' \subseteq Discovery
  <1>1. ToSet(ds) \subseteq Discovery
        BY DEF ToSet
  <1>2. stored \o ds \in Seq(Discovery)
        OBVIOUS
  <1> QED BY <1>1, <1>2 DEF UpsertDevices

LEMMA TypeStep == TInv /\ [Next]_vars => TInv'
  <1> SUFFICES ASSUME TInv, [Next]_vars PROVE TInv'
      OBVIOUS
  <1>0. HandlerTypes /\ WriterTypes /\ HistTypes /\ Flags
        BY DEF TInv
  <1>1. CASE Discover \/ PollEntry \/ PollEnd
    <2>1. UNCHANGED <<ctxDone, deviceWrites, writerActive, writer, buf, relabels, histVars>>
          BY <1>1 DEF Discover, ParseDHCP, ParseMDNS, UpsertFromSSDP, Packet, PollBegin, PollEntry, PollEnd
    <2>2. HandlerTypes'
          BY <1>0, <1>1, DiscoverTypes
    <2>3. WriterTypes' /\ HistTypes' /\ Flags'
          BY <1>0, <2>1 DEF WriterTypes, HistTypes, Flags, histVars
    <2> QED BY <2>2, <2>3 DEF TInv
  <1>2. ASSUME NEW h \in Handlers, LoadActive(h) \/ Full(h) PROVE TInv'
    <2>1. /\ \E a \in Saving : at[h] \in Saving /\ at' = [at EXCEPT ![h] = a] /\ dev' = dev
          /\ UNCHANGED <<arpCache, todo, pollNow, clock>>
          BY <1>2 DEF LoadActive, Full, Saving
    <2>2. /\ UNCHANGED <<ctxDone, deviceWrites, writerActive, writer, buf, relabels, saved,
                         stored, lost, late, given>>
          /\ bypassed' \in BOOLEAN
          BY <1>2 DEF LoadActive, Full
    <2>3. HandlerTypes'
          BY <1>0, <2>1, SaveTypes
    <2>4. WriterTypes' /\ HistTypes' /\ Flags'
          BY <1>0, <2>2 DEF WriterTypes, HistTypes, Flags
    <2> QED BY <2>3, <2>4 DEF TInv
  <1>3. ASSUME NEW h \in Handlers, Send(h) PROVE TInv'
    <2>1. at[h] \in Saving /\ Saved(h) /\ UNCHANGED <<arpCache, todo, pollNow, clock>>
          BY <1>3 DEF Send, Saving
    <2>2. dev[h] \in Discovery
          BY <1>0, <2>1 DEF HandlerTypes
    <2>3. HandlerTypes'
          BY <1>0, <2>1, SaveTypes
    <2>4. /\ Len(deviceWrites) < ChanCap /\ deviceWrites' = Append(deviceWrites, dev[h])
          /\ saved' = Append(saved, dev[h]) /\ late' \in {late, late \cup {dev[h]}}
          /\ UNCHANGED <<ctxDone, writerActive, writer, buf, relabels, stored, lost, bypassed, given>>
          BY <1>3 DEF Send, HasRoom
    <2>5. deviceWrites' \in Seq(Discovery) /\ Len(deviceWrites') <= ChanCap
      <3>1. deviceWrites \in Seq(Discovery) /\ ChanCap \in Nat
            BY <1>0, TrackerAssumption DEF WriterTypes, TrackerAssumption
      <3> QED BY <2>2, <2>4, <3>1
    <2>6. WriterTypes'
          BY <1>0, <2>4, <2>5 DEF WriterTypes
    <2>7. saved' \in Seq(Discovery) /\ late' \subseteq Discovery
          BY <1>0, <2>2, <2>4 DEF HistTypes
    <2>8. HistTypes' /\ Flags'
          BY <1>0, <2>4, <2>7 DEF HistTypes, Flags
    <2> QED BY <2>3, <2>6, <2>8 DEF TInv
  <1>4. ASSUME NEW h \in Handlers, UpsertDevice(h) PROVE TInv'
    <2>1. at[h] \in Saving /\ Saved(h) /\ UNCHANGED <<arpCache, todo, pollNow, clock>>
          BY <1>4 DEF UpsertDevice, Saving
    <2>2. dev[h] \in Discovery
          BY <1>0, <2>1 DEF HandlerTypes
    <2>3. HandlerTypes'
          BY <1>0, <2>1, SaveTypes
    <2>4. /\ UpsertDevices(<<dev[h]>>) /\ saved' = Append(saved, dev[h])
          /\ UNCHANGED <<ctxDone, deviceWrites, writerActive, writer, buf, relabels, late, bypassed, given>>
          BY <1>4 DEF UpsertDevice
    <2>5. <<dev[h]>> \in Seq(Discovery)
          BY <2>2
    <2>6. stored' \in Seq(Discovery) /\ lost' \subseteq Discovery
          BY <1>0, <2>4, <2>5, UpsertTypes DEF HistTypes
    <2>7. saved' \in Seq(Discovery)
          BY <1>0, <2>2, <2>4 DEF HistTypes
    <2>8. WriterTypes' /\ HistTypes' /\ Flags'
          BY <1>0, <2>4, <2>6, <2>7 DEF WriterTypes, HistTypes, Flags
    <2> QED BY <2>3, <2>8 DEF TInv
  <1>5. ASSUME NEW h \in Handlers, Returned(h) PROVE TInv'
    <2>1. UNCHANGED <<arpCache, todo, pollNow, clock>>
          BY <1>5 DEF Returned
    <2>2. UNCHANGED <<ctxDone, deviceWrites, writerActive, writer, buf, relabels, histVars>>
          BY <1>5 DEF Returned
    <2>3. HandlerTypes'
          BY <1>0, <1>5, <2>1, SaveTypes
    <2>4. WriterTypes' /\ HistTypes' /\ Flags'
          BY <1>0, <2>2 DEF WriterTypes, HistTypes, Flags, histVars
    <2> QED BY <2>3, <2>4 DEF TInv
  <1>6. CASE UpdateDeviceLabel
    <2>1. /\ relabels < MaxLabels /\ relabels' = relabels + 1
          /\ \E m \in Macs, l \in Labels : given' = [given EXCEPT ![m] = l]
          /\ UNCHANGED <<ctxDone, handlerVars, deviceWrites, writerActive, writer, buf,
                         saved, stored, lost, late, bypassed>>
          BY <1>6 DEF UpdateDeviceLabel
    <2>2. given' \in [Macs -> Labels \cup {Empty}]
          BY <1>0, <2>1 DEF HistTypes
    <2>3. relabels' \in 0..MaxLabels
          BY <1>0, <2>1, TrackerAssumption DEF Flags, TrackerAssumption
    <2>4. HandlerTypes'
          BY <1>0, <2>1 DEF HandlerTypes, handlerVars
    <2>5. WriterTypes' /\ HistTypes' /\ Flags'
          BY <1>0, <2>1, <2>2, <2>3 DEF WriterTypes, HistTypes, Flags
    <2> QED BY <2>4, <2>5 DEF TInv
  <1>7. CASE Activate \/ TickFlush \/ SeeDone \/ DrainEnds \/ Deactivate \/ Cancel
    <2>1. /\ UNCHANGED <<handlerVars, deviceWrites, buf, relabels, histVars>>
          /\ \/ writer' \in {"stop", "last", "flush", "returned"}
             \/ writer' \in {"loop", "drain"} /\ writer \in {"start", "loop"}
             \/ writer' = writer
          /\ ctxDone' \in BOOLEAN /\ writerActive' \in BOOLEAN
          BY <1>0, <1>7 DEF Activate, TickFlush, SeeDone, DrainEnds, Deactivate, Cancel, Flags
    <2>2. WriterTypes'
          BY <1>0, <2>1 DEF WriterTypes
    <2>3. HandlerTypes'
          BY <1>0, <2>1 DEF HandlerTypes, handlerVars
    <2>4. HistTypes' /\ Flags'
          BY <1>0, <2>1 DEF HistTypes, Flags, histVars
    <2> QED BY <2>2, <2>3, <2>4 DEF TInv
  <1>8. CASE Take
    <2>1. /\ writer \in {"loop", "drain"} /\ deviceWrites # <<>>
          /\ buf' = Append(buf, Head(deviceWrites)) /\ deviceWrites' = Tail(deviceWrites)
          /\ writer' = IF Len(buf') < BatchSize THEN writer
                       ELSE IF writer = "loop" THEN "flush" ELSE "drainflush"
          /\ UNCHANGED <<ctxDone, handlerVars, writerActive, relabels, histVars>>
          BY <1>8 DEF Take
    <2>2. /\ deviceWrites \in Seq(Discovery) /\ Len(deviceWrites) <= ChanCap /\ ChanCap \in Nat
          /\ buf \in Seq(Discovery) /\ Len(buf) < BatchSize /\ BatchSize \in Nat
          BY <1>0, <2>1, TrackerAssumption DEF WriterTypes, TrackerAssumption
    <2>3. /\ Head(deviceWrites) \in Discovery /\ deviceWrites' \in Seq(Discovery)
          /\ Len(deviceWrites') = Len(deviceWrites) - 1 /\ Len(deviceWrites) \in Nat
          BY <2>1, <2>2, HeadTailProperties, LenProperties
    <2>4. buf' \in Seq(Discovery) /\ Len(buf') = Len(buf) + 1 /\ Len(buf) \in Nat
          BY <2>1, <2>2, <2>3
    <2>5. Len(deviceWrites') <= ChanCap /\ Len(buf') <= BatchSize
          BY <2>2, <2>3, <2>4
    <2>6. WriterTypes'
          BY <2>1, <2>3, <2>4, <2>5 DEF WriterTypes
    <2>7. HandlerTypes'
          BY <1>0, <2>1 DEF HandlerTypes, handlerVars
    <2>8. HistTypes' /\ Flags'
          BY <1>0, <2>1 DEF HistTypes, Flags, histVars
    <2> QED BY <2>6, <2>7, <2>8 DEF TInv
  <1>9. CASE Flush
    <2>1. /\ UpsertDevices(buf) /\ buf' = <<>> /\ writer \in {"flush", "drainflush", "last"}
          /\ writer' = AfterFlush[writer]
          /\ UNCHANGED <<ctxDone, handlerVars, deviceWrites, writerActive, relabels, saved, late,
                         bypassed, given>>
          BY <1>9 DEF Flush, AfterFlush
    <2>2. stored' \in Seq(Discovery) /\ lost' \subseteq Discovery
          BY <1>0, <2>1, UpsertTypes DEF HistTypes, WriterTypes
    <2>3. writer' \in {"loop", "drain", "stop"}
          BY <2>1 DEF AfterFlush
    <2>4. buf' \in Seq(Discovery) /\ Len(buf') = 0
          BY <2>1
    <2>5. Len(buf') < BatchSize /\ Len(buf') <= BatchSize
          BY <2>4, TrackerAssumption DEF TrackerAssumption
    <2>6. WriterTypes'
          BY <1>0, <2>1, <2>3, <2>4, <2>5 DEF WriterTypes
    <2>7. HandlerTypes'
          BY <1>0, <2>1 DEF HandlerTypes, handlerVars
    <2>8. HistTypes' /\ Flags'
          BY <1>0, <2>1, <2>2 DEF HistTypes, Flags
    <2> QED BY <2>6, <2>7, <2>8 DEF TInv
  <1>10. CASE UNCHANGED vars
    <2>1. HandlerTypes'
          BY <1>0, <1>10 DEF HandlerTypes, vars, handlerVars
    <2>2. WriterTypes' /\ HistTypes' /\ Flags'
          BY <1>0, <1>10 DEF WriterTypes, HistTypes, Flags, vars, histVars
    <2> QED BY <2>1, <2>2 DEF TInv
  <1> QED BY <1>1, <1>2, <1>3, <1>4, <1>5, <1>6, <1>7, <1>8, <1>9, <1>10
          DEF Next, Save, Writer, ListenerStops, RunStops, Handlers

LEMMA TypesInit == Init => TInv
  <1> SUFFICES ASSUME Init PROVE TInv
      OBVIOUS
  <1>1. /\ 0 \in 0..MaxClock /\ 0 \in 0..MaxLabels /\ ChanCap \in Nat
        /\ BatchSize \in Nat \ {0}
        BY TrackerAssumption DEF TrackerAssumption
  <1>2. /\ deviceWrites \in Seq(Discovery) /\ Len(deviceWrites) = 0
        /\ buf \in Seq(Discovery) /\ Len(buf) = 0 /\ writer = "start"
        BY DEF Init
  <1>3. WriterTypes
        BY <1>1, <1>2 DEF WriterTypes
  <1>4. HistTypes
    <2>1. saved \in Seq(Discovery) /\ stored \in Seq(Discovery)
          BY DEF Init
    <2>2. given \in [Macs -> Labels \cup {Empty}] /\ bypassed \in BOOLEAN
          BY DEF Init
    <2>3. lost = {} /\ late = {}
          BY DEF Init
    <2> QED BY <2>1, <2>2, <2>3 DEF HistTypes
  <1>5. Flags
        BY <1>1 DEF Init, Flags
  <1>6. /\ at \in [Handlers -> States] /\ dev \in [Handlers -> Discovery \cup {NoDev}] /\ at["arp"] = "start"
        /\ \A h \in Handlers : IF at[h] \in Saving THEN dev[h] \in Discovery ELSE dev[h] = NoDev
        BY DEF Init, States, Saving, Handlers
  <1>7. arpCache \in [Ips -> Macs \cup {Empty}] /\ todo \in Seq([ip : Ips, mac : Macs])
        BY DEF Init
  <1>8. pollNow \in 0..MaxClock /\ clock \in 0..MaxClock
        BY <1>1 DEF Init
  <1>9. HandlerTypes
        BY <1>6, <1>7, <1>8 DEF HandlerTypes, Saving
  <1> QED BY <1>3, <1>4, <1>5, <1>9 DEF TInv

LEMMA TypesAlways == Spec => []TInv
  BY TypesInit, TypeStep, PTL DEF Spec

\* The channel and the batch keep to their sizes, and every discovery names a device.
THEOREM TypeCorrect == Spec => []TypeOK
  <1>1. TInv => TypeOK
        BY DEF TInv, HandlerTypes, WriterTypes, HistTypes, Flags, TypeOK, States, Saving, AfterFlush
  <1> QED BY <1>1, TypesAlways, PTL
-----------------------------------------------------------------------------
\* Every discovery is a new one.

Distinct(s) == \A j, k \in DOMAIN s : s[j] = s[k] => j = k

\* What is being saved has not been saved before, by this handler or by another; and
\* what is left of a poll is neither saved nor being saved.
FreshInv ==
    /\ \A d \in ToSet(saved) : d.seen <= clock
    /\ \A h \in Handlers : at[h] \in Saving => dev[h].seen <= clock /\ dev[h] \notin ToSet(saved)
    /\ \A h, k \in Handlers : at[h] \in Saving /\ at[k] \in Saving /\ h # k => dev[h] # dev[k]
    /\ at["arp"] \in {"poll"} \cup Saving =>
         /\ pollNow <= clock
         /\ \A j, k \in DOMAIN todo : todo[j].ip = todo[k].ip => j = k
         /\ \A e \in ToSet(todo) :
              /\ \A d \in ToSet(saved) : ~ (d.seen = pollNow /\ d.ip = e.ip)
              /\ \A h \in Handlers : at[h] \in Saving => ~ (dev[h].seen = pollNow /\ dev[h].ip = e.ip)

\* Nothing is in two places, or twice in one.
PartsInv ==
    /\ Distinct(deviceWrites) /\ Distinct(buf) /\ IsFiniteSet(lost)
    /\ ToSet(deviceWrites) \cap ToSet(buf) = {}
    /\ lost \cap (ToSet(deviceWrites) \cup ToSet(buf)) = {}
    /\ Len(saved) = Len(deviceWrites) + Len(buf) + Len(stored) + Cardinality(lost)

LEMMA IsSeqDomain ==
  ASSUME NEW s, IsSeq(s)
  PROVE  /\ Len(s) \in Nat /\ DOMAIN s = 1..Len(s)
         /\ \A j \in DOMAIN s : s[j] \in ToSet(s)
         /\ \A d \in ToSet(s) : \E j \in DOMAIN s : s[j] = d
  <1>1. s \in Seq(ToSet(s))
        BY DEF IsSeq
  <1>2. Len(s) \in Nat /\ DOMAIN s = 1..Len(s)
        BY <1>1
  <1> QED BY <1>2 DEF ToSet

LEMMA DistinctAppended ==
  ASSUME NEW s, IsSeq(s), Distinct(s), NEW d, d \notin ToSet(s)
  PROVE  Distinct(Append(s, d)) /\ Len(Append(s, d)) = Len(s) + 1
  <1> DEFINE S == ToSet(s) \cup {d}
  <1>1. /\ Len(s) \in Nat /\ DOMAIN s = 1..Len(s) /\ \A j \in DOMAIN s : s[j] \in ToSet(s)
        BY IsSeqDomain
  <1>2. s \in Seq(S) /\ d \in S
        BY DEF IsSeq
  <1>3. /\ Len(Append(s, d)) = Len(s) + 1 /\ DOMAIN Append(s, d) = 1..(Len(s) + 1)
        /\ \A j \in 1..Len(s) : Append(s, d)[j] = s[j]
        /\ Append(s, d)[Len(s) + 1] = d
        BY <1>2
  <1>4. ASSUME NEW j \in 1..(Len(s) + 1), NEW k \in 1..(Len(s) + 1), Append(s, d)[j] = Append(s, d)[k]
        PROVE  j = k
    <2>1. j \in 1..Len(s) \/ j = Len(s) + 1
          BY <1>1
    <2>2. k \in 1..Len(s) \/ k = Len(s) + 1
          BY <1>1
    <2>3. \A i \in 1..Len(s) : s[i] # d
          BY <1>1
    <2> QED BY <1>1, <1>3, <1>4, <2>1, <2>2, <2>3 DEF Distinct
  <1> QED BY <1>3, <1>4 DEF Distinct

LEMMA DistinctSplit ==
  ASSUME NEW s, IsSeq(s), Distinct(s), s # <<>>
  PROVE  /\ Distinct(Tail(s)) /\ Head(s) \notin ToSet(Tail(s)) /\ Head(s) \in ToSet(s)
         /\ Len(s) = Len(Tail(s)) + 1
  <1> DEFINE S == ToSet(s)
  <1>1. s \in Seq(S) /\ Len(s) \in Nat \ {0} /\ DOMAIN s = 1..Len(s)
        BY DEF IsSeq
  <1>2. Len(Tail(s)) = Len(s) - 1 /\ DOMAIN Tail(s) = 1..Len(Tail(s)) /\ Tail(s) \in Seq(S)
        BY <1>1
  <1>3. Head(s) = s[1] /\ \A i \in DOMAIN Tail(s) : Tail(s)[i] = s[i + 1] /\ i + 1 \in DOMAIN s
        BY <1>1, <1>2
  <1>4. ASSUME NEW j \in DOMAIN Tail(s), NEW k \in DOMAIN Tail(s), Tail(s)[j] = Tail(s)[k] PROVE j = k
    <2>1. j + 1 = k + 1
          BY <1>3, <1>4 DEF Distinct
    <2> QED BY <1>1, <1>2, <2>1
  <1>5. ASSUME NEW j \in DOMAIN Tail(s) PROVE Tail(s)[j] # Head(s)
    <2>1. j + 1 # 1 /\ 1 \in DOMAIN s
          BY <1>1, <1>2
    <2> QED BY <1>3, <2>1 DEF Distinct
  <1>6. Head(s) \in ToSet(s)
        BY <1>1, <1>3, SeqSplit
  <1> QED BY <1>1, <1>2, <1>4, <1>5, <1>6 DEF Distinct, ToSet

LEMMA DistinctCount ==
  ASSUME NEW s, IsSeq(s), Distinct(s)
  PROVE  IsFiniteSet(ToSet(s)) /\ Cardinality(ToSet(s)) = Len(s)
  <1>1. Len(s) \in Nat /\ DOMAIN s = 1..Len(s)
        BY IsSeqDomain
  <1>2. s \in [1..Len(s) -> ToSet(s)]
        BY DEF IsSeq
  <1>3. s \in Surjection(1..Len(s), ToSet(s)) /\ s \in Injection(1..Len(s), ToSet(s))
        BY <1>1, <1>2, IsSeqDomain DEF Surjection, Injection, IsInjective, Distinct
  <1>4. 1 \in Int /\ Len(s) \in Int /\ (1 > Len(s) => Len(s) = 0) /\ (Len(s) - 1) + 1 = Len(s)
        BY <1>1
  <1>5. IsFiniteSet(1..Len(s)) /\ Cardinality(1..Len(s)) = IF 1 > Len(s) THEN 0 ELSE Len(s) - 1 + 1
        BY <1>4, FS_Interval
  <1>6. Cardinality(1..Len(s)) = Len(s)
        BY <1>4, <1>5
  <1> QED BY <1>3, <1>5, <1>6, FS_Surjection

\* A transaction stores all of ds or loses all of it.
LEMMA UpsertCounts ==
  ASSUME NEW ds, IsSeq(ds), IsSeq(stored), Distinct(ds), IsFiniteSet(lost), lost \cap ToSet(ds) = {},
         UpsertDevices(ds)
  PROVE  /\ IsFiniteSet(lost')
         /\ Len(stored') + Cardinality(lost') = Len(stored) + Cardinality(lost) + Len(ds)
         /\ Len(stored) \in Nat /\ Cardinality(lost) \in Nat /\ Len(ds) \in Nat
         /\ Len(stored') \in Nat /\ Cardinality(lost') \in Nat
  <1>0. Len(stored) \in Nat /\ Len(ds) \in Nat /\ Cardinality(lost) \in Nat
        BY IsSeqDomain, FS_CardinalityType
  <1>1. CASE stored' = stored \o ds /\ lost' = lost
    <2>1. stored \in Seq(ToSet(stored) \cup ToSet(ds)) /\ ds \in Seq(ToSet(stored) \cup ToSet(ds))
          BY DEF IsSeq
    <2>2. Len(stored') = Len(stored) + Len(ds)
          BY <1>1, <2>1
    <2> QED BY <1>0, <1>1, <2>2
  <1>2. CASE lost' = lost \cup ToSet(ds) /\ stored' = stored
    <2>1. IsFiniteSet(ToSet(ds)) /\ Cardinality(ToSet(ds)) = Len(ds)
          BY DistinctCount
    <2>2. IsFiniteSet(lost') /\ Cardinality(lost') = Cardinality(lost) + Cardinality(ToSet(ds)) - Cardinality({})
          BY <1>2, <2>1, FS_Union
    <2>3. Cardinality({}) = 0
          BY FS_EmptySet
    <2> QED BY <1>0, <1>2, <2>1, <2>2, <2>3
  <1> QED BY <1>1, <1>2 DEF UpsertDevices

\* A listener's discovery has a time that no other has.
LEMMA PacketFresh ==
  ASSUME TInv, FreshInv, NEW h \in Listeners, at[h] = "idle", clock' = clock + 1,
         NEW m, NEW i, NEW n, NEW v, Found(h, m, i, n, v, clock + 1),
         UNCHANGED <<saved, todo, pollNow>>
  PROVE  FreshInv'
  <1> DEFINE d == [mac |-> m, ip |-> i, host |-> n, vendor |-> v, seen |-> clock + 1]
  <1>1. /\ clock \in Nat /\ pollNow \in Nat /\ h \in Handlers /\ h # "arp"
        /\ \A e \in ToSet(saved) : e.seen \in Nat
        /\ \A k \in Handlers : at[k] \in Saving => dev[k].seen \in Nat
    <2>1. saved \in Seq(Discovery) /\ \A e \in Discovery : e.seen \in 1..MaxClock
          BY DEF TInv, HistTypes, Discovery
    <2>2. ToSet(saved) \subseteq Discovery
          BY <2>1 DEF ToSet
    <2> QED BY <2>1, <2>2, TrackerAssumption DEF TInv, HandlerTypes, TrackerAssumption, Handlers, Listeners
  <1>2. /\ \A k \in Handlers \ {h} : at'[k] = at[k] /\ dev'[k] = dev[k]
        /\ at'[h] = "save" /\ dev'[h] = d
        BY <1>1 DEF Found, TInv, HandlerTypes
  <1>3. d.seen = clock + 1
        OBVIOUS
  <1> HIDE DEF d
  <1>4. \A e \in ToSet(saved) : e.seen <= clock /\ e # d
        BY <1>1, <1>3 DEF FreshInv
  <1>5. \A k \in Handlers : at[k] \in Saving => dev[k].seen <= clock /\ dev[k] # d /\ dev[k] \notin ToSet(saved)
        BY <1>1, <1>3 DEF FreshInv
  <1>6. /\ \A e \in ToSet(saved') : e.seen <= clock'
        /\ \A k \in Handlers : at'[k] \in Saving => dev'[k].seen <= clock' /\ dev'[k] \notin ToSet(saved')
        BY <1>1, <1>2, <1>3, <1>4, <1>5
  <1>7. \A j, k \in Handlers : at'[j] \in Saving /\ at'[k] \in Saving /\ j # k => dev'[j] # dev'[k]
        BY <1>1, <1>2, <1>5 DEF FreshInv
  <1>8. at'["arp"] \in {"poll"} \cup Saving =>
         /\ pollNow' <= clock'
         /\ \A j, k \in DOMAIN todo' : todo'[j].ip = todo'[k].ip => j = k
         /\ \A e \in ToSet(todo') :
              /\ \A x \in ToSet(saved') : ~ (x.seen = pollNow' /\ x.ip = e.ip)
              /\ \A k \in Handlers : at'[k] \in Saving => ~ (dev'[k].seen = pollNow' /\ dev'[k].ip = e.ip)
    <2> SUFFICES ASSUME at'["arp"] \in {"poll"} \cup Saving
                 PROVE  /\ pollNow <= clock + 1
                        /\ \A j, k \in DOMAIN todo : todo[j].ip = todo[k].ip => j = k
                        /\ \A e \in ToSet(todo) :
                             /\ \A x \in ToSet(saved) : ~ (x.seen = pollNow /\ x.ip = e.ip)
                             /\ \A k \in Handlers : at'[k] \in Saving => ~ (dev'[k].seen = pollNow /\ dev'[k].ip = e.ip)
        OBVIOUS
    <2>1. at["arp"] \in {"poll"} \cup Saving /\ pollNow <= clock
          BY <1>1, <1>2 DEF FreshInv, Handlers
    <2>2. d.seen # pollNow
          BY <1>1, <1>3, <2>1
    <2>3. pollNow <= clock + 1
          BY <1>1, <2>1
    <2> QED BY <1>2, <2>1, <2>2, <2>3 DEF FreshInv
  <1> QED BY <1>6, <1>7, <1>8 DEF FreshInv

\* A poll begins with a time that no discovery has.
LEMMA PollFresh ==
  ASSUME TInv, FreshInv, PollBegin
  PROVE  FreshInv'
  <1>1. /\ clock \in Nat /\ "arp" \in Handlers
        /\ \A e \in ToSet(saved) : e.seen \in Nat
        /\ \A k \in Handlers : at[k] \in Saving => dev[k].seen \in Nat
    <2>1. saved \in Seq(Discovery) /\ \A e \in Discovery : e.seen \in 1..MaxClock
          BY DEF TInv, HistTypes, Discovery
    <2>2. ToSet(saved) \subseteq Discovery
          BY <2>1 DEF ToSet
    <2> QED BY <2>1, <2>2, TrackerAssumption DEF TInv, HandlerTypes, TrackerAssumption, Handlers, Listeners
  <1>2. /\ todo' \in ArpTables /\ clock' = clock + 1 /\ pollNow' = clock + 1
        /\ dev' = dev /\ saved' = saved
        /\ at'["arp"] = "poll" /\ \A k \in Handlers : at'[k] \in Saving => at[k] \in Saving
    <2>1. at' = [at EXCEPT !["arp"] = "poll"] /\ at \in [Handlers -> States]
          BY DEF PollBegin, TInv, HandlerTypes
    <2>2. at'["arp"] = "poll" /\ \A k \in Handlers : at'[k] \in Saving => at[k] \in Saving
          BY <1>1, <2>1 DEF Saving
    <2> QED BY <2>2 DEF PollBegin, histVars
  <1>3. \A j, k \in DOMAIN todo' : todo'[j].ip = todo'[k].ip => j = k
        BY <1>2, TrackerAssumption DEF TrackerAssumption
  <1>4. /\ \A x \in ToSet(saved) : x.seen <= clock + 1 /\ x.seen # clock + 1
        /\ \A k \in Handlers : at'[k] \in Saving => dev[k].seen <= clock + 1 /\ dev[k].seen # clock + 1
        BY <1>1, <1>2 DEF FreshInv
  <1>5. \A j, k \in Handlers : at'[j] \in Saving /\ at'[k] \in Saving /\ j # k => dev'[j] # dev'[k]
        BY <1>2 DEF FreshInv
  <1>6. \A k \in Handlers : at'[k] \in Saving => dev'[k] \notin ToSet(saved')
        BY <1>2 DEF FreshInv
  <1> QED BY <1>1, <1>2, <1>3, <1>4, <1>5, <1>6 DEF FreshInv

\* The next entry of a poll has an address that no other entry has.
LEMMA EntryFresh ==
  ASSUME TInv, FreshInv, PollEntry
  PROVE  FreshInv'
  <1> DEFINE e == Head(todo)
             d == [mac |-> e.mac, ip |-> e.ip, host |-> Empty, vendor |-> Vendor[e.mac], seen |-> pollNow]
  <1>1. /\ at["arp"] = "poll" /\ todo # <<>> /\ todo' = Tail(todo) /\ saved' = saved /\ clock' = clock
        /\ pollNow' = pollNow /\ Found("arp", e.mac, e.ip, Empty, Vendor[e.mac], pollNow) /\ "arp" \in Handlers
        BY DEF PollEntry, histVars, Handlers
  <1>2. /\ \A k \in Handlers \ {"arp"} : at'[k] = at[k] /\ dev'[k] = dev[k]
        /\ at'["arp"] = "save" /\ dev'["arp"] = d
        BY <1>1 DEF Found, TInv, HandlerTypes
  <1>3. /\ e \in ToSet(todo) /\ ToSet(Tail(todo)) \subseteq ToSet(todo)
        /\ \A x \in ToSet(Tail(todo)) : x.ip # e.ip
        /\ \A j, k \in DOMAIN Tail(todo) : Tail(todo)[j].ip = Tail(todo)[k].ip => j = k
    <2>1. /\ IsSeq(todo) /\ Len(todo) \in Nat \ {0} /\ DOMAIN todo = 1..Len(todo)
          /\ Head(todo) = todo[1] /\ DOMAIN Tail(todo) = 1..(Len(todo) - 1)
          /\ \A j \in 1..(Len(todo) - 1) : Tail(todo)[j] = todo[j + 1] /\ j + 1 \in DOMAIN todo /\ j + 1 # 1
          /\ 1 \in DOMAIN todo
      <3>1. todo \in Seq([ip : Ips, mac : Macs])
            BY DEF TInv, HandlerTypes
      <3> QED BY <1>1, <3>1, SeqOfElements
    <2>2. \A j, k \in DOMAIN todo : todo[j].ip = todo[k].ip => j = k
          BY <1>1 DEF FreshInv
    <2>3. \A j \in 1..(Len(todo) - 1) : Tail(todo)[j].ip # e.ip
          BY <2>1, <2>2
    <2>4. ASSUME NEW j \in DOMAIN Tail(todo), NEW k \in DOMAIN Tail(todo), Tail(todo)[j].ip = Tail(todo)[k].ip
          PROVE  j = k
      <3>1. j + 1 = k + 1
            BY <2>1, <2>2, <2>4
      <3> QED BY <2>1, <3>1
    <2>5. e \in ToSet(todo) /\ ToSet(Tail(todo)) \subseteq ToSet(todo)
          BY <1>1, <2>1, SeqSplit
    <2> QED BY <2>1, <2>3, <2>4, <2>5 DEF ToSet
  <1>4. d.seen = pollNow /\ d.ip = e.ip
        OBVIOUS
  <1> HIDE DEF d, e
  <1>5. /\ pollNow <= clock
        /\ \A x \in ToSet(saved) : ~ (x.seen = pollNow /\ x.ip = e.ip)
        /\ \A k \in Handlers : at[k] \in Saving => ~ (dev[k].seen = pollNow /\ dev[k].ip = e.ip)
        BY <1>1, <1>3 DEF FreshInv
  <1>6. d \notin ToSet(saved) /\ \A k \in Handlers : at[k] \in Saving => dev[k] # d
        BY <1>4, <1>5
  <1>7. /\ \A x \in ToSet(saved') : x.seen <= clock'
        /\ \A k \in Handlers : at'[k] \in Saving => dev'[k].seen <= clock' /\ dev'[k] \notin ToSet(saved')
        BY <1>1, <1>2, <1>4, <1>5, <1>6 DEF FreshInv
  <1>8. \A j, k \in Handlers : at'[j] \in Saving /\ at'[k] \in Saving /\ j # k => dev'[j] # dev'[k]
        BY <1>2, <1>6 DEF FreshInv
  <1>9. \A x \in ToSet(todo') :
              /\ \A y \in ToSet(saved') : ~ (y.seen = pollNow' /\ y.ip = x.ip)
              /\ \A k \in Handlers : at'[k] \in Saving => ~ (dev'[k].seen = pollNow' /\ dev'[k].ip = x.ip)
    <2> SUFFICES ASSUME NEW x \in ToSet(Tail(todo))
                 PROVE  /\ \A y \in ToSet(saved) : ~ (y.seen = pollNow /\ y.ip = x.ip)
                        /\ \A k \in Handlers : at'[k] \in Saving => ~ (dev'[k].seen = pollNow /\ dev'[k].ip = x.ip)
        BY <1>1
    <2>1. x \in ToSet(todo) /\ x.ip # e.ip
          BY <1>3
    <2> QED BY <1>1, <1>2, <1>4, <2>1 DEF FreshInv
  <1> QED BY <1>1, <1>3, <1>5, <1>7, <1>8, <1>9 DEF FreshInv

\* Saving moves a discovery from its handler to those that were saved.
LEMMA SavedFresh ==
  ASSUME TInv, FreshInv, IsSeq(saved), NEW h \in Handlers, at[h] \in Saving,
         Saved(h), saved' = Append(saved, dev[h]),
         UNCHANGED <<todo, pollNow, clock>>
  PROVE  FreshInv'
  <1>1. ToSet(saved') = ToSet(saved) \cup {dev[h]}
        BY SeqAppended
  <1>2. /\ at'[h] \in {"poll", "idle"} /\ \A k \in Handlers \ {h} : at'[k] = at[k] /\ dev'[k] = dev[k]
        /\ at'["arp"] \in {"poll"} \cup Saving => at["arp"] \in {"poll"} \cup Saving
        BY DEF Saved, TInv, HandlerTypes, Handlers, Saving
  <1>3. \A k \in Handlers : at'[k] \in Saving => k # h /\ at[k] \in Saving /\ dev'[k] = dev[k]
        BY <1>2 DEF Saving
  <1>4. \A x \in ToSet(saved') : x.seen <= clock'
        BY <1>1 DEF FreshInv
  <1>5. \A k \in Handlers : at'[k] \in Saving => dev'[k].seen <= clock' /\ dev'[k] \notin ToSet(saved')
        BY <1>1, <1>3 DEF FreshInv
  <1>6. \A j, k \in Handlers : at'[j] \in Saving /\ at'[k] \in Saving /\ j # k => dev'[j] # dev'[k]
        BY <1>3 DEF FreshInv
  <1>7. at'["arp"] \in {"poll"} \cup Saving =>
         /\ pollNow' <= clock'
         /\ \A j, k \in DOMAIN todo' : todo'[j].ip = todo'[k].ip => j = k
         /\ \A e \in ToSet(todo') :
              /\ \A x \in ToSet(saved') : ~ (x.seen = pollNow' /\ x.ip = e.ip)
              /\ \A k \in Handlers : at'[k] \in Saving => ~ (dev'[k].seen = pollNow' /\ dev'[k].ip = e.ip)
        BY <1>1, <1>2, <1>3 DEF FreshInv
  <1> QED BY <1>4, <1>5, <1>6, <1>7 DEF FreshInv

\* Nothing is found, and nothing saved.
LEMMA NothingFound ==
  ASSUME TInv, FreshInv, UNCHANGED <<saved, todo, clock, dev>>,
         \A k \in Handlers : at'[k] \in Saving => at[k] \in Saving,
         at'["arp"] \in {"poll"} \cup Saving => at["arp"] \in {"poll"} \cup Saving /\ pollNow' = pollNow
  PROVE  FreshInv'
  BY DEF FreshInv

\* Every step finds only discoveries that are new, and saves each of them once.
LEMMA FreshStep == TInv /\ IInv /\ FreshInv /\ [Next]_vars => FreshInv'
  <1> SUFFICES ASSUME TInv, IInv, FreshInv, [Next]_vars PROVE FreshInv'
      OBVIOUS
  <1>0. /\ IsSeq(saved) /\ at \in [Handlers -> States]
        /\ "dhcp" \in Listeners /\ "mdns" \in Listeners /\ "ssdp" \in Listeners
        BY DEF IInv, SeqInv, TInv, HandlerTypes, Listeners
  <1>1. CASE ParseDHCP
    <2>1. PICK r \in DhcpRequests : Found("dhcp", r.mac, r.ip, r.host, Empty, clock + 1)
          BY <1>1 DEF ParseDHCP
    <2>2. at["dhcp"] = "idle" /\ clock' = clock + 1 /\ UNCHANGED <<saved, todo, pollNow>>
          BY <1>1 DEF ParseDHCP, Packet, histVars
    <2> QED BY <1>0, <2>1, <2>2, PacketFresh
  <1>2. CASE ParseMDNS
    <2>1. PICK i \in Ips, n \in Hosts : Found("mdns", arpCache[i], Empty, n, Empty, clock + 1)
          BY <1>2 DEF ParseMDNS
    <2>2. at["mdns"] = "idle" /\ clock' = clock + 1 /\ UNCHANGED <<saved, todo, pollNow>>
          BY <1>2 DEF ParseMDNS, Packet, histVars
    <2> QED BY <1>0, <2>1, <2>2, PacketFresh
  <1>3. CASE UpsertFromSSDP
    <2>1. PICK i \in Ips : Found("ssdp", arpCache[i], Empty, Empty, Empty, clock + 1)
          BY <1>3 DEF UpsertFromSSDP
    <2>2. at["ssdp"] = "idle" /\ clock' = clock + 1 /\ UNCHANGED <<saved, todo, pollNow>>
          BY <1>3 DEF UpsertFromSSDP, Packet, histVars
    <2> QED BY <1>0, <2>1, <2>2, PacketFresh
  <1>4. CASE PollBegin
        BY <1>4, PollFresh
  <1>5. CASE PollEntry
        BY <1>5, EntryFresh
  <1>6. CASE PollEnd
    <2>1. /\ UNCHANGED <<saved, todo, clock, dev>>
          /\ at' = [h \in Handlers |-> IF h = "arp" \/ at[h] = "off" THEN "idle" ELSE at[h]]
          BY <1>6 DEF PollEnd, histVars
    <2>2. \A k \in Handlers : at'[k] \in Saving => at[k] \in Saving
          BY <2>1 DEF Saving
    <2>3. at'["arp"] \notin {"poll"} \cup Saving
          BY <2>1 DEF Saving, Handlers
    <2> QED BY <2>1, <2>2, <2>3, NothingFound
  <1>7. ASSUME NEW h \in Handlers, Send(h) \/ UpsertDevice(h) PROVE FreshInv'
    <2>1. at[h] \in Saving /\ Saved(h) /\ saved' = Append(saved, dev[h]) /\ UNCHANGED <<todo, pollNow, clock>>
          BY <1>7 DEF Send, UpsertDevice, Saving
    <2> QED BY <1>0, <2>1, SavedFresh
  <1>8. ASSUME NEW h \in Handlers, LoadActive(h) \/ Full(h) \/ Returned(h) PROVE FreshInv'
    <2>1. /\ UNCHANGED <<saved, todo, clock, dev, pollNow>>
          /\ \E a \in States : at' = [at EXCEPT ![h] = a] /\ (a = "returned" \/ (a \in Saving /\ at[h] \in Saving))
          BY <1>8 DEF LoadActive, Full, Returned, histVars, Saving, States
    <2>2. \A k \in Handlers : at'[k] \in {"poll"} \cup Saving => at[k] \in {"poll"} \cup Saving
          BY <1>0, <2>1 DEF Saving
    <2>3. \A k \in Handlers : at'[k] \in Saving => at[k] \in Saving
          BY <1>0, <2>1 DEF Saving
    <2>4. "arp" \in Handlers
          BY DEF Handlers
    <2> QED BY <2>1, <2>2, <2>3, <2>4, NothingFound
  <1>9. CASE Writer \/ UpdateDeviceLabel \/ Cancel
    <2>1. UNCHANGED <<saved, todo, clock, dev, at, pollNow>>
          BY <1>9 DEF Writer, Activate, Take, TickFlush, SeeDone, DrainEnds, Flush, Deactivate,
                      UpdateDeviceLabel, Cancel, handlerVars, histVars
    <2> QED BY <2>1, NothingFound
  <1>10. CASE UNCHANGED vars
    <2>1. UNCHANGED <<saved, todo, clock, dev, at, pollNow>>
          BY <1>10 DEF vars, handlerVars, histVars
    <2> QED BY <2>1, NothingFound
  <1> QED BY <1>1, <1>2, <1>3, <1>4, <1>5, <1>6, <1>7, <1>8, <1>9, <1>10
          DEF Next, Discover, Save, ListenerStops, RunStops, Handlers

-----------------------------------------------------------------------------
\* Nothing that is being saved is anywhere else yet.
LEMMA NotYet ==
  ASSUME IInv, FreshInv, NEW h \in Handlers, at[h] \in Saving
  PROVE  /\ dev[h] \notin ToSet(deviceWrites) /\ dev[h] \notin ToSet(buf) /\ dev[h] \notin lost
         /\ dev[h] \notin ToSet(stored) /\ dev[h] \notin ToSet(saved)
  <1>1. dev[h] \notin ToSet(saved)
        BY DEF FreshInv
  <1>2. ToSet(saved) = ToSet(deviceWrites) \cup ToSet(buf) \cup ToSet(stored) \cup lost
        BY DEF IInv, Accounted
  <1> QED BY <1>1, <1>2

\* The parts are as large together as all that was saved.
LEMMA PartsStep == TInv /\ IInv /\ FreshInv /\ PartsInv /\ [Next]_vars => PartsInv'
  <1> SUFFICES ASSUME TInv, IInv, FreshInv, PartsInv, [Next]_vars PROVE PartsInv'
      OBVIOUS
  <1>0. /\ IsSeq(saved) /\ IsSeq(deviceWrites) /\ IsSeq(buf) /\ IsSeq(stored)
        /\ Distinct(deviceWrites) /\ Distinct(buf) /\ IsFiniteSet(lost)
        /\ ToSet(deviceWrites) \cap ToSet(buf) = {}
        /\ lost \cap (ToSet(deviceWrites) \cup ToSet(buf)) = {}
        /\ Len(saved) = Len(deviceWrites) + Len(buf) + Len(stored) + Cardinality(lost)
        BY DEF IInv, SeqInv, PartsInv
  <1>00. /\ Len(saved) \in Nat /\ Len(deviceWrites) \in Nat /\ Len(buf) \in Nat /\ Len(stored) \in Nat
        /\ Cardinality(lost) \in Nat
        BY <1>0, IsSeqDomain, FS_CardinalityType
  <1>1. ASSUME NEW h \in Handlers, Send(h) PROVE PartsInv'
    <2>1. /\ deviceWrites' = Append(deviceWrites, dev[h]) /\ saved' = Append(saved, dev[h])
          /\ UNCHANGED <<buf, stored, lost>> /\ at[h] \in Saving
          BY <1>1 DEF Send, Saving
    <2>2. /\ dev[h] \notin ToSet(deviceWrites) /\ dev[h] \notin ToSet(buf) /\ dev[h] \notin lost
          BY <2>1, NotYet
    <2>3. /\ Distinct(deviceWrites') /\ Len(deviceWrites') = Len(deviceWrites) + 1
          /\ ToSet(deviceWrites') = ToSet(deviceWrites) \cup {dev[h]}
          BY <1>0, <2>1, <2>2, DistinctAppended, SeqAppended
    <2>4. Len(saved') = Len(saved) + 1
      <3>1. saved \in Seq(ToSet(saved) \cup {dev[h]}) /\ dev[h] \in ToSet(saved) \cup {dev[h]}
            BY <1>0 DEF IsSeq
      <3> QED BY <2>1, <3>1
    <2>5. Len(saved') = Len(deviceWrites') + Len(buf') + Len(stored') + Cardinality(lost')
          BY <1>0, <1>00, <2>1, <2>3, <2>4
    <2> QED BY <1>0, <2>1, <2>2, <2>3, <2>5 DEF PartsInv
  <1>2. ASSUME NEW h \in Handlers, UpsertDevice(h) PROVE PartsInv'
    <2>1. /\ UpsertDevices(<<dev[h]>>) /\ saved' = Append(saved, dev[h])
          /\ UNCHANGED <<deviceWrites, buf>> /\ at[h] \in Saving
          BY <1>2 DEF UpsertDevice, Saving
    <2>2. /\ dev[h] \notin ToSet(deviceWrites) /\ dev[h] \notin ToSet(buf) /\ dev[h] \notin lost
          BY <2>1, NotYet
    <2>3. /\ IsSeq(<<dev[h]>>) /\ ToSet(<<dev[h]>>) = {dev[h]} /\ Distinct(<<dev[h]>>) /\ Len(<<dev[h]>>) = 1
          BY SeqOfOne DEF Distinct
    <2>4. /\ IsFiniteSet(lost')
          /\ Len(stored') + Cardinality(lost') = Len(stored) + Cardinality(lost) + 1
          /\ Len(stored') \in Nat /\ Cardinality(lost') \in Nat
      <3>1. lost \cap ToSet(<<dev[h]>>) = {}
            BY <2>2, <2>3
      <3> QED BY <1>0, <2>1, <2>3, <3>1, UpsertCounts
    <2>5. Len(saved') = Len(saved) + 1
      <3>1. saved \in Seq(ToSet(saved) \cup {dev[h]}) /\ dev[h] \in ToSet(saved) \cup {dev[h]}
            BY <1>0 DEF IsSeq
      <3> QED BY <2>1, <3>1
    <2>6. lost' \subseteq lost \cup {dev[h]}
          BY <2>1, <2>3 DEF UpsertDevices
    <2>7. Len(saved') = Len(deviceWrites') + Len(buf') + Len(stored') + Cardinality(lost')
      <3>1. Len(deviceWrites') = Len(deviceWrites) /\ Len(buf') = Len(buf)
            BY <2>1
      <3>2. Len(saved) + 1 = Len(deviceWrites) + Len(buf) + (Len(stored') + Cardinality(lost'))
            BY <1>0, <1>00, <2>4
      <3> QED BY <1>00, <2>4, <2>5, <3>1, <3>2
    <2>8. lost' \cap (ToSet(deviceWrites') \cup ToSet(buf')) = {}
          BY <1>0, <2>1, <2>2, <2>6
    <2> QED BY <1>0, <2>1, <2>4, <2>7, <2>8 DEF PartsInv
  <1>3. CASE Take
    <2>1. /\ deviceWrites # <<>> /\ buf' = Append(buf, Head(deviceWrites))
          /\ deviceWrites' = Tail(deviceWrites) /\ UNCHANGED <<saved, stored, lost>>
          BY <1>3 DEF Take, histVars
    <2>2. /\ Distinct(Tail(deviceWrites)) /\ Head(deviceWrites) \notin ToSet(Tail(deviceWrites))
          /\ Head(deviceWrites) \in ToSet(deviceWrites) /\ Len(deviceWrites) = Len(Tail(deviceWrites)) + 1
          /\ IsSeq(Tail(deviceWrites)) /\ ToSet(Tail(deviceWrites)) \subseteq ToSet(deviceWrites)
          BY <1>0, <2>1, DistinctSplit, SeqSplit
    <2>3. Head(deviceWrites) \notin ToSet(buf)
          BY <1>0, <2>2
    <2>4. /\ Distinct(buf') /\ Len(buf') = Len(buf) + 1
          /\ ToSet(buf') = ToSet(buf) \cup {Head(deviceWrites)}
          BY <1>0, <2>1, <2>3, DistinctAppended, SeqAppended
    <2>5. Len(saved') = Len(deviceWrites') + Len(buf') + Len(stored') + Cardinality(lost')
      <3>1. Len(Tail(deviceWrites)) \in Nat
            BY <2>2, IsSeqDomain
      <3> QED BY <1>0, <1>00, <2>1, <2>2, <2>4, <3>1
    <2>6. ToSet(deviceWrites') \cap ToSet(buf') = {}
          BY <1>0, <2>1, <2>2, <2>4
    <2>7. lost' \cap (ToSet(deviceWrites') \cup ToSet(buf')) = {}
          BY <1>0, <2>1, <2>2, <2>4
    <2> QED BY <1>0, <2>1, <2>2, <2>4, <2>5, <2>6, <2>7 DEF PartsInv
  <1>4. CASE Flush
    <2>1. UpsertDevices(buf) /\ buf' = <<>> /\ UNCHANGED <<deviceWrites, saved>>
          BY <1>4 DEF Flush
    <2>2. /\ IsFiniteSet(lost')
          /\ Len(stored') + Cardinality(lost') = Len(stored) + Cardinality(lost) + Len(buf)
          /\ Len(stored') \in Nat /\ Cardinality(lost') \in Nat
      <3>1. lost \cap ToSet(buf) = {}
            BY <1>0
      <3> QED BY <1>0, <2>1, <3>1, UpsertCounts
    <2>3. ToSet(buf') = {} /\ Distinct(buf') /\ Len(buf') = 0
      <3>1. ToSet(buf') = {}
            BY <2>1, SeqOfNothing
      <3> QED BY <2>1, <3>1 DEF Distinct
    <2>4. lost' \subseteq lost \cup ToSet(buf)
          BY <2>1 DEF UpsertDevices
    <2>5. Len(saved') = Len(deviceWrites') + Len(buf') + Len(stored') + Cardinality(lost')
          BY <1>0, <1>00, <2>1, <2>2, <2>3
    <2>6. lost' \cap (ToSet(deviceWrites') \cup ToSet(buf')) = {}
          BY <1>0, <2>1, <2>3, <2>4
    <2> QED BY <1>0, <2>1, <2>2, <2>3, <2>5, <2>6 DEF PartsInv
  <1>5. CASE DrainEnds \/ Deactivate
    <2>1. UNCHANGED <<deviceWrites, buf, saved, stored, lost>>
          BY <1>5 DEF DrainEnds, Deactivate, histVars
    <2> QED BY <1>0, <2>1 DEF PartsInv, Distinct
  <1>6. CASE Quiet \/ UNCHANGED vars
    <2>1. UNCHANGED <<deviceWrites, buf, saved, stored, lost>>
          BY <1>6, QuietUnchanged
    <2> QED BY <1>0, <2>1 DEF PartsInv, Distinct
  <1> QED BY <1>1, <1>2, <1>3, <1>4, <1>5, <1>6
          DEF Next, Save, Writer, ListenerStops, Quiet, Handlers

LEMMA PartsAlways == Spec => [](FreshInv /\ PartsInv)
  <1>1. Init => FreshInv /\ PartsInv
    <2> SUFFICES ASSUME Init PROVE FreshInv /\ PartsInv
        OBVIOUS
    <2>1. /\ deviceWrites = <<>> /\ buf = <<>> /\ saved = <<>> /\ stored = <<>> /\ lost = {}
          /\ \A h \in Handlers : at[h] \notin {"poll"} \cup Saving
          BY DEF Init, Saving
    <2>2. ToSet(deviceWrites) = {} /\ ToSet(buf) = {} /\ ToSet(saved) = {}
          BY <2>1, SeqOfNothing, Zenon
    <2>3. FreshInv
          BY <2>1, <2>2 DEF FreshInv, Handlers
    <2>4. IsFiniteSet({}) /\ Cardinality({}) = 0
          BY FS_EmptySet
    <2>5. DOMAIN deviceWrites = {} /\ DOMAIN buf = {} /\ Len(<<>>) = 0
          BY <2>1
    <2>6. PartsInv
          BY <2>1, <2>2, <2>4, <2>5 DEF PartsInv, Distinct
    <2> QED BY <2>3, <2>6
  <1> QED BY <1>1, FreshStep, PartsStep, TypesAlways, InvAlways, PTL DEF Spec

\* saveDiscoveredDevice drops nothing and saves nothing twice: whatever was saved is in
\* exactly one of the channel, the batch, the table, and the transactions that failed.
THEOREM DiscoveriesAccountedAlways == Spec => []DiscoveriesAccounted
  <1>1. IInv /\ PartsInv => DiscoveriesAccounted
        BY DEF IInv, PartsInv, DiscoveriesAccounted
  <1> QED BY <1>1, InvAlways, PartsAlways, PTL
-----------------------------------------------------------------------------
\* The order of discoveries.

\* d was saved before e, when w was saved.
Before(w, d, e) == \A a, b \in DOMAIN w : w[a] = d /\ w[b] = e => a < b
SortedIn(w, s) == \A j, k \in DOMAIN s : j < k => Before(w, s[j], s[k])
Ahead(w, S, T) == \A d \in S, e \in T : Before(w, d, e)

\* Who passes nothing by writes directly only when the device writer has returned;
\* until then what is stored, in the batch and in the channel follow each other.
OrderInv ==
    /\ writerActive = (writer \notin {"start", "returned"})
    /\ bypassed \/
         /\ SortedIn(saved, stored)
         /\ writer # "returned" =>
              /\ \A h \in Handlers : at[h] # "write"
              /\ SortedIn(saved, buf) /\ SortedIn(saved, deviceWrites)
              /\ Ahead(saved, ToSet(stored), ToSet(buf)) /\ Ahead(saved, ToSet(buf), ToSet(deviceWrites))
              /\ Ahead(saved, ToSet(stored), ToSet(deviceWrites))

\* One more discovery comes after all, and changes the order of no others.
LEMMA BeforeAppended ==
  ASSUME NEW w, IsSeq(w), NEW x, x \notin ToSet(w), NEW d \in ToSet(w)
  PROVE  /\ Before(Append(w, x), d, x)
         /\ \A e \in ToSet(w) : Before(w, d, e) => Before(Append(w, x), d, e)
  <1>1. /\ Len(w) \in Nat /\ DOMAIN w = 1..Len(w) /\ \A j \in DOMAIN w : w[j] \in ToSet(w)
        BY IsSeqDomain
  <1>2. w \in Seq(ToSet(w) \cup {x})
        BY DEF IsSeq
  <1>3. /\ DOMAIN Append(w, x) = 1..(Len(w) + 1)
        /\ \A j \in 1..Len(w) : Append(w, x)[j] = w[j]
        /\ Append(w, x)[Len(w) + 1] = x
        BY <1>2
  <1>4. \A j \in DOMAIN Append(w, x) : j \in DOMAIN w \/ j = Len(w) + 1
        BY <1>1, <1>3
  <1>5. \A j \in DOMAIN w : Append(w, x)[j] = w[j] /\ Append(w, x)[j] # x /\ j < Len(w) + 1
        BY <1>1, <1>3
  <1>6. ASSUME NEW a \in DOMAIN Append(w, x), NEW b \in DOMAIN Append(w, x),
               Append(w, x)[a] = d, Append(w, x)[b] = x
        PROVE  a < b
    <2>1. a \in DOMAIN w /\ b = Len(w) + 1
          BY <1>3, <1>4, <1>5, <1>6
    <2> QED BY <1>5, <2>1
  <1>7. ASSUME NEW e \in ToSet(w), Before(w, d, e),
               NEW a \in DOMAIN Append(w, x), NEW b \in DOMAIN Append(w, x),
               Append(w, x)[a] = d, Append(w, x)[b] = e
        PROVE  a < b
    <2>1. a \in DOMAIN w /\ b \in DOMAIN w
          BY <1>3, <1>4, <1>7
    <2>2. w[a] = d /\ w[b] = e
          BY <1>5, <1>7, <2>1
    <2> QED BY <1>7, <2>1, <2>2 DEF Before
  <1> QED BY <1>6, <1>7 DEF Before

LEMMA OrderKept ==
  ASSUME NEW w, IsSeq(w), NEW x, x \notin ToSet(w)
  PROVE  /\ \A S, T : S \subseteq ToSet(w) /\ T \subseteq ToSet(w) /\ Ahead(w, S, T)
                        => Ahead(Append(w, x), S, T)
         /\ \A S : S \subseteq ToSet(w) => Ahead(Append(w, x), S, {x})
         /\ \A s : IsSeq(s) /\ ToSet(s) \subseteq ToSet(w) /\ SortedIn(w, s) => SortedIn(Append(w, x), s)
  <1>1. \A d, e \in ToSet(w) : Before(w, d, e) => Before(Append(w, x), d, e)
        BY BeforeAppended
  <1>2. \A d \in ToSet(w) : Before(Append(w, x), d, x)
        BY BeforeAppended
  <1>3. ASSUME NEW S, NEW T, S \subseteq ToSet(w), T \subseteq ToSet(w), Ahead(w, S, T)
        PROVE  Ahead(Append(w, x), S, T)
        BY <1>1, <1>3 DEF Ahead
  <1>4. ASSUME NEW S, S \subseteq ToSet(w) PROVE Ahead(Append(w, x), S, {x})
        BY <1>2, <1>4 DEF Ahead
  <1>5. ASSUME NEW s, IsSeq(s), ToSet(s) \subseteq ToSet(w), SortedIn(w, s)
        PROVE  SortedIn(Append(w, x), s)
    <2>1. \A j \in DOMAIN s : s[j] \in ToSet(w)
          BY <1>5, IsSeqDomain
    <2> QED BY <1>1, <1>5, <2>1 DEF SortedIn
  <1> QED BY <1>3, <1>4, <1>5

LEMMA SortedJoined ==
  ASSUME NEW w, NEW s, IsSeq(s), NEW t, IsSeq(t), SortedIn(w, s), SortedIn(w, t),
         Ahead(w, ToSet(s), ToSet(t))
  PROVE  SortedIn(w, s \o t)
  <1> DEFINE S == ToSet(s) \cup ToSet(t)
  <1>1. s \in Seq(S) /\ t \in Seq(S)
        BY DEF IsSeq
  <1>2. s \o t \in Seq(S) /\ Len(s) \in Nat /\ Len(t) \in Nat /\ Len(s \o t) = Len(s) + Len(t)
        BY <1>1
  <1>3. DOMAIN s = 1..Len(s) /\ DOMAIN t = 1..Len(t) /\ DOMAIN (s \o t) = 1..(Len(s) + Len(t))
        BY <1>1, <1>2
  <1>4. \A i \in DOMAIN (s \o t) :
           \/ i \in DOMAIN s /\ (s \o t)[i] = s[i] /\ i <= Len(s)
           \/ i - Len(s) \in DOMAIN t /\ (s \o t)[i] = t[i - Len(s)] /\ i > Len(s)
        BY <1>1, <1>2, <1>3
  <1> HIDE DEF S
  <1>5. (\A j \in DOMAIN s : s[j] \in ToSet(s)) /\ (\A j \in DOMAIN t : t[j] \in ToSet(t))
        BY IsSeqDomain
  <1>6. ASSUME NEW i \in DOMAIN (s \o t), NEW k \in DOMAIN (s \o t), i < k
        PROVE  Before(w, (s \o t)[i], (s \o t)[k])
    <2>0. i \in Nat /\ k \in Nat
          BY <1>2, <1>3
    <2>1. CASE i \in DOMAIN s /\ (s \o t)[i] = s[i] /\ k \in DOMAIN s /\ (s \o t)[k] = s[k]
          BY <1>6, <2>1 DEF SortedIn
    <2>2. CASE /\ i \in DOMAIN s /\ (s \o t)[i] = s[i]
               /\ k - Len(s) \in DOMAIN t /\ (s \o t)[k] = t[k - Len(s)]
          BY <1>5, <2>2 DEF Ahead
    <2>3. CASE /\ i - Len(s) \in DOMAIN t /\ (s \o t)[i] = t[i - Len(s)]
               /\ k - Len(s) \in DOMAIN t /\ (s \o t)[k] = t[k - Len(s)]
      <3>1. i - Len(s) < k - Len(s)
            BY <1>2, <1>6, <2>0
      <3>2. Before(w, t[i - Len(s)], t[k - Len(s)])
            BY <2>3, <3>1 DEF SortedIn
      <3> QED BY <2>3, <3>2
    <2>4. CASE i > Len(s) /\ k <= Len(s)
          BY <1>2, <1>6, <2>0, <2>4
    <2> QED BY <1>4, <2>1, <2>2, <2>3, <2>4
  <1> QED BY <1>6 DEF SortedIn

LEMMA SortedOne ==
  ASSUME NEW w, NEW x
  PROVE  SortedIn(w, <<x>>)
  <1>1. DOMAIN <<x>> = {1}
        OBVIOUS
  <1> QED BY <1>1 DEF SortedIn

\* Append is a special case of joining.
LEMMA SortedAppended ==
  ASSUME NEW w, NEW s, IsSeq(s), SortedIn(w, s), NEW x, Ahead(w, ToSet(s), {x})
  PROVE  SortedIn(w, Append(s, x))
  <1>1. s \in Seq(ToSet(s) \cup {x}) /\ x \in ToSet(s) \cup {x}
        BY DEF IsSeq
  <1>2. Append(s, x) = s \o <<x>>
        BY <1>1, AppendIsConcat
  <1>3. IsSeq(<<x>>) /\ ToSet(<<x>>) = {x}
        BY SeqOfOne
  <1> QED BY <1>2, <1>3, SortedOne, SortedJoined

LEMMA SortedSplit ==
  ASSUME NEW w, NEW s, IsSeq(s), s # <<>>, SortedIn(w, s)
  PROVE  SortedIn(w, Tail(s)) /\ Ahead(w, {Head(s)}, ToSet(Tail(s)))
  <1> DEFINE S == ToSet(s)
  <1>1. s \in Seq(S) /\ Len(s) \in Nat \ {0} /\ DOMAIN s = 1..Len(s)
        BY DEF IsSeq
  <1>2. Len(Tail(s)) = Len(s) - 1 /\ DOMAIN Tail(s) = 1..Len(Tail(s)) /\ Tail(s) \in Seq(S)
        BY <1>1
  <1>3. /\ Head(s) = s[1] /\ 1 \in DOMAIN s
        /\ \A i \in DOMAIN Tail(s) : Tail(s)[i] = s[i + 1] /\ i + 1 \in DOMAIN s /\ 1 < i + 1 /\ i \in Nat
        BY <1>1, <1>2
  <1>4. ASSUME NEW j \in DOMAIN Tail(s), NEW k \in DOMAIN Tail(s), j < k
        PROVE  Before(w, Tail(s)[j], Tail(s)[k])
    <2>1. j + 1 < k + 1
          BY <1>3, <1>4
    <2> QED BY <1>3, <2>1 DEF SortedIn
  <1>5. \A j \in DOMAIN Tail(s) : Before(w, s[1], s[j + 1])
        BY <1>3 DEF SortedIn
  <1>6. \A e \in ToSet(Tail(s)) : \E j \in DOMAIN Tail(s) : Tail(s)[j] = e
        BY DEF ToSet
  <1>7. \A e \in ToSet(Tail(s)) : Before(w, Head(s), e)
        BY <1>3, <1>5, <1>6
  <1> QED BY <1>4, <1>7 DEF SortedIn, Ahead

-----------------------------------------------------------------------------
LEMMA OrderStep == TInv /\ IInv /\ FreshInv /\ OrderInv /\ [Next]_vars => OrderInv'
  <1> SUFFICES ASSUME TInv, IInv, FreshInv, OrderInv, [Next]_vars PROVE OrderInv'
      OBVIOUS
  <1>0. /\ IsSeq(saved) /\ IsSeq(deviceWrites) /\ IsSeq(buf) /\ IsSeq(stored)
        /\ ToSet(deviceWrites) \subseteq ToSet(saved) /\ ToSet(buf) \subseteq ToSet(saved)
        /\ ToSet(stored) \subseteq ToSet(saved)
        /\ at \in [Handlers -> States]
        BY DEF IInv, SeqInv, Accounted, TInv, HandlerTypes
  <1>1. ASSUME NEW h \in Handlers, Send(h) PROVE OrderInv'
    <2>1. /\ deviceWrites' = Append(deviceWrites, dev[h]) /\ saved' = Append(saved, dev[h])
          /\ UNCHANGED <<buf, stored, bypassed, writer, writerActive>> /\ at[h] \in Saving
          /\ at' = [at EXCEPT ![h] = IF h = "arp" THEN "poll" ELSE "idle"]
          BY <1>1 DEF Send, Saving, Saved
    <2>2. dev[h] \notin ToSet(saved)
          BY <2>1, NotYet
    <2>3. ToSet(deviceWrites') = ToSet(deviceWrites) \cup {dev[h]}
          BY <1>0, <2>1, SeqAppended
    <2>4. ASSUME ~ bypassed PROVE SortedIn(saved', stored')
          BY <1>0, <2>1, <2>2, <2>4, OrderKept DEF OrderInv
    <2>5. ASSUME ~ bypassed, writer # "returned"
          PROVE  /\ \A k \in Handlers : at'[k] # "write"
                 /\ SortedIn(saved', buf') /\ SortedIn(saved', deviceWrites')
                 /\ Ahead(saved', ToSet(stored'), ToSet(buf'))
                 /\ Ahead(saved', ToSet(buf'), ToSet(deviceWrites'))
                 /\ Ahead(saved', ToSet(stored'), ToSet(deviceWrites'))
      <3>1. /\ \A k \in Handlers : at[k] # "write"
            /\ SortedIn(saved, buf) /\ SortedIn(saved, deviceWrites)
            /\ Ahead(saved, ToSet(stored), ToSet(buf)) /\ Ahead(saved, ToSet(buf), ToSet(deviceWrites))
            /\ Ahead(saved, ToSet(stored), ToSet(deviceWrites))
            BY <2>5 DEF OrderInv
      <3>2. \A k \in Handlers : at'[k] # "write"
            BY <1>0, <2>1, <3>1
      <3>3. /\ SortedIn(saved', buf) /\ SortedIn(saved', deviceWrites)
            /\ Ahead(saved', ToSet(stored), ToSet(buf)) /\ Ahead(saved', ToSet(buf), ToSet(deviceWrites))
            /\ Ahead(saved', ToSet(stored), ToSet(deviceWrites))
            BY <1>0, <2>1, <2>2, <3>1, OrderKept
      <3>4. /\ Ahead(saved', ToSet(stored), {dev[h]}) /\ Ahead(saved', ToSet(buf), {dev[h]})
            /\ Ahead(saved', ToSet(deviceWrites), {dev[h]})
            BY <1>0, <2>1, <2>2, OrderKept
      <3>5. SortedIn(saved', deviceWrites')
            BY <1>0, <2>1, <3>3, <3>4, SortedAppended
      <3>6. /\ Ahead(saved', ToSet(buf), ToSet(deviceWrites'))
            /\ Ahead(saved', ToSet(stored), ToSet(deviceWrites'))
            BY <2>3, <3>3, <3>4 DEF Ahead
      <3> QED BY <2>1, <3>2, <3>3, <3>5, <3>6
    <2> QED BY <2>1, <2>4, <2>5 DEF OrderInv
  <1>2. ASSUME NEW h \in Handlers, UpsertDevice(h) PROVE OrderInv'
    <2>1. /\ UpsertDevices(<<dev[h]>>) /\ saved' = Append(saved, dev[h])
          /\ UNCHANGED <<bypassed, writer, writerActive>> /\ at[h] \in Saving /\ at[h] = "write"
          BY <1>2 DEF UpsertDevice, Saving
    <2>2. dev[h] \notin ToSet(saved)
          BY <2>1, NotYet
    <2>3. ASSUME ~ bypassed PROVE writer = "returned" /\ SortedIn(saved', stored')
      <3>1. writer = "returned" /\ SortedIn(saved, stored)
            BY <2>1, <2>3 DEF OrderInv
      <3>2. SortedIn(saved', stored) /\ Ahead(saved', ToSet(stored), {dev[h]})
            BY <1>0, <2>1, <2>2, <3>1, OrderKept
      <3>3. SortedIn(saved', stored \o <<dev[h]>>)
        <4>1. IsSeq(<<dev[h]>>) /\ ToSet(<<dev[h]>>) = {dev[h]}
              BY SeqOfOne
        <4> QED BY <1>0, <3>2, <4>1, SortedOne, SortedJoined
      <3> QED BY <2>1, <3>1, <3>2, <3>3 DEF UpsertDevices
    <2> QED BY <2>1, <2>3 DEF OrderInv
  <1>3. CASE Take
    <2>1. /\ deviceWrites # <<>> /\ buf' = Append(buf, Head(deviceWrites))
          /\ writer \in {"loop", "drain"} /\ writer' \in {"loop", "drain", "flush", "drainflush"}
          /\ deviceWrites' = Tail(deviceWrites)
          /\ UNCHANGED <<saved, stored, bypassed, writerActive, at>>
          BY <1>3 DEF Take, histVars, handlerVars
    <2>2. /\ ToSet(deviceWrites) = ToSet(Tail(deviceWrites)) \cup {Head(deviceWrites)}
          /\ ToSet(buf') = ToSet(buf) \cup {Head(deviceWrites)}
          BY <1>0, <2>1, SeqSplit, SeqAppended
    <2>3. ASSUME ~ bypassed
          PROVE  /\ SortedIn(saved, buf') /\ SortedIn(saved, Tail(deviceWrites))
                 /\ Ahead(saved, ToSet(stored), ToSet(buf'))
                 /\ Ahead(saved, ToSet(buf'), ToSet(Tail(deviceWrites)))
                 /\ Ahead(saved, ToSet(stored), ToSet(Tail(deviceWrites)))
      <3>1. /\ SortedIn(saved, buf) /\ SortedIn(saved, deviceWrites)
            /\ Ahead(saved, ToSet(stored), ToSet(buf)) /\ Ahead(saved, ToSet(buf), ToSet(deviceWrites))
            /\ Ahead(saved, ToSet(stored), ToSet(deviceWrites))
            BY <2>1, <2>3 DEF OrderInv
      <3>2. /\ SortedIn(saved, Tail(deviceWrites))
            /\ Ahead(saved, {Head(deviceWrites)}, ToSet(Tail(deviceWrites)))
            BY <1>0, <2>1, <3>1, SortedSplit
      <3>3. Ahead(saved, ToSet(buf), {Head(deviceWrites)})
            BY <2>2, <3>1 DEF Ahead
      <3>4. SortedIn(saved, buf')
            BY <1>0, <2>1, <3>1, <3>3, SortedAppended
      <3>5. /\ Ahead(saved, ToSet(stored), ToSet(buf'))
            /\ Ahead(saved, ToSet(buf'), ToSet(Tail(deviceWrites)))
            /\ Ahead(saved, ToSet(stored), ToSet(Tail(deviceWrites)))
            BY <2>2, <3>1, <3>2 DEF Ahead
      <3> QED BY <3>2, <3>4, <3>5
    <2> QED BY <2>1, <2>3 DEF OrderInv
  <1>4. CASE Flush
    <2>1. /\ UpsertDevices(buf) /\ buf' = <<>> /\ writer \in {"flush", "drainflush", "last"}
          /\ writer' = AfterFlush[writer]
          /\ UNCHANGED <<deviceWrites, saved, bypassed, writerActive, at>>
          BY <1>4 DEF Flush, AfterFlush, handlerVars
    <2>2. writer' \notin {"start", "returned"}
          BY <2>1 DEF AfterFlush
    <2>3. ToSet(buf') = {} /\ SortedIn(saved, buf')
      <3>1. ToSet(buf') = {} /\ DOMAIN buf' = {}
            BY <2>1, SeqOfNothing
      <3> QED BY <3>1 DEF SortedIn
    <2>4. ASSUME ~ bypassed
          PROVE  SortedIn(saved, stored') /\ Ahead(saved, ToSet(stored'), ToSet(deviceWrites))
      <3>1. /\ SortedIn(saved, stored) /\ SortedIn(saved, buf)
            /\ Ahead(saved, ToSet(stored), ToSet(buf)) /\ Ahead(saved, ToSet(buf), ToSet(deviceWrites))
            /\ Ahead(saved, ToSet(stored), ToSet(deviceWrites))
            BY <2>1, <2>4 DEF OrderInv
      <3>2. CASE stored' = stored \o buf
        <4>1. SortedIn(saved, stored')
              BY <1>0, <3>1, <3>2, SortedJoined
        <4>2. ToSet(stored') = ToSet(stored) \cup ToSet(buf)
              BY <1>0, <3>2, SeqJoined
        <4> QED BY <3>1, <4>1, <4>2 DEF Ahead
      <3>3. CASE stored' = stored
            BY <3>1, <3>3
      <3> QED BY <2>1, <3>2, <3>3 DEF UpsertDevices
    <2>5. ASSUME ~ bypassed
          PROVE  /\ \A k \in Handlers : at'[k] # "write"
                 /\ SortedIn(saved, deviceWrites)
                 /\ Ahead(saved, ToSet(stored'), ToSet(buf')) /\ Ahead(saved, ToSet(buf'), ToSet(deviceWrites))
          BY <2>1, <2>3, <2>5 DEF OrderInv, Ahead
    <2> QED BY <2>1, <2>2, <2>3, <2>4, <2>5 DEF OrderInv
  <1>5. CASE Activate \/ TickFlush \/ SeeDone \/ DrainEnds
    <2>1. /\ UNCHANGED <<deviceWrites, buf, saved, stored, bypassed, at>>
          /\ writer \notin {"returned"} /\ writer' \in {"loop", "flush", "drain", "stop", "last"}
          /\ writerActive' = TRUE
          BY <1>5 DEF Activate, TickFlush, SeeDone, DrainEnds, histVars, handlerVars, OrderInv
    <2> QED BY <2>1 DEF OrderInv
  <1>6. CASE Deactivate
    <2>1. /\ UNCHANGED <<saved, stored, bypassed>> /\ writer' = "returned" /\ writerActive' = FALSE
          BY <1>6 DEF Deactivate, histVars
    <2> QED BY <2>1 DEF OrderInv
  <1>7. ASSUME NEW h \in Handlers, LoadActive(h) PROVE OrderInv'
    <2>1. /\ at' = [at EXCEPT ![h] = IF writerActive THEN "send" ELSE "write"]
          /\ bypassed' = (bypassed \/ writer = "start")
          /\ UNCHANGED <<deviceWrites, buf, saved, stored, writer, writerActive>>
          BY <1>7 DEF LoadActive
    <2>2. ASSUME ~ bypassed', writer # "returned" PROVE \A k \in Handlers : at'[k] # "write"
      <3>1. writerActive /\ \A k \in Handlers : at[k] # "write"
            BY <2>1, <2>2 DEF OrderInv
      <3> QED BY <1>0, <2>1, <3>1
    <2>3. bypassed' \/ ~ bypassed
          BY <2>1
    <2> QED BY <2>1, <2>2, <2>3 DEF OrderInv
  <1>8. ASSUME NEW h \in Handlers, Full(h) PROVE OrderInv'
    <2>1. bypassed' /\ UNCHANGED <<writer, writerActive>>
          BY <1>8 DEF Full
    <2> QED BY <2>1 DEF OrderInv
  <1>9. CASE Discover \/ PollEntry \/ PollEnd \/ UpdateDeviceLabel \/ Cancel \/ UNCHANGED vars
             \/ \E h \in Handlers : Returned(h)
    <2>1. /\ UNCHANGED <<deviceWrites, buf, saved, bypassed, stored, writer, writerActive>>
          BY <1>9 DEF Discover, ParseDHCP, ParseMDNS, UpsertFromSSDP, Packet, PollBegin, PollEntry, PollEnd,
                      UpdateDeviceLabel, Cancel, Returned, vars, histVars
    <2>2. \/ at' = at
          \/ \E h \in Handlers, a \in States : a # "write" /\ at' = [at EXCEPT ![h] = a]
          \/ at' = [k \in Handlers |-> IF k = "arp" \/ at[k] = "off" THEN "idle" ELSE at[k]]
          BY <1>9 DEF Discover, ParseDHCP, ParseMDNS, UpsertFromSSDP, Found, PollBegin, PollEntry, PollEnd,
                      UpdateDeviceLabel, Cancel, Returned, vars, handlerVars, States, Handlers, Listeners
    <2>3. \A k \in Handlers : at'[k] = "write" => at[k] = "write"
          BY <1>0, <2>2
    <2> QED BY <2>1, <2>3 DEF OrderInv
  <1> QED BY <1>1, <1>2, <1>3, <1>4, <1>5, <1>6, <1>7, <1>8, <1>9
          DEF Next, Save, Writer, ListenerStops, RunStops, Handlers

LEMMA OrderAlways == Spec => []OrderInv
  <1>1. Init => OrderInv
    <2> SUFFICES ASSUME Init PROVE OrderInv
        OBVIOUS
    <2>1. /\ deviceWrites = <<>> /\ buf = <<>> /\ stored = <<>> /\ writer = "start" /\ ~ writerActive
          /\ \A h \in Handlers : at[h] # "write"
          BY DEF Init
    <2>2. /\ ToSet(deviceWrites) = {} /\ ToSet(buf) = {} /\ ToSet(stored) = {}
          /\ DOMAIN deviceWrites = {} /\ DOMAIN buf = {} /\ DOMAIN stored = {}
          BY <2>1, SeqOfNothing
    <2>3. writerActive = (writer \notin {"start", "returned"})
      <3>1. writerActive = FALSE
            BY DEF Init
      <3> QED BY <2>1, <3>1
    <2>4. SortedIn(saved, stored) /\ SortedIn(saved, buf) /\ SortedIn(saved, deviceWrites)
          BY <2>2 DEF SortedIn
    <2>5. /\ Ahead(saved, ToSet(stored), ToSet(buf)) /\ Ahead(saved, ToSet(buf), ToSet(deviceWrites))
          /\ Ahead(saved, ToSet(stored), ToSet(deviceWrites))
          BY <2>2 DEF Ahead
    <2> QED BY <2>1, <2>3, <2>4, <2>5 DEF OrderInv
  <1> QED BY <1>1, OrderStep, PartsAlways, TypesAlways, InvAlways, PTL DEF Spec

\* As long as nothing passed the channel by, the table gets discoveries in the order in
\* which they were saved, through every batch and through the end of the device writer.
THEOREM InOrderAlways == Spec => []InOrder
  <1>1. OrderInv => InOrder
        BY DEF OrderInv, InOrder, SortedIn, Before, Precedes
  <1> QED BY <1>1, OrderAlways, PTL

LEMMA LeastIs ==
    ASSUME NEW T \in SUBSET Nat, T # {}
    PROVE  \E n \in T : \A m \in T : n <= m
<1> DEFINE Below(n) == 0 .. (n - 1)
           W == {Below(n) : n \in T}
<1>1. \A n \in T : Below(n) \in FiniteSubsetsOf(Nat)
  <2>1. \A n \in T : Below(n) \in SUBSET Nat
    OBVIOUS
  <2>2. \A n \in T : IsFiniteSet(Below(n))
    BY FS_Interval
  <2> HIDE DEF Below
  <2> QED
    BY <2>1, <2>2 DEF FiniteSubsetsOf
<1>2. W \subseteq FiniteSubsetsOf(Nat) /\ W # {}
  <2> HIDE DEF Below
  <2> QED
    BY <1>1
<1>3. PICK x \in W : \A y \in W : ~ (<<y, x>> \in StrictSubsetOrdering(Nat))
  BY <1>2, FS_StrictSubsetOrderingWellFounded, WFMin
<1>4. PICK n \in T : x = Below(n)
  BY <1>3
<1>5. ASSUME NEW m \in T, m < n PROVE FALSE
  <2>1. Below(m) \in W
    OBVIOUS
  <2>2. Below(m) \subseteq Below(n) /\ m \in Below(n) /\ m \notin Below(m)
    BY <1>5
  <2>3. Below(m) \subseteq Nat /\ Below(n) \subseteq Nat /\ Below(m) # Below(n)
    BY <2>2
  <2>4. <<Below(m), Below(n)>> \in StrictSubsetOrdering(Nat)
    BY <2>2, <2>3 DEF StrictSubsetOrdering
  <2> QED
    BY <1>3, <1>4, <2>1, <2>4
<1>6. \A m \in T : n <= m
  BY <1>5
<1> QED
  BY <1>6

LEMMA GreatestIs ==
    ASSUME NEW S \in SUBSET Nat, S # {}, NEW b \in Nat, \A s \in S : s <= b
    PROVE  Max(S) \in S /\ \A s \in S : s <= Max(S)
<1> DEFINE Bounds == {n \in Nat : \A s \in S : s <= n}
<1>1. PICK m \in Bounds : \A n \in Bounds : m <= n
  BY LeastIs
<1>2. m \in S
  <2> SUFFICES ASSUME m \notin S PROVE FALSE
    OBVIOUS
  <2>1. \A s \in S : s < m
    OBVIOUS
  <2>2. m # 0 /\ m - 1 \in Nat
    <3>1. PICK s \in S : s \in Nat
      OBVIOUS
    <3>2. s < m /\ m \in Nat
      BY <2>1, <3>1
    <3> QED
      BY <3>1, <3>2
  <2>3. \A s \in S : s <= m - 1
    BY <2>1
  <2>4. m - 1 \in Bounds
    BY <2>2, <2>3
  <2> QED
    BY <1>1, <2>4
<1>3. \E x \in S : \A y \in S : x >= y
  BY <1>2
<1>4. Max(S) \in S /\ \A y \in S : Max(S) >= y
  BY <1>3 DEF Max
<1> QED
  BY <1>4
-----------------------------------------------------------------------------
\* The rows.

\* Which of the discoveries I of s are of m, and the latest of these with a value of f.
Indices(I, m, s) == {j \in I : s[j].mac = m}
Telling(I, m, s, f) == {j \in Indices(I, m, s) : s[j][f] # Empty}
LatestOf(I, m, s, f) == IF Telling(I, m, s, f) = {} THEN Empty ELSE s[Max(Telling(I, m, s, f))][f]

\* The row that the discoveries I of s give m.
RowOf(I, m, s) ==
    IF Indices(I, m, s) = {} THEN NoRow
    ELSE [ip |-> LatestOf(I, m, s, "ip"), host |-> LatestOf(I, m, s, "host"),
          vendor |-> LatestOf(I, m, s, "vendor"), label |-> given[m],
          first |-> s[Min(Indices(I, m, s))].seen, last |-> s[Max(Indices(I, m, s))].seen]
RowsOf(I, s) == [m \in Macs |-> RowOf(I, m, s)]

\* A device without a row has no label.
RowsInv ==
    /\ devices = RowsOf(DOMAIN stored, stored)
    /\ \A m \in Macs : Indices(DOMAIN stored, m, stored) = {} => given[m] = Empty

LEMMA GreatestOf ==
  ASSUME NEW n \in Nat, NEW S, S \subseteq 1..n, S # {}
  PROVE  Max(S) \in S /\ (\A s \in S : s <= Max(S)) /\ Min(S) \in S
  <1>1. S \in SUBSET Nat /\ \A s \in S : s <= n
        OBVIOUS
  <1>2. \E k \in S : \A m \in S : k <= m
        BY <1>1, LeastIs
  <1> QED BY <1>1, <1>2, GreatestIs DEF Min

LEMMA LastIsGreatest ==
  ASSUME NEW I \in SUBSET Nat, NEW j \in Nat, \A i \in I : i < j
  PROVE  Max(I \cup {j}) = j
  <1>1. \A x \in I \cup {j} : (\A y \in I \cup {j} : x >= y) => x = j
        OBVIOUS
  <1>2. j \in I \cup {j} /\ \A y \in I \cup {j} : j >= y
        OBVIOUS
  <1> QED BY <1>1, <1>2 DEF Max

LEMMA FirstStays ==
  ASSUME NEW I \in SUBSET Nat, I # {}, NEW j \in Nat, \A i \in I : i < j
  PROVE  Min(I \cup {j}) = Min(I) /\ Min(I) \in I
  <1>1. PICK n \in I : \A m \in I : n <= m
        BY LeastIs
  <1>2. Min(I) \in I /\ \A m \in I : Min(I) <= m
        BY <1>1 DEF Min
  <1> DEFINE k == Min(I)
  <1>3. k \in Nat /\ k \in I /\ (\A y \in I : k <= y) /\ k <= j
    <2>1. k \in I /\ \A y \in I : k <= y
          BY <1>2
    <2> HIDE DEF k
    <2> QED BY <2>1
  <1> HIDE DEF k
  <1>4. \A y \in I \cup {j} : k <= y
        BY <1>3
  <1>5. ASSUME NEW x \in I \cup {j}, \A y \in I \cup {j} : x <= y PROVE x = k
    <2>1. x <= k /\ k <= x /\ x \in Nat
          BY <1>3, <1>4, <1>5
    <2> QED BY <1>3, <2>1
  <1>6. Min(I \cup {j}) = k
        BY <1>3, <1>4, <1>5 DEF Min
  <1> QED BY <1>2, <1>6 DEF k

\* One more discovery tells its device's fields, or leaves them (Coalesce).
LEMMA LatestGrown ==
  ASSUME NEW I \in SUBSET Nat, NEW j \in Nat, \A i \in I : i < j, NEW m, NEW s, NEW f
  PROVE  LatestOf(I \cup {j}, m, s, f)
           = IF s[j].mac = m THEN Coalesce(s[j][f], LatestOf(I, m, s, f)) ELSE LatestOf(I, m, s, f)
  <1> DEFINE T == Telling(I, m, s, f)
             U == Telling(I \cup {j}, m, s, f)
  <1>1. T \in SUBSET Nat /\ \A i \in T : i < j
        BY DEF Telling, Indices
  <1>2. CASE s[j].mac = m /\ s[j][f] # Empty
    <2>1. U = T \cup {j}
          BY <1>2 DEF Telling, Indices
    <2>2. Max(U) = j /\ U # {}
          BY <1>1, <2>1, LastIsGreatest
    <2> QED BY <1>2, <2>2 DEF LatestOf, Coalesce
  <1>3. CASE ~ (s[j].mac = m /\ s[j][f] # Empty)
    <2>1. U = T
          BY <1>3 DEF Telling, Indices
    <2>2. LatestOf(I \cup {j}, m, s, f) = LatestOf(I, m, s, f)
          BY <2>1 DEF LatestOf
    <2> QED BY <1>3, <2>2 DEF Coalesce
  <1> QED BY <1>2, <1>3

RowWith(a, b, c, l, x, y) == [ip |-> a, host |-> b, vendor |-> c, label |-> l, first |-> x, last |-> y]

LEMMA MergedIs ==
  ASSUME NEW a, NEW b, NEW c, NEW l, NEW x, NEW y, NEW d
  PROVE  Merged(RowWith(a, b, c, l, x, y), d)
           = RowWith(Coalesce(d.ip, a), Coalesce(d.host, b), Coalesce(d.vendor, c), l, x, d.seen)
  <1> DEFINE row == RowWith(a, b, c, l, x, y)
             i == Coalesce(d.ip, a)
             h == Coalesce(d.host, b)
             v == Coalesce(d.vendor, c)
             t == d.seen
             r1 == [row EXCEPT !.ip = i]
             r2 == [r1 EXCEPT !.host = h]
             r3 == [r2 EXCEPT !.vendor = v]
             r4 == [r3 EXCEPT !.last = t]
  <1>1. row.ip = a /\ row.host = b /\ row.vendor = c
        BY DEF RowWith
  <1>2. Merged(row, d) = [row EXCEPT !.ip = i, !.host = h, !.vendor = v, !.last = t]
    <2> HIDE DEF row
    <2> QED BY <1>1 DEF Merged
  <1> HIDE DEF i, h, v, t
  <1>3. [row EXCEPT !.ip = i, !.host = h, !.vendor = v, !.last = t] = r4
    <2> HIDE DEF row
    <2> QED OBVIOUS
  <1>4. r1 = RowWith(i, b, c, l, x, y)
        BY DEF RowWith
  <1>5. r2 = RowWith(i, h, c, l, x, y)
    <2> HIDE DEF r1
    <2> QED BY <1>4 DEF RowWith
  <1>6. r3 = RowWith(i, h, v, l, x, y)
    <2> HIDE DEF r2
    <2> QED BY <1>5 DEF RowWith
  <1>7. r4 = RowWith(i, h, v, l, x, t)
    <2> HIDE DEF r3
    <2> QED BY <1>6 DEF RowWith
  <1> HIDE DEF r4
  <1> QED BY <1>2, <1>3, <1>7 DEF i, h, v, t

\* upsertDeviceSQL does to the rows what one more discovery does.
LEMMA RowsGrown ==
  ASSUME NEW I \in SUBSET Nat, NEW j \in Nat, \A i \in I : i < j, NEW s,
         s[j] \in Discovery, \A i \in I : s[i] \in Discovery,
         Indices(I, s[j].mac, s) = {} => given[s[j].mac] = Empty
  PROVE  RowsOf(I \cup {j}, s) = Upsert(RowsOf(I, s), s[j])
  <1> DEFINE d == s[j]
  <1>1. /\ d.mac \in Macs /\ \A i \in I : s[i].seen \in Nat \ {0}
        /\ d["ip"] = d.ip /\ d["host"] = d.host /\ d["vendor"] = d.vendor
        BY TrackerAssumption DEF Discovery, TrackerAssumption
  <1>2. ASSUME NEW m \in Macs, m # d.mac PROVE RowOf(I \cup {j}, m, s) = RowOf(I, m, s)
    <2>1. Indices(I \cup {j}, m, s) = Indices(I, m, s)
          BY <1>2 DEF Indices
    <2>2. \A f : LatestOf(I \cup {j}, m, s, f) = LatestOf(I, m, s, f)
          BY <1>2, LatestGrown
    <2> QED BY <2>1, <2>2 DEF RowOf
  <1>3. RowOf(I \cup {j}, d.mac, s) = IF RowOf(I, d.mac, s) = NoRow THEN NewRow(d) ELSE Merged(RowOf(I, d.mac, s), d)
    <2> DEFINE m == d.mac
               S == Indices(I, m, s)
    <2>1. S \in SUBSET Nat /\ (\A i \in S : i < j) /\ Indices(I \cup {j}, m, s) = S \cup {j}
          BY DEF Indices
    <2>2. Max(S \cup {j}) = j
          BY <2>1, LastIsGreatest
    <2>3. \A f : LatestOf(I \cup {j}, m, s, f) = Coalesce(d[f], LatestOf(I, m, s, f))
          BY LatestGrown
    <2>4. RowOf(I \cup {j}, m, s)
            = [ip |-> Coalesce(d.ip, LatestOf(I, m, s, "ip")), host |-> Coalesce(d.host, LatestOf(I, m, s, "host")),
               vendor |-> Coalesce(d.vendor, LatestOf(I, m, s, "vendor")), label |-> given[m],
               first |-> s[Min(S \cup {j})].seen, last |-> d.seen]
      <3>1. S \cup {j} # {}
            OBVIOUS
      <3> HIDE DEF S
      <3> QED BY <1>1, <2>1, <2>2, <2>3, <3>1 DEF RowOf
    <2>5. CASE S = {}
      <3>1. RowOf(I, m, s) = NoRow /\ given[m] = Empty
            BY <2>5 DEF RowOf
      <3>2. \A f : LatestOf(I, m, s, f) = Empty
            BY <2>5 DEF LatestOf, Telling
      <3>3. Min({j}) = j /\ S \cup {j} = {j}
        <4>1. \A x \in {j} : x = j
              OBVIOUS
        <4>2. j \in {j} /\ \A y \in {j} : j <= y
              OBVIOUS
        <4> QED BY <2>5, <4>1, <4>2 DEF Min
      <3>4. \A x : Coalesce(x, Empty) = x
            BY DEF Coalesce
      <3> HIDE DEF S, m
      <3>5. RowOf(I \cup {j}, m, s) = NewRow(d)
            BY <2>4, <3>1, <3>2, <3>3, <3>4 DEF NewRow
      <3> QED BY <3>1, <3>5 DEF m
    <2>6. CASE S # {}
      <3>1. Min(S \cup {j}) = Min(S) /\ Min(S) \in S
            BY <2>1, <2>6, FirstStays
      <3> DEFINE r == [ip |-> LatestOf(I, m, s, "ip"), host |-> LatestOf(I, m, s, "host"),
                       vendor |-> LatestOf(I, m, s, "vendor"), label |-> given[m],
                       first |-> s[Min(S)].seen, last |-> s[Max(S)].seen]
      <3>2. RowOf(I, m, s) = r
            BY <2>6 DEF RowOf
      <3>3. r.first # 0
        <4>1. Min(S) \in I
              BY <3>1 DEF Indices
        <4> QED BY <1>1, <4>1
      <3>4. r # NoRow
            BY <3>3 DEF NoRow
      <3> HIDE DEF S, m
      <3>5. Merged(r, d) = RowOf(I \cup {j}, m, s)
            BY <2>4, <3>1, MergedIs DEF RowWith
      <3> HIDE DEF r
      <3> QED BY <3>2, <3>4, <3>5 DEF m
    <2> QED BY <2>5, <2>6
  <1> DEFINE R == RowsOf(I, s)
  <1>4. R \in [Macs -> {R[m] : m \in Macs}] /\ \A m \in Macs : R[m] = RowOf(I, m, s)
        BY DEF RowsOf
  <1>5. Upsert(R, d) = [m \in Macs |-> IF m = d.mac THEN IF R[m] = NoRow THEN NewRow(d) ELSE Merged(R[m], d)
                                       ELSE R[m]]
    <2> HIDE DEF R, d
    <2> QED BY <1>1, <1>4 DEF Upsert
  <1>6. \A m \in Macs : RowOf(I \cup {j}, m, s)
                          = IF m = d.mac THEN IF R[m] = NoRow THEN NewRow(d) ELSE Merged(R[m], d) ELSE R[m]
    <2> HIDE DEF R, d
    <2>1. ASSUME NEW m \in Macs
          PROVE  RowOf(I \cup {j}, m, s)
                          = IF m = d.mac THEN IF R[m] = NoRow THEN NewRow(d) ELSE Merged(R[m], d) ELSE R[m]
      <3>1. CASE m = d.mac
            BY <1>3, <1>4, <3>1
      <3>2. CASE m # d.mac
            BY <1>2, <1>4, <3>2
      <3> QED BY <3>1, <3>2
    <2> QED BY <2>1
  <1> HIDE DEF R, d
  <1>7. RowsOf(I \cup {j}, s) = Upsert(R, d)
        BY <1>5, <1>6 DEF RowsOf
  <1> QED BY <1>7 DEF R, d

\* A transaction does to the rows what its discoveries do one after the other: the function
\* that the fold computes with gives the rows of what was stored and of a part of the batch,
\* by its rule and by induction on the part.
LEMMA FoldIs ==
  ASSUME NEW ds \in Seq(Discovery), stored \in Seq(Discovery), RowsInv
  PROVE  FoldLeft(Upsert, devices, ds) = RowsOf(DOMAIN (stored \o ds), stored \o ds)
  <1> DEFINE n == Len(stored)
             all == stored \o ds
             D == DOMAIN ds
             Hist(s) == DOMAIN stored \cup {n + i : i \in s}
             rule(f) == [s \in SUBSET D |-> IF s = {} THEN devices
                                            ELSE Upsert(f[s \ {Max(s)}], ds[Max(s)])]
             iter == CHOOSE f : f = rule(f)
             rows == [s \in SUBSET D |-> RowsOf(Hist(s), all)]
  <1>1. FoldLeft(Upsert, devices, ds) = iter[D]
        BY DEF FoldLeft, MapThenFoldSet
  <1>2. /\ n \in Nat /\ Len(ds) \in Nat /\ DOMAIN stored = 1..n /\ D = 1..Len(ds) /\ DOMAIN all = 1..(n + Len(ds))
        /\ \A i \in 1..n : all[i] = stored[i]
        /\ \A i \in D : all[n + i] = ds[i] /\ ds[i] \in Discovery
        /\ all \in Seq(Discovery)
        OBVIOUS
  <1>3. Hist({}) = DOMAIN stored /\ Hist(D) = DOMAIN all
    <2>1. Hist({}) = DOMAIN stored
          OBVIOUS
    <2>2. ASSUME NEW i \in 1..(n + Len(ds)) PROVE i \in Hist(D)
      <3>1. CASE i <= n
            BY <1>2, <3>1
      <3>2. CASE i > n
        <4>1. i - n \in D /\ i = n + (i - n)
              BY <1>2, <3>2
        <4> QED BY <4>1
      <3> QED BY <1>2, <3>1, <3>2
    <2>3. Hist(D) \subseteq 1..(n + Len(ds))
          BY <1>2
    <2> QED BY <1>2, <2>1, <2>2, <2>3
  <1>4. RowsOf(Hist({}), all) = devices
    <2>1. \A m, f : /\ Indices(DOMAIN stored, m, all) = Indices(DOMAIN stored, m, stored)
                    /\ Telling(DOMAIN stored, m, all, f) = Telling(DOMAIN stored, m, stored, f)
          BY <1>2 DEF Indices, Telling
    <2>2. \A m, f : LatestOf(DOMAIN stored, m, all, f) = LatestOf(DOMAIN stored, m, stored, f)
      <3>1. ASSUME NEW m, NEW f, Telling(DOMAIN stored, m, stored, f) # {}
            PROVE  Max(Telling(DOMAIN stored, m, stored, f)) \in DOMAIN stored
        <4>1. Telling(DOMAIN stored, m, stored, f) \subseteq DOMAIN stored
              BY DEF Telling, Indices
        <4> QED BY <1>2, <3>1, <4>1, GreatestOf
      <3> HIDE DEF all, n
      <3>2. ASSUME NEW m, NEW f PROVE LatestOf(DOMAIN stored, m, all, f) = LatestOf(DOMAIN stored, m, stored, f)
            BY <1>2, <2>1, <3>1 DEF LatestOf
      <3> QED BY <3>2
    <2>3. ASSUME NEW m PROVE RowOf(DOMAIN stored, m, all) = RowOf(DOMAIN stored, m, stored)
      <3> DEFINE S == Indices(DOMAIN stored, m, stored)
      <3>1. S \subseteq DOMAIN stored
            BY DEF Indices
      <3>2. S # {} => Max(S) \in DOMAIN stored /\ Min(S) \in DOMAIN stored
            BY <1>2, <3>1, GreatestOf
      <3> HIDE DEF S, all, n
      <3>3. Indices(DOMAIN stored, m, all) = S
            BY <2>1 DEF S
      <3>4. S # {} => all[Max(S)] = stored[Max(S)] /\ all[Min(S)] = stored[Min(S)]
            BY <1>2, <3>2
      <3> QED BY <2>2, <3>3, <3>4 DEF RowOf, S
    <2> HIDE DEF all
    <2>4. RowsOf(DOMAIN stored, all) = RowsOf(DOMAIN stored, stored)
          BY <2>3 DEF RowsOf
    <2> HIDE DEF Hist
    <2> QED BY <1>3, <2>4 DEF RowsInv
  <1>5. ASSUME NEW s \in SUBSET D, s # {}
        PROVE  Max(s) \in s /\ RowsOf(Hist(s), all) = Upsert(RowsOf(Hist(s \ {Max(s)}), all), ds[Max(s)])
    <2> DEFINE k == Max(s)
               I == Hist(s \ {k})
    <2>1. k \in s /\ \A i \in s : i <= k
          BY <1>2, <1>5, GreatestOf
    <2> HIDE DEF k
    <2>2. Hist(s) = I \cup {n + k}
          BY <2>1
    <2>3. I \in SUBSET Nat /\ I \subseteq DOMAIN all /\ n + k \in Nat /\ n + k \in DOMAIN all
          BY <1>2, <2>1
    <2>4. \A i \in I : i < n + k
          BY <1>2, <2>1
    <2>5. all[n + k] = ds[k] /\ all[n + k] \in Discovery /\ \A i \in I : all[i] \in Discovery
      <3>1. \A i \in DOMAIN all : all[i] \in Discovery
            BY <1>2
      <3> QED BY <1>2, <2>1, <2>3, <3>1
    <2>6. ASSUME Indices(I, ds[k].mac, all) = {} PROVE given[ds[k].mac] = Empty
      <3> DEFINE m == ds[k].mac
      <3>1. m \in Macs
            BY <1>2, <2>1 DEF Discovery
      <3>2. Indices(DOMAIN stored, m, stored) \subseteq Indices(I, m, all)
            BY <1>2 DEF Indices
      <3>3. Indices(DOMAIN stored, m, stored) = {}
            BY <2>6, <3>2
      <3> HIDE DEF m
      <3>4. given[m] = Empty
            BY <3>1, <3>3 DEF RowsInv
      <3> QED BY <3>4 DEF m
    <2> HIDE DEF I, all, n, Hist
    <2>7. RowsOf(I \cup {n + k}, all) = Upsert(RowsOf(I, all), all[n + k])
          BY <2>3, <2>4, <2>5, <2>6, RowsGrown
    <2> QED BY <2>1, <2>2, <2>5, <2>7 DEF I, k
  <1>6. rows = rule(rows)
    <2> HIDE DEF Hist, all
    <2>1. \A s \in SUBSET D : s \ {Max(s)} \in SUBSET D
          OBVIOUS
    <2>2. \A s \in SUBSET D : rows[s] = IF s = {} THEN devices ELSE Upsert(rows[s \ {Max(s)}], ds[Max(s)])
          BY <1>4, <1>5, <2>1
    <2> QED BY <2>2
  <1>7. iter = rule(iter)
    <2> HIDE DEF rule, rows
    <2> QED BY <1>6
  <1>8. \A s \in SUBSET D : IsFiniteSet(s)
    <2>1. 1 \in Int /\ Len(ds) \in Int
          BY <1>2
    <2>2. IsFiniteSet(1..Len(ds))
          BY <2>1, FS_Interval
    <2> QED BY <1>2, <2>2, FS_Subset
  <1>9. \A s \in SUBSET D : iter[s] = rows[s]
    <2> DEFINE Bad == {s \in FiniteSubsetsOf(D) : iter[s] # rows[s]}
    <2>1. Bad = {}
      <3> SUFFICES ASSUME Bad # {} PROVE FALSE
          OBVIOUS
      <3>1. Bad \subseteq FiniteSubsetsOf(D)
            OBVIOUS
      <3>2. PICK s \in Bad : \A t \in Bad : ~ (<<t, s>> \in StrictSubsetOrdering(D))
        <4> HIDE DEF Bad
        <4> QED BY <3>1, FS_StrictSubsetOrderingWellFounded, WFMin
      <3>3. s \in SUBSET D /\ IsFiniteSet(s)
            BY DEF FiniteSubsetsOf
      <3> HIDE DEF iter, rows
      <3>4. iter[s] = IF s = {} THEN devices ELSE Upsert(iter[s \ {Max(s)}], ds[Max(s)])
            BY <1>7, <3>3
      <3>5. rows[s] = IF s = {} THEN devices ELSE Upsert(rows[s \ {Max(s)}], ds[Max(s)])
            BY <1>6, <3>3
      <3>6. s # {}
            BY <3>2, <3>4, <3>5
      <3>7. Max(s) \in s
            BY <1>5, <3>3, <3>6
      <3>8. s \ {Max(s)} \in SUBSET D /\ IsFiniteSet(s \ {Max(s)})
            BY <1>8, <3>3
      <3>9. s \ {Max(s)} \notin Bad
        <4>1. <<s \ {Max(s)}, s>> \in StrictSubsetOrdering(D)
              BY <3>3, <3>7, <3>8 DEF StrictSubsetOrdering
        <4> HIDE DEF Bad
        <4> QED BY <3>2, <4>1
      <3>10. iter[s \ {Max(s)}] = rows[s \ {Max(s)}]
            BY <3>8, <3>9 DEF FiniteSubsetsOf
      <3>11. iter[s] # rows[s]
            BY <3>2
      <3> QED BY <3>4, <3>5, <3>6, <3>10, <3>11
    <2> HIDE DEF iter, rows
    <2> QED BY <1>8, <2>1 DEF FiniteSubsetsOf
  <1>10. rows[D] = RowsOf(DOMAIN all, all)
    <2> HIDE DEF Hist, all
    <2> QED BY <1>3
  <1> HIDE DEF iter, rows
  <1>11. iter[D] = rows[D]
        BY <1>9
  <1> QED BY <1>1, <1>10, <1>11

LEMMA RowsStored ==
  ASSUME RowsInv, stored \in Seq(Discovery), NEW ds \in Seq(Discovery), UpsertDevices(ds), given' = given
  PROVE  RowsInv'
  <1>1. CASE devices' = devices /\ stored' = stored
        BY <1>1 DEF RowsInv, RowsOf, RowOf, LatestOf
  <1>2. CASE devices' = FoldLeft(Upsert, devices, ds) /\ stored' = stored \o ds
    <2> DEFINE all == stored \o ds
    <2>1. DOMAIN stored \subseteq DOMAIN all /\ \A i \in DOMAIN stored : all[i] = stored[i]
          OBVIOUS
    <2>2. devices' = RowsOf(DOMAIN all, all)
          BY <1>2, FoldIs
    <2>3. ASSUME NEW m \in Macs, Indices(DOMAIN all, m, all) = {} PROVE given[m] = Empty
      <3>1. Indices(DOMAIN stored, m, stored) \subseteq Indices(DOMAIN all, m, all)
            BY <2>1 DEF Indices
      <3>2. Indices(DOMAIN stored, m, stored) = {}
            BY <2>3, <3>1
      <3> QED BY <3>2 DEF RowsInv
    <2>4. stored' = all
          BY <1>2
    <2> HIDE DEF all
    <2>5. devices' = RowsOf(DOMAIN stored, stored)'
          BY <2>2, <2>4 DEF RowsOf, RowOf, LatestOf, Telling, Indices
    <2> QED BY <2>3, <2>4, <2>5 DEF RowsInv, Indices
  <1> QED BY <1>1, <1>2 DEF UpsertDevices

LEMMA RowsLabelled ==
  ASSUME RowsInv, given \in [Macs -> Labels \cup {Empty}], UpdateDeviceLabel
  PROVE  RowsInv'
  <1>1. PICK k \in Macs, l \in Labels : /\ Known(k) /\ devices' = [devices EXCEPT ![k].label = l]
                                        /\ given' = [given EXCEPT ![k] = l]
        BY DEF UpdateDeviceLabel
  <1>2. stored' = stored
        BY DEF UpdateDeviceLabel
  <1> DEFINE S(m) == Indices(DOMAIN stored, m, stored)
             Row(m, g) == [ip |-> LatestOf(DOMAIN stored, m, stored, "ip"),
                           host |-> LatestOf(DOMAIN stored, m, stored, "host"),
                           vendor |-> LatestOf(DOMAIN stored, m, stored, "vendor"), label |-> g,
                           first |-> stored[Min(S(m))].seen, last |-> stored[Max(S(m))].seen]
  <1>3. \A m \in Macs : devices[m] = IF S(m) = {} THEN NoRow ELSE Row(m, given[m])
        BY DEF RowsInv, RowsOf, RowOf
  <1>4. S(k) # {}
        BY <1>1, <1>3 DEF Known
  <1>5. devices \in [Macs -> {devices[m] : m \in Macs}]
        BY DEF RowsInv, RowsOf
  <1>6. [devices[k] EXCEPT !.label = l] = Row(k, l)
    <2>1. devices[k] = Row(k, given[k])
          BY <1>3, <1>4
    <2>2. [Row(k, given[k]) EXCEPT !.label = l] = Row(k, l)
      <3> HIDE DEF S
      <3> QED OBVIOUS
    <2> QED BY <2>1, <2>2
  <1> HIDE DEF S, Row
  <1>7. \A m \in Macs : devices'[m] = IF m = k THEN Row(k, l) ELSE devices[m]
        BY <1>1, <1>5, <1>6
  <1>8. \A m \in Macs : devices'[m] = IF S(m) = {} THEN NoRow ELSE Row(m, given'[m])
        BY <1>1, <1>3, <1>4, <1>7
  <1>9. devices' = [m \in Macs |-> IF S(m) = {} THEN NoRow ELSE Row(m, given'[m])]
    <2>1. devices' \in [Macs -> {devices'[m] : m \in Macs}]
          BY <1>1, <1>5
    <2> QED BY <1>8, <2>1
  <1>10. \A m \in Macs : S(m) = {} => given'[m] = Empty
    <2>1. \A m \in Macs : S(m) = {} => given[m] = Empty
          BY DEF RowsInv, S
    <2> QED BY <1>1, <1>4, <2>1
  <1> QED BY <1>2, <1>9, <1>10 DEF RowsInv, RowsOf, RowOf, Row, S, LatestOf, Telling, Indices

LEMMA RowsStep == TInv /\ RowsInv /\ [Next]_vars => RowsInv'
  <1> SUFFICES ASSUME TInv, RowsInv, [Next]_vars PROVE RowsInv'
      OBVIOUS
  <1>0. /\ stored \in Seq(Discovery) /\ buf \in Seq(Discovery) /\ given \in [Macs -> Labels \cup {Empty}]
        /\ \A h \in Handlers : at[h] = "write" => dev[h] \in Discovery
        BY DEF TInv, HistTypes, WriterTypes, HandlerTypes, Saving
  <1>1. CASE Flush
    <2>1. UpsertDevices(buf) /\ given' = given
          BY <1>1 DEF Flush
    <2> QED BY <1>0, <2>1, RowsStored
  <1>2. ASSUME NEW h \in Handlers, UpsertDevice(h) PROVE RowsInv'
    <2>1. at[h] = "write" /\ UpsertDevices(<<dev[h]>>) /\ given' = given
          BY <1>2 DEF UpsertDevice
    <2>2. <<dev[h]>> \in Seq(Discovery)
          BY <1>0, <2>1
    <2> QED BY <1>0, <2>1, <2>2, RowsStored
  <1>3. CASE UpdateDeviceLabel
        BY <1>0, <1>3, RowsLabelled
  <1>4. CASE UNCHANGED <<devices, stored, given>>
        BY <1>4 DEF RowsInv, RowsOf, RowOf, LatestOf, Telling, Indices
  <1>5. CASE Discover \/ PollEntry \/ PollEnd
    <2>1. UNCHANGED <<devices, stored, given>>
          BY <1>5 DEF Discover, ParseDHCP, ParseMDNS, UpsertFromSSDP, Packet, PollBegin, PollEntry, PollEnd, histVars
    <2> QED BY <1>4, <2>1
  <1>6. ASSUME NEW h \in Handlers, LoadActive(h) \/ Send(h) \/ Full(h) \/ Returned(h) PROVE RowsInv'
    <2>1. UNCHANGED <<devices, stored, given>>
          BY <1>6 DEF LoadActive, Send, Full, Returned, histVars
    <2> QED BY <1>4, <2>1
  <1>7. CASE Activate \/ Take \/ TickFlush \/ SeeDone \/ DrainEnds \/ Deactivate \/ Cancel \/ UNCHANGED vars
    <2>1. UNCHANGED <<devices, stored, given>>
          BY <1>7 DEF Activate, Take, TickFlush, SeeDone, DrainEnds, Deactivate, Cancel, vars, histVars
    <2> QED BY <1>4, <2>1
  <1> QED BY <1>1, <1>2, <1>3, <1>5, <1>6, <1>7
          DEF Next, Save, Writer, ListenerStops, RunStops, Handlers

\* The row of a device is what was stored of it: of each field the latest value, the first
\* and the last time, and the label that the user gave it.
THEOREM RowsAgreeAlways == Spec => []RowsAgree
  <1>1. Init => RowsInv
    <2> SUFFICES ASSUME Init PROVE RowsInv
        OBVIOUS
    <2>1. devices = [m \in Macs |-> NoRow] /\ given = [m \in Macs |-> Empty] /\ DOMAIN stored = {}
          BY DEF Init
    <2>2. \A m : Indices(DOMAIN stored, m, stored) = {}
          BY <2>1 DEF Indices
    <2> QED BY <2>1, <2>2 DEF RowsInv, RowsOf, RowOf
  <1>2. RowsInv => RowsAgree
    <2> SUFFICES ASSUME RowsInv, NEW m \in Macs
                 PROVE  LET S == {i \in DOMAIN stored : stored[i].mac = m}
                        IN  devices[m] = IF S = {} THEN NoRow
                               ELSE [ip |-> LastOf(m, "ip"), host |-> LastOf(m, "host"),
                                     vendor |-> LastOf(m, "vendor"), label |-> given[m],
                                     first |-> stored[Min(S)].seen, last |-> stored[Max(S)].seen]
        BY DEF RowsAgree
    <2>1. devices[m] = RowOf(DOMAIN stored, m, stored)
          BY DEF RowsInv, RowsOf
    <2>2. \A f : Telling(DOMAIN stored, m, stored, f)
                   = {i \in DOMAIN stored : stored[i].mac = m /\ stored[i][f] # Empty}
          BY DEF Telling, Indices
    <2>3. \A f : LastOf(m, f) = LatestOf(DOMAIN stored, m, stored, f)
          BY <2>2 DEF LastOf, LatestOf
    <2> QED BY <2>1, <2>3 DEF RowOf, Indices
  <1> QED BY <1>1, <1>2, RowsStep, TypesAlways, PTL DEF Spec
=============================================================================
