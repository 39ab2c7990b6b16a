-------------------------- MODULE QueryStreamProofs --------------------------
(***************************************************************************)
(* The live stream, for any number of clients with any filters, any sizes  *)
(* of batches and channels and any log: a client that is not behind never  *)
(* misses a query nor gets one twice, no channel is closed twice, and the  *)
(* hub's Close ends the streams that it found.                             *)
(***************************************************************************)
EXTENDS QueryStream, FiniteSetTheorems, SequenceTheorems,
        WellFoundedInduction, TLAPS

USE StreamAssumption DEF StreamAssumption

ConnStates == {"away", "subscribed", "cursor", "initial", "streaming", "leaving", "ended"}

\* What pollOnce has fetched are the ids after pollFrom, and the hub's cursor has
\* passed those that were delivered.
BatchInv ==
    /\ \A i \in 1..Len(fetched) : fetched[i] = pollFrom + i
    /\ pollFrom + Len(fetched) <= rows
    /\ hub \in {"fetch", "fetched", "deliver"} => pollFrom <= lastID
    /\ hub = "deliver" => pollFrom + next <= lastID + 1
    /\ hub \notin {"fetched", "deliver"} => fetched = <<>>
    /\ next >= 1

LEMMA TypeInit == Init => TypeOK /\ BatchInv
<1> SUFFICES ASSUME Init PROVE TypeOK /\ BatchInv
  OBVIOUS
<1>1. chan \in [Conns -> Seq(1..MaxRows)] /\ \A c \in Conns : Len(chan[c]) = 0
  BY DEF Init
<1>2. fetched \in Seq(1..MaxRows) /\ Len(fetched) = 0
  BY DEF Init
<1> QED
  <2>1. BatchInv
    BY <1>2 DEF Init, BatchInv
  <2>2. start \in [Conns -> Ids \cup {NoCursor}] /\ afterID \in [Conns -> Ids]
        /\ events \in [Conns -> SUBSET (1..MaxRows)] /\ closes \in [Conns -> Nat]
    BY DEF Init, Ids
  <2>3. /\ rows \in Ids /\ flushing \in BOOLEAN /\ lastID \in 0..rows
        /\ wake \in BOOLEAN /\ stop \in BOOLEAN /\ hub = "off" /\ closer = "open"
        /\ pollFrom \in Ids /\ polls \in 0..(MaxPolls - 1) /\ next \in Nat
    <3>1. rows = 0 /\ lastID = 0 /\ pollFrom = 0 /\ polls = 0 /\ next = 1
      BY DEF Init
    <3>2. 0 \in 0..(MaxPolls - 1) /\ 0 \in 0..MaxRows /\ 0 \in 0..0 /\ 1 \in Nat
      OBVIOUS
    <3>3. flushing \in BOOLEAN /\ wake \in BOOLEAN /\ stop \in BOOLEAN /\ hub = "off" /\ closer = "open"
      BY DEF Init
    <3> QED
      BY <3>1, <3>2, <3>3 DEF Ids
  <2>4. /\ subs \subseteq Conns /\ conn \in [Conns -> ConnStates]
        /\ cutShort \subseteq Conns /\ early \subseteq Conns /\ resent \subseteq Conns
    BY DEF Init, ConnStates
  <2> QED
    BY <1>1, <1>2, <2>1, <2>2, <2>3, <2>4 DEF TypeOK, ConnStates

\* A batch is what the name says.
LEMMA NextBatchIs ==
    ASSUME TypeOK
    PROVE  /\ NextBatch \in Seq(1..MaxRows) /\ Len(NextBatch) <= BatchSize
           /\ pollFrom + Len(NextBatch) <= IF pollFrom <= rows THEN rows ELSE pollFrom
           /\ \A i \in 1..Len(NextBatch) : NextBatch[i] = pollFrom + i
<1> DEFINE n == IF rows <= pollFrom THEN 0 ELSE IF rows - pollFrom < BatchSize THEN rows - pollFrom ELSE BatchSize
<1>1. n \in Nat /\ n <= BatchSize /\ pollFrom \in Nat /\ rows \in 0..MaxRows
      /\ pollFrom + n <= IF pollFrom <= rows THEN rows ELSE pollFrom
  BY DEF TypeOK, Ids
<1>2. NextBatch = [i \in 1..n |-> pollFrom + i]
  BY DEF NextBatch
<1> HIDE DEF n
<1>3. \A i \in 1..n : pollFrom + i \in 1..MaxRows
  BY <1>1
<1>4. NextBatch \in [1..n -> 1..MaxRows]
  BY <1>2, <1>3
<1>5. NextBatch \in Seq(1..MaxRows)
  BY <1>1, <1>4
<1>6. Len(NextBatch) = n
  BY <1>1, <1>4, <1>5, LenProperties
<1> QED
  BY <1>1, <1>2, <1>5, <1>6

\* Among ids there is always a largest one.
LEMMA LargestIs ==
    ASSUME NEW S \in SUBSET (1..MaxRows), NEW default \in 0..MaxRows
    PROVE  /\ Largest(S, default) \in 0..MaxRows
           /\ S = {} => Largest(S, default) = default
           /\ S # {} => Largest(S, default) \in S
           /\ \A j \in S : j <= Largest(S, default)
<1>1. CASE S = {}
  BY <1>1 DEF Largest
<1>2. CASE S # {}
  <2> DEFINE Above(i) == {j \in S : i < j}
             T == {Above(i) : i \in S}
  <2>1. T \subseteq FiniteSubsetsOf(1..MaxRows) /\ T # {}
    <3>1. IsFiniteSet(1..MaxRows)
      BY FS_Interval
    <3>2. \A i \in S : Above(i) \in SUBSET (1..MaxRows)
      OBVIOUS
    <3>3. \A i \in S : IsFiniteSet(Above(i))
      BY <3>1, <3>2, FS_Subset
    <3> HIDE DEF Above
    <3>4. \A i \in S : Above(i) \in FiniteSubsetsOf(1..MaxRows)
      BY <3>2, <3>3 DEF FiniteSubsetsOf
    <3> QED
      BY <1>2, <3>4
  <2>2. PICK x \in T : \A y \in T : ~ (<<y, x>> \in StrictSubsetOrdering(1..MaxRows))
    BY <2>1, FS_StrictSubsetOrderingWellFounded, WFMin
  <2>3. PICK i \in S : x = Above(i)
    BY <2>2
  <2>4. ASSUME NEW j \in S, i < j PROVE FALSE
    <3>0. S \subseteq Int /\ i \in Int /\ j \in Int
      OBVIOUS
    <3>1. Above(j) \in T /\ Above(j) \subseteq Above(i) /\ j \in Above(i) /\ j \notin Above(j)
      <4>1. Above(j) \in T
        OBVIOUS
      <4>2. \A k \in Above(j) : k \in S /\ i < k
        BY <2>4, <3>0
      <4>3. Above(j) \subseteq Above(i)
        BY <4>2
      <4>4. j \in Above(i) /\ j \notin Above(j)
        BY <2>4, <3>0
      <4> QED
        BY <4>1, <4>3, <4>4
    <3>2. Above(j) \subseteq 1..MaxRows /\ Above(i) \subseteq 1..MaxRows /\ Above(j) # Above(i)
      BY <3>1
    <3>3. <<Above(j), Above(i)>> \in StrictSubsetOrdering(1..MaxRows)
      BY <3>1, <3>2 DEF StrictSubsetOrdering
    <3> QED
      BY <2>2, <2>3, <3>1, <3>3
  <2>5. \A j \in S : j <= i
    BY <2>4
  <2> QED
    <3>1. \E k \in S : \A j \in S : j <= k
      BY <2>5
    <3>2. Largest(S, default) = CHOOSE k \in S : \A j \in S : j <= k
      BY <1>2 DEF Largest
    <3>3. Largest(S, default) \in S /\ \A j \in S : j <= Largest(S, default)
      BY <3>1, <3>2
    <3> HIDE DEF Above
    <3>4. Largest(S, default) \in 0..MaxRows
      <4>1. \A k \in S : k \in 0..MaxRows
        OBVIOUS
      <4> QED
        BY <3>3, <4>1
    <3> QED
      BY <1>2, <3>3, <3>4
<1> QED
  BY <1>1, <1>2

LEMMA TypeStep == TypeOK /\ BatchInv /\ [Next]_vars => TypeOK' /\ BatchInv'
<1> SUFFICES ASSUME TypeOK, BatchInv, [Next]_vars PROVE TypeOK' /\ BatchInv'
  OBVIOUS
<1> USE DEF TypeOK, BatchInv, Ids, dbVars, hubVars, pollVars, connVars, closeVars
<1>1. CASE Commit
  BY <1>1 DEF Commit, PollEnds, Notified, MuFree, Finish
<1>2. CASE OnFlush
  BY <1>2 DEF OnFlush, PollEnds, Notified, MuFree, Finish
<1>3. CASE WakeUp
  BY <1>3 DEF WakeUp, PollEnds, Notified, MuFree, Finish
<1>4. CASE PollBegin
  <2>1. UNCHANGED <<dbVars, chan, hubVars, connVars, closeVars>>
    BY <1>4 DEF PollBegin
  <2>2. CASE hub' = "fetch" /\ pollFrom' = lastID /\ UNCHANGED <<polls, fetched, next>>
    <3>1. Len(fetched) = 0
      BY <1>4 DEF PollBegin
    <3> QED
      BY <2>1, <2>2, <3>1
  <2>3. CASE PollEnds("select")
    BY <2>1, <2>3 DEF PollEnds
  <2> QED
    BY <1>4, <2>2, <2>3 DEF PollBegin
<1>5. CASE Fetch
  <2>1. UNCHANGED <<dbVars, chan, hubVars, connVars, closeVars>>
    BY <1>5 DEF Fetch
  <2>2. CASE fetched' = NextBatch /\ hub' = "fetched" /\ UNCHANGED <<pollFrom, polls, next>>
    <3>1. hub = "fetch" /\ pollFrom <= lastID /\ pollFrom <= rows
      BY <1>5 DEF Fetch
    <3> QED
      BY <2>1, <2>2, <3>1, NextBatchIs
  <2>3. CASE PollEnds("select")
    BY <2>1, <2>3 DEF PollEnds
  <2> QED
    BY <1>5, <2>2, <2>3 DEF Fetch
<1>6. CASE DeliverBegin
  BY <1>6 DEF DeliverBegin, PollEnds, Notified, MuFree, Finish
<1>7. CASE Deliver
  <2>1. /\ hub = "deliver" /\ next \in 1..Len(fetched) /\ next' = next + 1
        /\ UNCHANGED <<dbVars, wake, stop, hub, pollFrom, polls, fetched, connVars, closeVars>>
    BY <1>7 DEF Deliver
  <2>2. /\ fetched[next] = pollFrom + next /\ fetched[next] \in 1..MaxRows
        /\ fetched[next] <= rows /\ fetched[next] <= lastID + 1
    BY <2>1, ElementOfSeq
  <2>3. CASE Passed(fetched[next])
    <3>1. UNCHANGED <<subs, chan, closes, lastID>>
      BY <1>7, <2>3 DEF Deliver
    <3>2. pollFrom + next <= lastID
      BY <2>2, <2>3 DEF Passed
    <3> QED
      BY <2>1, <3>1, <3>2
  <2>4. CASE ~ Passed(fetched[next])
    <3> DEFINE full == {c \in subs : Len(chan[c]) = BufCap}
    <3>1. /\ lastID' = fetched[next] /\ subs' = subs \ full
          /\ chan' = [c \in Conns |-> IF c \in subs \ full THEN Append(chan[c], fetched[next])
                                      ELSE chan[c]]
          /\ closes' = [c \in Conns |-> IF c \in full THEN closes[c] + 1 ELSE closes[c]]
      BY <1>7, <2>4 DEF Deliver
    <3>2. ASSUME NEW c \in Conns PROVE chan'[c] \in Seq(1..MaxRows) /\ Len(chan'[c]) <= BufCap
      <4>1. CASE c \in subs \ full
        <5>1. Len(chan[c]) < BufCap /\ chan'[c] = Append(chan[c], fetched[next])
          BY <3>1, <4>1
        <5> QED
          BY <2>2, <5>1
      <4>2. CASE c \notin subs \ full
        BY <3>1, <4>2
      <4> QED
        BY <4>1, <4>2
    <3>3. chan' \in [Conns -> Seq(1..MaxRows)] /\ closes' \in [Conns -> Nat] /\ subs' \subseteq Conns
      BY <3>1, <3>2
    <3> HIDE DEF full
    <3>4. lastID' \in 0..rows /\ pollFrom <= lastID' /\ pollFrom + next' <= lastID' + 1
      BY <2>1, <2>2, <3>1
    <3>5. BatchInv'
      <4>1. /\ \A i \in 1..Len(fetched') : fetched'[i] = pollFrom' + i
            /\ pollFrom' + Len(fetched') <= rows'
        BY <2>1
      <4>2. hub' = "deliver" /\ next' >= 1
        BY <2>1
      <4>3. pollFrom' <= lastID' /\ pollFrom' + next' <= lastID' + 1
        BY <2>1, <3>4
      <4> QED
        BY <4>1, <4>2, <4>3
    <3>6. TypeOK'
      BY <2>1, <3>2, <3>3, <3>4
    <3> QED
      BY <3>5, <3>6
  <2> QED
    BY <2>3, <2>4
<1>8. CASE DeliverEnd
  <2>1. UNCHANGED <<dbVars, chan, hubVars, connVars, closeVars>>
    BY <1>8 DEF DeliverEnd
  <2>2. CASE PollEnds("select") \/ PollEnds("rewake")
    <3>1. /\ hub' \in {"select", "rewake"} /\ pollFrom' = 0 /\ polls' = 0
          /\ fetched' = <<>> /\ next' = 1
      BY <2>2 DEF PollEnds
    <3>2. fetched' \in Seq(1..MaxRows) /\ Len(fetched') = 0
      BY <3>1
    <3> QED
      BY <2>1, <3>1, <3>2
  <2>3. CASE /\ polls + 1 < MaxPolls
             /\ hub' = "fetch" /\ pollFrom' = lastID /\ polls' = polls + 1
             /\ fetched' = <<>> /\ next' = 1
    BY <2>1, <2>3
  <2> QED
    BY <1>8, <2>2, <2>3 DEF DeliverEnd
<1>9. CASE Rewake
  BY <1>9 DEF Rewake, PollEnds, Notified, MuFree, Finish
<1>10. CASE SeeStop
  BY <1>10 DEF SeeStop, PollEnds, Notified, MuFree, Finish
<1>11. ASSUME NEW c \in Conns, Subscribe(c) PROVE TypeOK' /\ BatchInv'
  <2>1. /\ hub # "deliver"
        /\ start' \in [Conns -> Ids \cup {NoCursor}] /\ conn' \in [Conns -> ConnStates]
        /\ subs' = subs \cup {c} /\ hub' = IF hub = "off" THEN "select" ELSE hub
        /\ lastID' = CursorOnSubscribe
    BY <1>11 DEF Subscribe, MuFree, ConnStates
  <2>2. lastID' \in 0..rows /\ lastID <= lastID'
    BY <2>1 DEF CursorOnSubscribe
  <2>3. UNCHANGED <<dbVars, chan, closes, wake, stop, pollFrom, polls, fetched, next, afterID, events,
                    cutShort, resent, closeVars>>
    BY <1>11 DEF Subscribe
  <2> QED
    BY <2>1, <2>2, <2>3 DEF ConnStates
<1>12. ASSUME NEW c \in Conns, Reject(c) PROVE TypeOK' /\ BatchInv'
  BY <1>12 DEF Reject, PollEnds, Notified, MuFree, Finish
<1>13. ASSUME NEW c \in Conns, SubscribeWakes(c) PROVE TypeOK' /\ BatchInv'
  BY <1>13 DEF SubscribeWakes, PollEnds, Notified, MuFree, Finish
<1>14. ASSUME NEW c \in Conns, ReadCursor(c) PROVE TypeOK' /\ BatchInv'
  BY <1>14 DEF ReadCursor, PollEnds, Notified, MuFree, Finish
<1>15. ASSUME NEW c \in Conns, SendInitial(c) PROVE TypeOK' /\ BatchInv'
  <2>1. /\ events' = [events EXCEPT ![c] = Earliest(Backlog(c), Limit)]
        /\ afterID' = [afterID EXCEPT ![c] = Largest(Earliest(Backlog(c), Limit), @)]
        /\ cutShort' \in {cutShort, cutShort \cup {c}}
        /\ conn' = [conn EXCEPT ![c] = "streaming"]
        /\ UNCHANGED <<dbVars, chan, hubVars, pollVars, start, resent, closeVars>>
    BY <1>15 DEF SendInitial
  <2>2. Earliest(Backlog(c), Limit) \subseteq 1..MaxRows
    BY DEF Earliest, Backlog
  <2>3. Largest(Earliest(Backlog(c), Limit), afterID[c]) \in 0..MaxRows
    BY <2>2, LargestIs
  <2> QED
    BY <2>1, <2>2, <2>3
<1>16. ASSUME NEW c \in Conns, Relay(c) PROVE TypeOK' /\ BatchInv'
  <2>1. Head(chan[c]) \in 1..MaxRows /\ Tail(chan[c]) \in Seq(1..MaxRows) /\ Len(Tail(chan[c])) <= BufCap
    BY <1>16, HeadTailProperties DEF Relay
  <2>2. /\ chan' = [chan EXCEPT ![c] = Tail(@)]
        /\ events' \in {events, [events EXCEPT ![c] = @ \cup {Head(chan[c])}]}
        /\ afterID' \in {afterID, [afterID EXCEPT ![c] = Head(chan[c])]}
        /\ resent' \in {resent, resent \cup {c}}
        /\ UNCHANGED <<dbVars, hubVars, pollVars, conn, start, cutShort, closeVars>>
    BY <1>16 DEF Relay
  <2>3. chan' \in [Conns -> Seq(1..MaxRows)] /\ \A k \in Conns : Len(chan'[k]) <= BufCap
    BY <2>1, <2>2
  <2>4. /\ events' \in [Conns -> SUBSET (1..MaxRows)] /\ afterID' \in [Conns -> Ids]
        /\ resent' \subseteq Conns
    <3>1. [events EXCEPT ![c] = @ \cup {Head(chan[c])}] \in [Conns -> SUBSET (1..MaxRows)]
      BY <2>1
    <3>2. [afterID EXCEPT ![c] = Head(chan[c])] \in [Conns -> Ids]
      BY <2>1
    <3> QED
      BY <2>2, <3>1, <3>2
  <2> QED
    BY <2>2, <2>3, <2>4
<1>17. ASSUME NEW c \in Conns, StreamEnds(c) PROVE TypeOK' /\ BatchInv'
  BY <1>17 DEF StreamEnds, PollEnds, Notified, MuFree, Finish
<1>18. ASSUME NEW c \in Conns, Leave(c) PROVE TypeOK' /\ BatchInv'
  BY <1>18 DEF Leave, PollEnds, Notified, MuFree, Finish
<1>19. ASSUME NEW c \in Conns, Unsubscribe(c) PROVE TypeOK' /\ BatchInv'
  BY <1>19 DEF Unsubscribe, PollEnds, Notified, MuFree, Finish
<1>20. CASE CloseStop
  BY <1>20 DEF CloseStop, PollEnds, Notified, MuFree, Finish
<1>21. CASE CloseReadsRunning
  BY <1>21 DEF CloseReadsRunning, PollEnds, Notified, MuFree, Finish
<1>22. CASE CloseReturns
  BY <1>22 DEF CloseReturns, PollEnds, Notified, MuFree, Finish
<1>23. CASE UNCHANGED vars
  BY <1>23 DEF vars, PollEnds, Notified, MuFree, Finish
<1> QED
  BY <1>1, <1>2, <1>3, <1>4, <1>5, <1>6, <1>7, <1>8, <1>9, <1>10, <1>11, <1>12,
     <1>13, <1>14, <1>15, <1>16, <1>17, <1>18, <1>19, <1>20, <1>21, <1>22, <1>23
  DEF Next, Hub, Open, Close

\* Every variable keeps its type, channels and batches their size, and the hub's
\* cursor never passes the end of the log.
THEOREM TypeCorrect == Spec => []TypeOK
BY TypeInit, TypeStep, PTL DEF Spec

-----------------------------------------------------------------------------
\* A subscriber's channel is open and its handler runs; the streams that Close
\* found are older than the end of the hub, and the hub's end takes them along.
CloseInv ==
    /\ \A c \in Conns : /\ closes[c] \in {0, 1}
                        /\ c \in subs => closes[c] = 0 /\ conn[c] \notin {"away", "ended"}
                        /\ conn[c] = "away" => closes[c] = 0
    /\ \A c \in early : conn[c] # "away"
    /\ hub = "off" => subs = {}
    /\ hub = "returned" => stop /\ early \cap subs = {}
    /\ stop <=> closer # "open"
    /\ closer = "closed" => early \cap subs = {}

LEMMA CloseStep == TypeOK /\ CloseInv /\ [Next]_vars => CloseInv'
<1> SUFFICES ASSUME TypeOK, CloseInv, [Next]_vars PROVE CloseInv'
  OBVIOUS
<1>0. /\ closes \in [Conns -> Nat] /\ conn \in [Conns -> ConnStates]
      /\ subs \subseteq Conns /\ early \subseteq Conns /\ stop \in BOOLEAN
  BY DEF TypeOK, ConnStates
<1> USE <1>0 DEF CloseInv, dbVars, hubVars, pollVars, connVars, closeVars
<1>1. CASE Commit
  BY <1>1 DEF Commit, PollEnds, Finish
<1>2. CASE OnFlush
  BY <1>2 DEF OnFlush, PollEnds, Finish
<1>3. CASE WakeUp
  BY <1>3 DEF WakeUp, PollEnds, Finish
<1>4. CASE PollBegin
  BY <1>4 DEF PollBegin, PollEnds, Finish
<1>5. CASE Fetch
  BY <1>5 DEF Fetch, PollEnds, Finish
<1>6. CASE DeliverBegin
  BY <1>6 DEF DeliverBegin, PollEnds, Finish
<1>7. CASE Deliver
  <2> DEFINE full == {c \in subs : Len(chan[c]) = BufCap}
  <2>1. UNCHANGED <<conn, hub, stop, closer, early>>
    BY <1>7 DEF Deliver
  <2>2. \/ UNCHANGED <<subs, closes>>
        \/ /\ subs' = subs \ full
           /\ closes' = [c \in Conns |-> IF c \in full THEN closes[c] + 1 ELSE closes[c]]
    BY <1>7 DEF Deliver
  <2>3. full \subseteq subs
    OBVIOUS
  <2> HIDE DEF full
  <2>4. CASE UNCHANGED <<subs, closes>>
    BY <2>1, <2>4
  <2>5. CASE /\ subs' = subs \ full
             /\ closes' = [c \in Conns |-> IF c \in full THEN closes[c] + 1 ELSE closes[c]]
    <3>1. \A c \in Conns : closes'[c] = IF c \in full THEN 1 ELSE closes[c]
      BY <2>3, <2>5
    <3> QED
      BY <2>1, <2>3, <2>5, <3>1
  <2> QED
    BY <2>2, <2>4, <2>5
<1>8. CASE DeliverEnd
  BY <1>8 DEF DeliverEnd, PollEnds, Finish
<1>9. CASE Rewake
  BY <1>9 DEF Rewake, PollEnds, Finish
<1>10. CASE SeeStop
  <2>1. /\ hub = "select" /\ stop /\ hub' = "returned" /\ subs' = {}
        /\ closes' = [c \in Conns |-> IF c \in subs THEN closes[c] + 1 ELSE closes[c]]
        /\ UNCHANGED <<conn, stop, closer, early>>
    BY <1>10 DEF SeeStop
  <2>2. \A c \in Conns : closes'[c] = IF c \in subs THEN 1 ELSE closes[c]
    BY <2>1
  <2> QED
    BY <2>1, <2>2
<1>11. ASSUME NEW c \in Conns, Subscribe(c) PROVE CloseInv'
  <2>1. /\ conn[c] = "away" /\ subs' = subs \cup {c} /\ conn' = [conn EXCEPT ![c] = "subscribed"]
        /\ hub' = IF hub = "off" THEN "select" ELSE hub
        /\ UNCHANGED <<closes, stop, closer, early>>
    BY <1>11 DEF Subscribe
  <2>2. closes[c] = 0 /\ c \notin early
    BY <2>1
  <2>3. \A k \in Conns : conn'[k] = IF k = c THEN "subscribed" ELSE conn[k]
    BY <2>1
  <2> QED
    BY <2>1, <2>2, <2>3
<1>12. ASSUME NEW c \in Conns, Reject(c) PROVE CloseInv'
  BY <1>12 DEF Reject, PollEnds, Finish
<1>13. ASSUME NEW c \in Conns, SubscribeWakes(c) PROVE CloseInv'
  BY <1>13 DEF SubscribeWakes, PollEnds, Finish
<1>14. ASSUME NEW c \in Conns, ReadCursor(c) PROVE CloseInv'
  BY <1>14 DEF ReadCursor, PollEnds, Finish
<1>15. ASSUME NEW c \in Conns, SendInitial(c) PROVE CloseInv'
  BY <1>15 DEF SendInitial, PollEnds, Finish
<1>16. ASSUME NEW c \in Conns, Relay(c) PROVE CloseInv'
  BY <1>16 DEF Relay, PollEnds, Finish
<1>17. ASSUME NEW c \in Conns, StreamEnds(c) PROVE CloseInv'
  BY <1>17 DEF StreamEnds, PollEnds, Finish
<1>18. ASSUME NEW c \in Conns, Leave(c) PROVE CloseInv'
  BY <1>18 DEF Leave, PollEnds, Finish
<1>19. ASSUME NEW c \in Conns, Unsubscribe(c) PROVE CloseInv'
  <2>1. /\ conn[c] = "leaving" /\ subs' = subs \ {c} /\ conn' = [conn EXCEPT ![c] = "ended"]
        /\ closes' = IF c \in subs THEN [closes EXCEPT ![c] = @ + 1] ELSE closes
        /\ UNCHANGED <<hub, stop, closer, early>>
    BY <1>19 DEF Unsubscribe, ClosesOnCancel
  <2>2. /\ \A k \in Conns : conn'[k] = IF k = c THEN "ended" ELSE conn[k]
        /\ \A k \in Conns : closes'[k] = IF k = c /\ c \in subs THEN 1 ELSE closes[k]
    BY <2>1
  <2> QED
    BY <2>1, <2>2
<1>20. CASE CloseStop
  BY <1>20 DEF CloseStop, PollEnds, Finish
<1>21. CASE CloseReadsRunning
  BY <1>21 DEF CloseReadsRunning, PollEnds, Finish
<1>22. CASE CloseReturns
  BY <1>22 DEF CloseReturns, PollEnds, Finish
<1>23. CASE UNCHANGED vars
  BY <1>23 DEF vars, PollEnds, Finish
<1> QED
  BY <1>1, <1>2, <1>3, <1>4, <1>5, <1>6, <1>7, <1>8, <1>9, <1>10, <1>11, <1>12,
     <1>13, <1>14, <1>15, <1>16, <1>17, <1>18, <1>19, <1>20, <1>21, <1>22, <1>23
  DEF Next, Hub, Open, Close

LEMMA CloseAlways == Spec => []CloseInv
<1>1. Init => CloseInv
  BY DEF Init, CloseInv
<1>2. TypeOK /\ CloseInv /\ [Next]_vars => CloseInv'
  BY CloseStep
<1> QED
  BY <1>1, <1>2, TypeCorrect, PTL DEF Spec

\* Whichever of the slow subscriber's drop, unsubscribe and closeAllSubscribers
\* comes first, a channel is closed once and a closed one has no subscriber.
THEOREM ClosedOnceAlways == Spec => []ClosedOnce
<1>1. CloseInv => ClosedOnce
  BY DEF CloseInv, ClosedOnce
<1> QED
  BY <1>1, CloseAlways, PTL

\* When Close returns it has ended every stream that it found.
THEOREM CloseEndsEarlyStreamsAlways == Spec => []CloseEndsEarlyStreams
<1>1. CloseInv => CloseEndsEarlyStreams
  BY DEF CloseInv, CloseEndsEarlyStreams
<1> QED
  BY <1>1, CloseAlways, PTL

-----------------------------------------------------------------------------
\* Before the initial batch nothing has been sent, and afterID bounds all that has.
Before == {"away", "subscribed", "cursor", "initial"}

SentInv ==
    /\ resent = {}
    /\ \A c \in Conns : /\ conn[c] \in Before => events[c] = {}
                        /\ \A j \in events[c] : j <= afterID[c]

LEMMA SentStep == TypeOK /\ SentInv /\ [Next]_vars => SentInv'
<1> SUFFICES ASSUME TypeOK, SentInv, [Next]_vars PROVE SentInv'
  OBVIOUS
<1>0. /\ conn \in [Conns -> ConnStates] /\ chan \in [Conns -> Seq(1..MaxRows)]
      /\ afterID \in [Conns -> 0..MaxRows] /\ events \in [Conns -> SUBSET (1..MaxRows)]
  BY DEF TypeOK, ConnStates, Ids
<1> USE <1>0 DEF SentInv, Before, dbVars, hubVars, pollVars, connVars, closeVars
<1>1. CASE Commit
  BY <1>1 DEF Commit, PollEnds
<1>2. CASE OnFlush
  BY <1>2 DEF OnFlush, PollEnds
<1>3. CASE WakeUp
  BY <1>3 DEF WakeUp, PollEnds
<1>4. CASE PollBegin
  BY <1>4 DEF PollBegin, PollEnds
<1>5. CASE Fetch
  BY <1>5 DEF Fetch, PollEnds
<1>6. CASE DeliverBegin
  BY <1>6 DEF DeliverBegin, PollEnds
<1>7. CASE Deliver
  BY <1>7 DEF Deliver, PollEnds
<1>8. CASE DeliverEnd
  BY <1>8 DEF DeliverEnd, PollEnds
<1>9. CASE Rewake
  BY <1>9 DEF Rewake, PollEnds
<1>10. CASE SeeStop
  BY <1>10 DEF SeeStop, PollEnds
<1>11. ASSUME NEW c \in Conns, Subscribe(c) PROVE SentInv'
  <2>1. /\ conn[c] = "away" /\ conn' = [conn EXCEPT ![c] = "subscribed"]
        /\ UNCHANGED <<afterID, events, resent>>
    BY <1>11 DEF Subscribe
  <2> QED
    BY <2>1
<1>12. ASSUME NEW c \in Conns, Reject(c) PROVE SentInv'
  BY <1>12 DEF Reject, PollEnds
<1>13. ASSUME NEW c \in Conns, SubscribeWakes(c) PROVE SentInv'
  BY <1>13 DEF SubscribeWakes, PollEnds
<1>14. ASSUME NEW c \in Conns, ReadCursor(c) PROVE SentInv'
  <2>1. /\ conn[c] = "cursor" /\ conn' = [conn EXCEPT ![c] = "initial"]
        /\ events[c] = {} /\ UNCHANGED <<events, resent>>
        /\ \A k \in Conns \ {c} : afterID'[k] = afterID[k]
    BY <1>14 DEF ReadCursor
  <2> QED
    BY <2>1
<1>15. ASSUME NEW c \in Conns, SendInitial(c) PROVE SentInv'
  <2> DEFINE initial == Earliest(Backlog(c), Limit)
  <2>1. initial \in SUBSET (1..MaxRows) /\ afterID[c] \in 0..MaxRows
    BY DEF Earliest, Backlog
  <2>2. /\ conn[c] = "initial" /\ conn' = [conn EXCEPT ![c] = "streaming"]
        /\ events' = [events EXCEPT ![c] = initial]
        /\ afterID' = [afterID EXCEPT ![c] = Largest(initial, @)]
        /\ resent' = resent
    BY <1>15 DEF SendInitial
  <2> HIDE DEF initial
  <2>3. \A j \in initial : j <= Largest(initial, afterID[c])
    BY <2>1, LargestIs
  <2>4. ASSUME NEW k \in Conns
        PROVE  /\ conn'[k] \in Before => events'[k] = {}
               /\ \A j \in events'[k] : j <= afterID'[k]
    BY <2>2, <2>3 DEF Before
  <2> QED
    BY <2>2, <2>4
<1>16. ASSUME NEW c \in Conns, Relay(c) PROVE SentInv'
  <2> DEFINE id == Head(chan[c])
  <2>0. id \in 1..MaxRows /\ UNCHANGED conn /\ conn[c] = "streaming"
    BY <1>16, HeadTailProperties DEF Relay
  <2>1. CASE ToSend(c, id)
    <3>1. /\ events' = [events EXCEPT ![c] = @ \cup {id}]
          /\ afterID' = [afterID EXCEPT ![c] = id]
          /\ resent' = IF \E j \in events[c] : id <= j THEN resent \cup {c} ELSE resent
      BY <1>16, <2>1 DEF Relay
    <3> HIDE DEF id
    <3>2. \A j \in events[c] : j <= afterID[c] /\ afterID[c] < id /\ j \in Nat /\ afterID[c] \in Nat
      BY <2>1 DEF ToSend
    <3>3. \A j \in events[c] : j < id
      BY <2>0, <3>2
    <3>4. resent' = {}
      BY <2>0, <3>1, <3>3
    <3>5. ASSUME NEW k \in Conns
          PROVE  /\ conn'[k] \in Before => events'[k] = {}
                 /\ \A j \in events'[k] : j <= afterID'[k]
      <4>1. CASE k = c
        <5>1. events'[k] = events[c] \cup {id} /\ afterID'[k] = id /\ conn'[k] = "streaming"
          BY <2>0, <3>1, <4>1
        <5> QED
          BY <2>0, <3>3, <5>1 DEF Before
      <4>2. CASE k # c
        BY <2>0, <3>1, <4>2
      <4> QED
        BY <4>1, <4>2
    <3> QED
      BY <3>4, <3>5
  <2>2. CASE ~ ToSend(c, id)
    <3>1. UNCHANGED <<events, afterID, resent>>
      BY <1>16, <2>2 DEF Relay
    <3> QED
      BY <2>0, <3>1
  <2> QED
    BY <2>1, <2>2
<1>17. ASSUME NEW c \in Conns, StreamEnds(c) PROVE SentInv'
  <2>1. Finish(c) /\ UNCHANGED resent
    BY <1>17 DEF StreamEnds
  <2>2. ASSUME NEW k \in Conns
        PROVE  /\ conn'[k] = IF k = c THEN "leaving" ELSE conn[k]
               /\ events'[k] = IF k = c THEN {} ELSE events[k]
               /\ afterID'[k] = IF k = c THEN 0 ELSE afterID[k]
    BY <2>1 DEF Finish
  <2> QED
    BY <2>1, <2>2 DEF Before
<1>18. ASSUME NEW c \in Conns, Leave(c) PROVE SentInv'
  <2>1. Finish(c) /\ UNCHANGED resent
    BY <1>18 DEF Leave
  <2>2. ASSUME NEW k \in Conns
        PROVE  /\ conn'[k] = IF k = c THEN "leaving" ELSE conn[k]
               /\ events'[k] = IF k = c THEN {} ELSE events[k]
               /\ afterID'[k] = IF k = c THEN 0 ELSE afterID[k]
    BY <2>1 DEF Finish
  <2> QED
    BY <2>1, <2>2 DEF Before
<1>19. ASSUME NEW c \in Conns, Unsubscribe(c) PROVE SentInv'
  BY <1>19 DEF Unsubscribe, PollEnds
<1>20. CASE CloseStop
  BY <1>20 DEF CloseStop, PollEnds
<1>21. CASE CloseReadsRunning
  BY <1>21 DEF CloseReadsRunning, PollEnds
<1>22. CASE CloseReturns
  BY <1>22 DEF CloseReturns, PollEnds
<1>23. CASE UNCHANGED vars
  BY <1>23 DEF vars, PollEnds
<1> QED
  BY <1>1, <1>2, <1>3, <1>4, <1>5, <1>6, <1>7, <1>8, <1>9, <1>10, <1>11, <1>12,
     <1>13, <1>14, <1>15, <1>16, <1>17, <1>18, <1>19, <1>20, <1>21, <1>22, <1>23
  DEF Next, Hub, Open, Close

\* However the backlog and the relay overlap, the ids a client is sent only grow.
THEOREM NeverResentAlways == Spec => []NeverResent
<1>1. Init => SentInv
  BY DEF Init, SentInv, Before
<1>2. TypeOK /\ SentInv /\ [Next]_vars => SentInv'
  BY SentStep
<1>3. SentInv => NeverResent
  BY DEF SentInv, NeverResent
<1> QED
  BY <1>1, <1>2, <1>3, TypeCorrect, PTL DEF Spec
-----------------------------------------------------------------------------
\* The hub's channel to c holds the ids from its position to where the hub's
\* cursor is (or, for one that was dropped, was); what is before the position
\* and is wanted has been sent.
Position(c) == IF chan[c] = <<>> THEN lastID ELSE chan[c][1] - 1

Flow(c) ==
    /\ conn[c] = "away" => chan[c] = <<>>
    /\ \A i \in 1..Len(chan[c]) : chan[c][i] = Position(c) + i /\ chan[c][i] <= rows
    /\ c \in subs => lastID = Position(c) + Len(chan[c])
    /\ Position(c) \in 0..rows
    /\ conn[c] \in {"initial", "streaming"} => start[c] \in Nat /\ start[c] <= afterID[c]
    /\ conn[c] = "initial" => start[c] = afterID[c]
    /\ conn[c] = "streaming" /\ c \notin cutShort =>
          /\ events[c] = Due(c, afterID[c])
          /\ c \in subs \/ chan[c] # <<>> => Due(c, Position(c)) \subseteq events[c]

FlowInv == \A c \in Conns : Flow(c)

HIDE StreamAssumption DEF StreamAssumption

LEMMA AppendIs ==
    ASSUME NEW s \in Seq(1..MaxRows), NEW e \in 1..MaxRows
    PROVE  /\ Append(s, e) # <<>> /\ Len(Append(s, e)) = Len(s) + 1
           /\ Append(s, e)[Len(s) + 1] = e
           /\ \A i \in 1..Len(s) : Append(s, e)[i] = s[i]
BY AppendProperties

LEMMA TailIs ==
    ASSUME NEW s \in Seq(1..MaxRows), s # <<>>
    PROVE  /\ Head(s) = s[1] /\ Head(s) \in 1..MaxRows /\ Tail(s) \in Seq(1..MaxRows)
           /\ Len(s) \in Nat /\ Len(s) > 0 /\ Len(Tail(s)) \in Nat
           /\ Len(Tail(s)) = Len(s) - 1
           /\ \A i \in 1..Len(Tail(s)) : i + 1 \in 1..Len(s) /\ Tail(s)[i] = s[i + 1]
           /\ Tail(s) = <<>> => Len(s) = 1
           /\ Tail(s) # <<>> => Len(s) > 1
<1>1. Len(s) \in Nat /\ Len(s) > 0
  OBVIOUS
<1>2. /\ Head(s) \in 1..MaxRows /\ Tail(s) \in Seq(1..MaxRows) /\ Len(Tail(s)) = Len(s) - 1
      /\ \A i \in 1..Len(Tail(s)) : Tail(s)[i] = s[i + 1]
  BY HeadTailProperties
<1>3. Head(s) = s[1]
  OBVIOUS
<1>4. \A i \in 1..Len(Tail(s)) : i + 1 \in 1..Len(s)
  BY <1>1, <1>2
<1>5. Tail(s) = <<>> => Len(s) = 1
  <2>1. CASE Tail(s) = <<>>
    <3>1. Len(Tail(s)) = 0
      BY <1>2, <2>1, EmptySeq
    <3>2. Len(s) - 1 = 0
      BY <1>2, <3>1
    <3> QED
      BY <1>1, <3>2
  <2> QED
    BY <2>1
<1>6. Tail(s) # <<>> => Len(s) > 1
  <2>1. CASE Tail(s) # <<>>
    <3>1. Len(Tail(s)) # 0
      BY <1>2, <2>1, EmptySeq
    <3> QED
      BY <1>1, <1>2, <3>1
  <2> QED
    BY <2>1
<1>7. Len(Tail(s)) \in Nat
  BY <1>1, <1>2
<1> QED
  BY <1>1, <1>2, <1>3, <1>4, <1>5, <1>6, <1>7

LEMMA FlowStep ==
    ASSUME TypeOK, BatchInv, CloseInv, \A c \in Conns : Flow(c), [Next]_vars
    PROVE  \A c \in Conns : Flow(c)'
<1> SUFFICES ASSUME NEW k \in Conns PROVE Flow(k)'
  OBVIOUS
<1>0. /\ conn \in [Conns -> ConnStates] /\ chan \in [Conns -> Seq(1..MaxRows)]
      /\ afterID \in [Conns -> 0..MaxRows] /\ events \in [Conns -> SUBSET (1..MaxRows)]
      /\ start \in [Conns -> 0..MaxRows \cup {NoCursor}] /\ subs \subseteq Conns
      /\ rows \in 0..MaxRows /\ lastID \in 0..rows /\ \A c \in Conns : Len(chan[c]) <= BufCap
      /\ fetched \in Seq(1..MaxRows) /\ Wanted \in [Conns -> SUBSET (1..MaxRows)]
      /\ BufCap \in Nat \ {0} /\ next \in Nat /\ next >= 1 /\ pollFrom \in Nat
      /\ cutShort \subseteq Conns
  BY StreamAssumption DEF StreamAssumption, TypeOK, BatchInv, ConnStates, Ids
<1>00. /\ \A c \in Conns : Flow(c)
       /\ \A i \in 1..Len(fetched) : fetched[i] = pollFrom + i
       /\ pollFrom + Len(fetched) <= rows
       /\ hub = "deliver" => pollFrom + next <= lastID + 1
       /\ \A c \in subs : conn[c] # "away"
  BY <1>0 DEF BatchInv, CloseInv
<1> USE <1>0 DEF dbVars, hubVars, pollVars, connVars, closeVars
\* What a step leaves alone it need not be asked about.
<1>1. ASSUME rows' >= rows, rows' \in Nat, UNCHANGED lastID, chan'[k] = chan[k], conn'[k] = conn[k],
             start'[k] = start[k], afterID'[k] = afterID[k], events'[k] = events[k],
             k \in cutShort' <=> k \in cutShort, k \in subs' => k \in subs
      PROVE  Flow(k)'
  <2>1. Position(k)' = Position(k)
    BY <1>1 DEF Position
  <2>2. Due(k, afterID[k])' = Due(k, afterID[k]) /\ Due(k, Position(k))' = Due(k, Position(k))
    BY <1>1, <2>1 DEF Due
  <2> QED
    BY <1>00, <1>1, <2>1, <2>2 DEF Flow
<1>2. ASSUME rows' >= rows, rows' \in Nat, subs' \subseteq subs,
             UNCHANGED <<chan, lastID, conn, start, afterID, events, cutShort>>
      PROVE  Flow(k)'
  BY <1>1, <1>2
<1>3. ASSUME UNCHANGED rows, chan'[k] = chan[k], conn'[k] = conn[k], start'[k] = start[k],
             afterID'[k] = afterID[k], events'[k] = events[k], k \in cutShort' <=> k \in cutShort,
             k \notin subs', lastID' \in 0..rows
      PROVE  Flow(k)'
  <2>1. CASE chan[k] = <<>>
    <3>1. Position(k)' = lastID' /\ Len(chan'[k]) = 0
      BY <1>3, <2>1 DEF Position
    <3>2. Due(k, afterID[k])' = Due(k, afterID[k])
      BY <1>3 DEF Due
    <3>3. \A i \in 1..Len(chan'[k]) : chan'[k][i] = Position(k)' + i /\ chan'[k][i] <= rows'
      BY <3>1
    <3>4. Flow(k) /\ chan'[k] = <<>> /\ Position(k)' \in 0..rows'
      BY <1>00, <1>3, <2>1, <3>1
    <3> QED
      BY <1>3, <2>1, <3>2, <3>3, <3>4 DEF Flow
  <2>2. CASE chan[k] # <<>>
    <3>1. Position(k)' = Position(k)
      BY <1>3, <2>2 DEF Position
    <3>2. Due(k, afterID[k])' = Due(k, afterID[k]) /\ Due(k, Position(k))' = Due(k, Position(k))
      BY <1>3, <3>1 DEF Due
    <3> QED
      BY <1>00, <1>3, <2>2, <3>1, <3>2 DEF Flow
  <2> QED
    BY <2>1, <2>2
<1>4. ASSUME UNCHANGED <<rows, chan, lastID>>, subs' = subs,
             conn'[k] # "away", conn'[k] # "streaming",
             conn'[k] = "initial" => start'[k] = afterID'[k] /\ afterID'[k] \in Nat
      PROVE  Flow(k)'
  <2>1. Position(k)' = Position(k)
    BY <1>4 DEF Position
  <2> QED
    BY <1>00, <1>4, <2>1 DEF Flow
<1>5. CASE Commit
  <2>1. /\ rows' >= rows /\ rows' \in Nat /\ subs' \subseteq subs
        /\ UNCHANGED <<chan, lastID, conn, start, afterID, events, cutShort>>
    BY <1>5 DEF Commit
  <2> QED
    BY <1>2, <2>1
<1>6. CASE OnFlush
  <2>1. /\ rows' >= rows /\ rows' \in Nat /\ subs' \subseteq subs
        /\ UNCHANGED <<chan, lastID, conn, start, afterID, events, cutShort>>
    BY <1>6 DEF OnFlush
  <2> QED
    BY <1>2, <2>1
<1>7. CASE WakeUp
  <2>1. /\ rows' >= rows /\ rows' \in Nat /\ subs' \subseteq subs
        /\ UNCHANGED <<chan, lastID, conn, start, afterID, events, cutShort>>
    BY <1>7 DEF WakeUp
  <2> QED
    BY <1>2, <2>1
<1>8. CASE PollBegin
  <2>1. /\ rows' >= rows /\ rows' \in Nat /\ subs' \subseteq subs
        /\ UNCHANGED <<chan, lastID, conn, start, afterID, events, cutShort>>
    BY <1>8 DEF PollBegin
  <2> QED
    BY <1>2, <2>1
<1>9. CASE Fetch
  <2>1. /\ rows' >= rows /\ rows' \in Nat /\ subs' \subseteq subs
        /\ UNCHANGED <<chan, lastID, conn, start, afterID, events, cutShort>>
    BY <1>9 DEF Fetch
  <2> QED
    BY <1>2, <2>1
<1>10. CASE DeliverBegin
  <2>1. /\ rows' >= rows /\ rows' \in Nat /\ subs' \subseteq subs
        /\ UNCHANGED <<chan, lastID, conn, start, afterID, events, cutShort>>
    BY <1>10 DEF DeliverBegin
  <2> QED
    BY <1>2, <2>1
<1>11. CASE Deliver
  <2> DEFINE full == {c \in subs : Len(chan[c]) = BufCap}
             id == fetched[next]
  <2>1. hub = "deliver" /\ next \in 1..Len(fetched)
        /\ UNCHANGED <<rows, conn, start, afterID, events, cutShort>>
    BY <1>00, <1>11 DEF Deliver
  <2>2. id = pollFrom + next /\ id \in 1..MaxRows /\ id <= rows /\ id <= lastID + 1
    <3>1. /\ fetched[next] = pollFrom + next /\ pollFrom + Len(fetched) <= rows
          /\ pollFrom + next <= lastID + 1
      BY <1>00, <2>1
    <3>2. pollFrom \in Nat /\ next \in Nat /\ next >= 1 /\ next <= Len(fetched) /\ Len(fetched) \in Nat
      BY <2>1
    <3>3. rows \in Nat /\ rows <= MaxRows /\ MaxRows \in Nat
      BY StreamAssumption DEF StreamAssumption
    <3> HIDE <1>0
    <3> QED
      BY <3>1, <3>2, <3>3
  <2>3. CASE Passed(id)
    <3>1. UNCHANGED <<subs, chan, lastID>>
      BY <1>11, <2>3 DEF Deliver
    <3> QED
      BY <1>1, <2>1, <3>1
  <2>4. CASE ~ Passed(id)
    <3>1. /\ lastID' = id /\ subs' = subs \ full
          /\ chan' = [c \in Conns |-> IF c \in subs \ full THEN Append(chan[c], id) ELSE chan[c]]
      BY <1>11, <2>4 DEF Deliver
    <3>2. id = lastID + 1
      BY <2>2, <2>4 DEF Passed
    <3>3. \A c \in full : c \in subs /\ Len(chan[c]) > 0
      OBVIOUS
    <3> HIDE DEF full, id
    <3>4. CASE k \in subs \ full
      <4>1. chan'[k] = Append(chan[k], id) /\ k \in subs' /\ conn[k] # "away"
        BY <1>00, <3>1, <3>4
      <4>2. /\ Len(chan'[k]) = Len(chan[k]) + 1 /\ chan'[k] # <<>>
            /\ chan'[k][Len(chan[k]) + 1] = id
            /\ \A i \in 1..Len(chan[k]) : chan'[k][i] = chan[k][i]
        <5>1. chan[k] \in Seq(1..MaxRows) /\ id \in 1..MaxRows
          BY <2>2
        <5>2. /\ Append(chan[k], id) # <<>> /\ Len(Append(chan[k], id)) = Len(chan[k]) + 1
              /\ Append(chan[k], id)[Len(chan[k]) + 1] = id
              /\ \A i \in 1..Len(chan[k]) : Append(chan[k], id)[i] = chan[k][i]
          BY <5>1, AppendIs
        <5> QED
          BY <4>1, <5>2
      <4>3. Position(k)' = Position(k)
        <5>1. CASE chan[k] = <<>>
          <6>1. Len(chan[k]) = 0 /\ chan'[k][1] = id
            BY <4>2, <5>1
          <6> QED
            BY <3>2, <4>2, <5>1, <6>1 DEF Position
        <5>2. CASE chan[k] # <<>>
          <6>1. 1 \in 1..Len(chan[k])
            BY <5>2
          <6> QED
            BY <4>2, <5>2, <6>1 DEF Position
        <5> QED
          BY <5>1, <5>2
      <4>4. /\ \A i \in 1..Len(chan[k]) : chan[k][i] = Position(k) + i /\ chan[k][i] <= rows
            /\ lastID = Position(k) + Len(chan[k]) /\ Position(k) \in 0..rows
        BY <1>00, <3>4 DEF Flow
      <4>5. \A i \in 1..Len(chan'[k]) : chan'[k][i] = Position(k)' + i /\ chan'[k][i] <= rows'
        <5>1. /\ Len(chan[k]) \in Nat /\ Position(k) \in Nat /\ rows' = rows
              /\ id = Position(k) + (Len(chan[k]) + 1)
          BY <2>1, <3>2, <4>4
        <5>2. ASSUME NEW i \in 1..Len(chan'[k])
              PROVE  chan'[k][i] = Position(k)' + i /\ chan'[k][i] <= rows'
          <6>1. i \in 1..Len(chan[k]) \/ i = Len(chan[k]) + 1
            BY <4>2, <5>1
          <6>2. CASE i \in 1..Len(chan[k])
            BY <4>2, <4>3, <4>4, <5>1, <6>2
          <6>3. CASE i = Len(chan[k]) + 1
            BY <2>2, <4>2, <4>3, <5>1, <6>3
          <6> QED
            BY <6>1, <6>2, <6>3
        <5> QED
          BY <5>2
      <4>6. lastID' = Position(k)' + Len(chan'[k])
        <5>1. Len(chan[k]) \in Nat /\ Position(k) \in Nat
          BY <4>4
        <5>2. lastID' = lastID + 1 /\ lastID = Position(k) + Len(chan[k])
          BY <3>1, <3>2, <4>4
        <5>3. Position(k)' + Len(chan'[k]) = Position(k) + (Len(chan[k]) + 1)
          BY <4>2, <4>3
        <5> HIDE <1>0
        <5> QED
          BY <5>1, <5>2, <5>3
      <4> QED
        BY <1>00, <2>1, <3>4, <4>1, <4>2, <4>3, <4>4, <4>5, <4>6 DEF Flow, Due
    <3>5. CASE k \notin subs \ full
      <4>1. chan'[k] = chan[k] /\ k \notin subs' /\ (k \in subs => chan[k] # <<>>)
        BY <3>1, <3>3, <3>5
      <4>2. lastID' \in 0..rows
        BY <2>2, <3>1, <3>2
      <4> QED
        BY <1>3, <2>1, <4>1, <4>2
    <3> QED
      BY <3>4, <3>5
  <2> QED
    BY <2>3, <2>4
<1>12. CASE DeliverEnd
  <2>1. /\ rows' >= rows /\ rows' \in Nat /\ subs' \subseteq subs
        /\ UNCHANGED <<chan, lastID, conn, start, afterID, events, cutShort>>
    BY <1>12 DEF DeliverEnd
  <2> QED
    BY <1>2, <2>1
<1>13. CASE Rewake
  <2>1. /\ rows' >= rows /\ rows' \in Nat /\ subs' \subseteq subs
        /\ UNCHANGED <<chan, lastID, conn, start, afterID, events, cutShort>>
    BY <1>13 DEF Rewake
  <2> QED
    BY <1>2, <2>1
<1>14. CASE SeeStop
  <2>1. /\ rows' >= rows /\ rows' \in Nat /\ subs' \subseteq subs
        /\ UNCHANGED <<chan, lastID, conn, start, afterID, events, cutShort>>
    BY <1>14 DEF SeeStop
  <2> QED
    BY <1>2, <2>1
<1>15. ASSUME NEW c \in Conns, Subscribe(c) PROVE Flow(k)'
  <2>1. /\ conn[c] = "away" /\ conn' = [conn EXCEPT ![c] = "subscribed"]
        /\ subs' = subs \cup {c} /\ lastID' = CursorOnSubscribe /\ chan[c] = <<>> /\ Len(chan[c]) = 0
        /\ UNCHANGED <<rows, chan, afterID, events, cutShort>>
        /\ k # c => start'[k] = start[k]
    BY <1>00, <1>15 DEF Subscribe, Flow
  <2>2. CASE k = c
    <3>1. conn'[k] = "subscribed" /\ lastID' \in 0..rows
      BY <2>1, <2>2 DEF CursorOnSubscribe
    <3>2. Position(k)' = lastID'
      BY <2>1, <2>2 DEF Position
    <3> QED
      BY <1>00, <2>1, <2>2, <3>1, <3>2 DEF Flow
  <2>3. CASE k # c /\ subs # {}
    <3>1. lastID' = lastID /\ (k \in subs' <=> k \in subs) /\ conn'[k] = conn[k]
      BY <2>1, <2>3 DEF CursorOnSubscribe
    <3> QED
      BY <1>1, <2>1, <2>3, <3>1
  <2>4. CASE k # c /\ subs = {}
    <3>1. k \notin subs' /\ k \notin subs /\ conn'[k] = conn[k] /\ lastID' \in 0..rows /\ start'[k] = start[k]
      BY <2>1, <2>4 DEF CursorOnSubscribe
    <3> QED
      BY <1>3, <2>1, <3>1
  <2> QED
    BY <2>2, <2>3, <2>4
<1>16. ASSUME NEW c \in Conns, Reject(c) PROVE Flow(k)'
  <2>1. UNCHANGED <<rows, chan, lastID, subs>>
    BY <1>16 DEF Reject
  <2>2. CASE k # c
    <3>1. /\ conn'[k] = conn[k] /\ start'[k] = start[k] /\ afterID'[k] = afterID[k]
          /\ events'[k] = events[k] /\ (k \in cutShort' <=> k \in cutShort)
      BY <1>16, <2>2 DEF Reject, Finish
    <3> QED
      BY <1>1, <2>1, <3>1
  <2>3. CASE k = c
    <3>1. /\ conn'[k] \in {"ended", "cursor"} /\ conn'[k] = conn'[c]
      BY <1>16, <2>3 DEF Reject, Finish
    <3> QED
      BY <1>4, <2>1, <3>1
  <2> QED
    BY <2>2, <2>3
<1>17. ASSUME NEW c \in Conns, SubscribeWakes(c) PROVE Flow(k)'
  <2>1. UNCHANGED <<rows, chan, lastID, subs>>
    BY <1>17 DEF SubscribeWakes
  <2>2. CASE k # c
    <3>1. /\ conn'[k] = conn[k] /\ start'[k] = start[k] /\ afterID'[k] = afterID[k]
          /\ events'[k] = events[k] /\ (k \in cutShort' <=> k \in cutShort)
      BY <1>17, <2>2 DEF SubscribeWakes, Finish
    <3> QED
      BY <1>1, <2>1, <3>1
  <2>3. CASE k = c
    <3>1. /\ conn'[k] \in {"ended", "cursor"} /\ conn'[k] = conn'[c]
      BY <1>17, <2>3 DEF SubscribeWakes, Finish
    <3> QED
      BY <1>4, <2>1, <3>1
  <2> QED
    BY <2>2, <2>3
<1>18. ASSUME NEW c \in Conns, ReadCursor(c) PROVE Flow(k)'
  <2>1. UNCHANGED <<rows, chan, lastID, subs>>
    BY <1>18 DEF ReadCursor
  <2>2. CASE k # c
    <3>1. /\ conn'[k] = conn[k] /\ start'[k] = start[k] /\ afterID'[k] = afterID[k]
          /\ events'[k] = events[k] /\ (k \in cutShort' <=> k \in cutShort)
      BY <1>18, <2>2 DEF ReadCursor, Finish
    <3> QED
      BY <1>1, <2>1, <3>1
  <2>3. CASE k = c
    <3>1. /\ conn'[k] = "initial" /\ afterID'[k] \in 0..MaxRows
          /\ start'[k] = afterID'[k]
      BY <1>18, <2>3 DEF ReadCursor, Finish
    <3> QED
      BY <1>4, <2>1, <3>1
  <2> QED
    BY <2>2, <2>3
<1>19. ASSUME NEW c \in Conns, SendInitial(c) PROVE Flow(k)'
  <2> DEFINE initial == Earliest(Backlog(c), Limit)
  <2>1. /\ conn[c] = "initial"
        /\ events' = [events EXCEPT ![c] = initial]
        /\ afterID' = [afterID EXCEPT ![c] = Largest(initial, @)]
        /\ cutShort' = IF initial # Backlog(c) THEN cutShort \cup {c} ELSE cutShort
        /\ conn' = [conn EXCEPT ![c] = "streaming"]
        /\ UNCHANGED <<rows, chan, lastID, subs, start>>
    BY <1>19 DEF SendInitial
  <2>2. initial \in SUBSET (1..MaxRows) /\ afterID[c] \in 0..MaxRows
        /\ initial \subseteq Backlog(c)
    BY DEF Earliest, Backlog
  <2> HIDE DEF initial
  <2>3. CASE k # c
    <3>1. /\ conn'[k] = conn[k] /\ start'[k] = start[k] /\ afterID'[k] = afterID[k]
          /\ events'[k] = events[k] /\ (k \in cutShort' <=> k \in cutShort)
      BY <2>1, <2>3
    <3> QED
      BY <1>1, <2>1, <3>1
  <2>4. CASE k = c
    <3> DEFINE top == Largest(initial, afterID[c])
    <3>1. /\ start[c] = afterID[c] /\ conn'[c] = "streaming" /\ events'[c] = initial
          /\ afterID'[c] = top
          /\ c \notin cutShort' => initial = Backlog(c)
      BY <1>00, <2>1, <2>4 DEF Flow
    <3>2. /\ top \in 0..MaxRows /\ \A j \in initial : j <= top
          /\ initial = {} => top = start[c]
          /\ initial # {} => top \in initial
      BY <2>2, <3>1, LargestIs
    <3> HIDE DEF top
    <3>3. \A i \in initial : i \in Wanted[c] /\ start[c] < i /\ i <= rows
      BY <2>2, <3>1 DEF Backlog
    <3>4. start[c] <= top /\ start[c] \in Nat
      <4>1. start[c] \in Nat
        BY <2>2, <3>1
      <4>2. CASE initial = {}
        BY <3>2, <4>1, <4>2
      <4>3. CASE initial # {}
        <5>1. start[c] < top
          BY <3>2, <3>3, <4>3
        <5> QED
          BY <3>2, <4>1, <5>1
      <4> QED
        BY <4>2, <4>3, <4>1
    <3>5. ASSUME c \notin cutShort'
          PROVE  events'[c] = Due(c, top) /\ Due(c, Position(c)) \subseteq events'[c]
      <4>0. initial = {i \in Wanted[c] : start[c] < i /\ i <= rows} /\ events'[c] = initial
        BY <3>1, <3>5 DEF Backlog
      <4>1. ASSUME NEW i \in Due(c, top) PROVE i \in initial
        <5>1. i \in Wanted[c] /\ start[c] < i /\ i <= top /\ i \in Nat
          BY DEF Due
        <5>2. initial # {}
          BY <3>2, <5>1, <3>4
        <5>3. top <= rows
          BY <3>2, <3>3, <5>2
        <5>4. i <= rows
          BY <5>1, <5>3, <3>2
        <5> QED
          BY <4>0, <5>1, <5>4
      <4>2. ASSUME NEW i \in initial PROVE i \in Due(c, top)
        BY <3>2, <3>3 DEF Due
      <4>3. ASSUME NEW i \in Due(c, Position(c)) PROVE i \in initial
        <5>1. i \in Wanted[c] /\ start[c] < i /\ i <= Position(c) /\ i \in Nat
          BY DEF Due
        <5>2. Position(c) \in 0..rows
          BY <1>00, <2>4 DEF Flow
        <5>3. i <= rows
          BY <5>1, <5>2
        <5> QED
          BY <4>0, <5>1, <5>3
      <4> QED
        BY <4>0, <4>1, <4>2, <4>3
    <3>6. Position(c)' = Position(c) /\ start'[c] = start[c]
      BY <2>1 DEF Position
    <3>7. ASSUME c \notin cutShort'
          PROVE  /\ events'[c] = Due(c, afterID[c])'
                 /\ Due(c, Position(c))' \subseteq events'[c]
      BY <3>1, <3>5, <3>6, <3>7 DEF Due
    <3>8. Flow(c)
      BY <2>4
    <3> QED
      BY <1>00, <2>1, <2>4, <3>1, <3>4, <3>6, <3>7, <3>8 DEF Flow
  <2> QED
    BY <2>3, <2>4
<1>20. ASSUME NEW c \in Conns, Relay(c) PROVE Flow(k)'
  <2> DEFINE id == Head(chan[c])
  <2>1. /\ conn[c] = "streaming" /\ chan[c] # <<>> /\ chan' = [chan EXCEPT ![c] = Tail(@)]
        /\ UNCHANGED <<rows, lastID, subs, conn, start, cutShort>>
    BY <1>20 DEF Relay
  <2>2. /\ ToSend(c, id) => /\ events' = [events EXCEPT ![c] = @ \cup {id}]
                            /\ afterID' = [afterID EXCEPT ![c] = id]
        /\ ~ ToSend(c, id) => UNCHANGED <<events, afterID>>
    BY <1>20 DEF Relay
  <2>3. CASE k # c
    <3>1. chan'[k] = chan[k] /\ events'[k] = events[k] /\ afterID'[k] = afterID[k]
      BY <2>1, <2>2, <2>3
    <3> QED
      BY <1>1, <2>1, <3>1
  <2>4. CASE k = c
    <3>1. /\ chan[c] \in Seq(1..MaxRows) /\ Len(chan[c]) > 0 /\ id = chan[c][1]
          /\ chan'[c] = Tail(chan[c]) /\ id \in 1..MaxRows
          /\ Len(chan[c]) \in Nat /\ Tail(chan[c]) \in Seq(1..MaxRows)
      <4>1. chan[c] \in Seq(1..MaxRows) /\ chan'[c] = Tail(chan[c])
        BY <2>1
      <4> QED
        BY <2>1, <4>1, TailIs
    <3>2. /\ chan'[c] \in Seq(1..MaxRows) /\ Len(chan'[c]) \in Nat
          /\ Len(chan'[c]) = Len(chan[c]) - 1
          /\ \A i \in 1..Len(chan'[c]) : chan'[c][i] = chan[c][i + 1]
      <4>1. chan[c] \in Seq(1..MaxRows) /\ chan'[c] = Tail(chan[c])
        BY <3>1
      <4> QED
        BY <2>1, <4>1, TailIs
    <3> HIDE DEF id
    <3>3. /\ \A i \in 1..Len(chan[c]) : chan[c][i] = Position(c) + i
          /\ c \in subs => lastID = Position(c) + Len(chan[c])
          /\ Position(c) = id - 1 /\ id <= rows
          /\ start[c] \in Nat /\ start[c] <= afterID[c]
      <4>1. Position(c) = id - 1
        BY <2>1, <3>1 DEF Position
      <4>2. 1 \in 1..Len(chan[c])
        BY <3>1
      <4>3. chan[c][1] <= rows
        BY <1>00, <2>4, <4>2 DEF Flow
      <4> QED
        BY <1>00, <2>1, <2>4, <3>1, <4>1, <4>3 DEF Flow
    <3>4. chan'[c] # <<>> \/ c \in subs => Position(c)' = id
      <4>1. CASE chan'[c] = <<>> /\ c \in subs
        <5>1. Len(chan'[c]) = 0
          BY <4>1
        <5>2. lastID' = id
          <6>1. Len(chan[c]) = 1
            BY <2>1, <3>1, <4>1, TailIs
          <6>2. lastID = id - 1 + Len(chan[c]) /\ lastID' = lastID
            BY <2>1, <3>3, <4>1
          <6> QED
            BY <3>1, <6>1, <6>2
        <5> QED
          BY <4>1, <5>2 DEF Position
      <4>2. CASE chan'[c] # <<>>
        <5>1. Len(chan'[c]) > 0
          BY <3>1, <4>2
        <5>2. chan'[c][1] = chan[c][2] /\ 2 \in 1..Len(chan[c])
          BY <3>1, <3>2, <5>1
        <5>3. chan'[c][1] = id + 1
          BY <3>1, <3>3, <5>2
        <5>4. Position(c)' = chan'[c][1] - 1
          BY <4>2 DEF Position
        <5> QED
          BY <3>1, <5>3, <5>4
      <4> QED
        BY <4>1, <4>2
    <3>5. /\ \A i \in 1..Len(chan'[c]) : chan'[c][i] = Position(c)' + i
          /\ c \in subs' => lastID' = Position(c)' + Len(chan'[c])
          /\ Position(c)' \in 0..rows'
          /\ \A i \in 1..Len(chan'[c]) : chan'[c][i] <= rows'
      <4>1. \A i \in 1..Len(chan'[c]) : chan'[c][i] = Position(c)' + i
        <5>1. ASSUME NEW i \in 1..Len(chan'[c]) PROVE chan'[c][i] = Position(c)' + i
          <6>1. chan'[c] # <<>>
            <7>1. CASE chan'[c] = <<>>
              <8>1. Len(chan'[c]) = 0
                BY <7>1
              <8> QED
                BY <8>1
            <7> QED
              BY <7>1
          <6>2. chan'[c][i] = Position(c) + (i + 1)
            BY <3>1, <3>2, <3>3
          <6>3. Position(c)' = id /\ Position(c) = id - 1
            BY <3>3, <3>4, <6>1
          <6> QED
            BY <3>1, <3>2, <6>2, <6>3
        <5> QED
          BY <5>1
      <4>2. c \in subs' => lastID' = Position(c)' + Len(chan'[c])
        BY <2>1, <3>1, <3>2, <3>3, <3>4
      <4>3. Position(c)' \in 0..rows'
        <5>1. CASE chan'[c] # <<>> \/ c \in subs
          <6>1. Position(c)' = id /\ rows' = rows
            BY <2>1, <3>4, <5>1
          <6>2. id \in 0..rows
            BY <3>1, <3>3
          <6> QED
            BY <6>1, <6>2
        <5>2. CASE chan'[c] = <<>>
          BY <2>1, <5>2 DEF Position
        <5> QED
          BY <5>1, <5>2
      <4>4. \A i \in 1..Len(chan'[c]) : chan'[c][i] <= rows'
        <5>1. \A i \in 1..Len(chan[c]) : chan[c][i] <= rows
          BY <1>00, <2>4 DEF Flow
        <5>2. \A i \in 1..Len(chan'[c]) : i + 1 \in 1..Len(chan[c])
          BY <3>1, <3>2
        <5> QED
          BY <2>1, <3>2, <5>1, <5>2
      <4> QED
        BY <4>1, <4>2, <4>3, <4>4
    <3>6. start'[c] = start[c] /\ start[c] <= afterID'[c]
      <4>1. afterID[c] \in Nat /\ id \in Nat
        BY <3>1
      <4>2. CASE ToSend(c, id)
        <5>1. afterID'[c] = id /\ afterID[c] < id
          BY <2>2, <4>2 DEF ToSend
        <5> QED
          BY <2>1, <3>3, <4>1, <5>1
      <4>3. CASE ~ ToSend(c, id)
        BY <2>1, <2>2, <3>3, <4>3
      <4> QED
        BY <4>2, <4>3
    <3>7. ASSUME c \notin cutShort
          PROVE  /\ events'[c] = Due(c, afterID'[c])
                 /\ Due(c, id) \subseteq events'[c]
      <4>1. /\ events[c] = Due(c, afterID[c]) /\ Due(c, Position(c)) \subseteq events[c]
        BY <1>00, <2>1, <2>4, <3>7 DEF Flow
      <4>2. Due(c, id - 1) \subseteq events[c]
        BY <3>3, <4>1
      <4>3. Wanted[c] \subseteq Nat /\ afterID[c] \in Nat /\ id \in Nat
        BY <3>1
      <4>4. CASE ToSend(c, id)
        <5>1. events'[c] = events[c] \cup {id} /\ afterID'[c] = id
          BY <2>2, <4>4
        <5>2. afterID[c] < id /\ id \in Wanted[c]
          BY <4>4 DEF ToSend
        <5>3. id \in Due(c, id) /\ Due(c, afterID[c]) \subseteq Due(c, id)
          BY <3>3, <4>3, <5>2 DEF Due
        <5>4. Due(c, id) \subseteq Due(c, id - 1) \cup {id}
          BY <4>3 DEF Due
        <5> QED
          BY <4>1, <4>2, <5>1, <5>3, <5>4
      <4>5. CASE ~ ToSend(c, id)
        <5>1. events'[c] = events[c] /\ afterID'[c] = afterID[c]
          BY <2>2, <4>5
        <5>2. id \in Wanted[c] => id <= afterID[c]
          BY <4>3, <4>5 DEF ToSend
        <5>3. Due(c, id) \subseteq Due(c, id - 1) \cup Due(c, afterID[c])
          BY <4>3, <5>2 DEF Due
        <5> QED
          BY <4>1, <4>2, <5>1, <5>3
      <4> QED
        BY <4>4, <4>5
    <3>8. ASSUME c \notin cutShort'
          PROVE  /\ events'[c] = Due(c, afterID[c])'
                 /\ (c \in subs' \/ chan'[c] # <<>>) => Due(c, Position(c))' \subseteq events'[c]
      <4>1. Due(c, afterID[c])' = Due(c, afterID'[c])
        BY <2>1 DEF Due
      <4>2. ASSUME c \in subs' \/ chan'[c] # <<>> PROVE Due(c, Position(c))' \subseteq events'[c]
        <5>1. Position(c)' = id
          BY <2>1, <3>4, <4>2
        <5>2. Due(c, Position(c))' = Due(c, id)
          BY <2>1, <5>1 DEF Due
        <5> QED
          BY <2>1, <3>7, <3>8, <5>2
      <4> QED
        BY <2>1, <3>7, <3>8, <4>1, <4>2
    <3> QED
      BY <1>00, <2>1, <2>4, <3>5, <3>6, <3>8, <3>3 DEF Flow
  <2> QED
    BY <2>3, <2>4
<1>21. ASSUME NEW c \in Conns, StreamEnds(c) PROVE Flow(k)'
  <2>1. UNCHANGED <<rows, chan, lastID, subs>>
    BY <1>21 DEF StreamEnds
  <2>2. CASE k # c
    <3>1. /\ conn'[k] = conn[k] /\ start'[k] = start[k] /\ afterID'[k] = afterID[k]
          /\ events'[k] = events[k] /\ (k \in cutShort' <=> k \in cutShort)
      BY <1>21, <2>2 DEF StreamEnds, Finish
    <3> QED
      BY <1>1, <2>1, <3>1
  <2>3. CASE k = c
    <3>1. conn'[k] = "leaving"
      BY <1>21, <2>3 DEF StreamEnds, Finish
    <3> QED
      BY <1>4, <2>1, <3>1
  <2> QED
    BY <2>2, <2>3
<1>22. ASSUME NEW c \in Conns, Leave(c) PROVE Flow(k)'
  <2>1. UNCHANGED <<rows, chan, lastID, subs>>
    BY <1>22 DEF Leave
  <2>2. CASE k # c
    <3>1. /\ conn'[k] = conn[k] /\ start'[k] = start[k] /\ afterID'[k] = afterID[k]
          /\ events'[k] = events[k] /\ (k \in cutShort' <=> k \in cutShort)
      BY <1>22, <2>2 DEF Leave, Finish
    <3> QED
      BY <1>1, <2>1, <3>1
  <2>3. CASE k = c
    <3>1. conn'[k] = "leaving"
      BY <1>22, <2>3 DEF Leave, Finish
    <3> QED
      BY <1>4, <2>1, <3>1
  <2> QED
    BY <2>2, <2>3
<1>23. ASSUME NEW c \in Conns, Unsubscribe(c) PROVE Flow(k)'
  <2>1. /\ conn[c] = "leaving" /\ conn' = [conn EXCEPT ![c] = "ended"] /\ subs' = subs \ {c}
        /\ chan' = [chan EXCEPT ![c] = <<>>]
        /\ UNCHANGED <<rows, lastID, start, afterID, events, cutShort>>
    BY <1>23 DEF Unsubscribe
  <2>2. CASE k # c
    <3>1. chan'[k] = chan[k] /\ conn'[k] = conn[k] /\ (k \in subs' <=> k \in subs)
      BY <2>1, <2>2
    <3> QED
      BY <1>1, <2>1, <3>1
  <2>3. CASE k = c
    <3>1. chan'[k] = <<>> /\ Len(chan'[k]) = 0 /\ conn'[k] = "ended" /\ k \notin subs'
      BY <2>1, <2>3
    <3>2. Position(k)' = lastID /\ lastID \in 0..rows
      BY <2>1, <3>1 DEF Position
    <3> QED
      BY <1>00, <2>1, <3>1, <3>2 DEF Flow
  <2> QED
    BY <2>2, <2>3
<1>24. CASE CloseStop
  <2>1. /\ rows' >= rows /\ rows' \in Nat /\ subs' \subseteq subs
        /\ UNCHANGED <<chan, lastID, conn, start, afterID, events, cutShort>>
    BY <1>24 DEF CloseStop
  <2> QED
    BY <1>2, <2>1
<1>25. CASE CloseReadsRunning
  <2>1. /\ rows' >= rows /\ rows' \in Nat /\ subs' \subseteq subs
        /\ UNCHANGED <<chan, lastID, conn, start, afterID, events, cutShort>>
    BY <1>25 DEF CloseReadsRunning
  <2> QED
    BY <1>2, <2>1
<1>26. CASE CloseReturns
  <2>1. /\ rows' >= rows /\ rows' \in Nat /\ subs' \subseteq subs
        /\ UNCHANGED <<chan, lastID, conn, start, afterID, events, cutShort>>
    BY <1>26 DEF CloseReturns
  <2> QED
    BY <1>2, <2>1
<1>27. CASE UNCHANGED vars
  <2>1. /\ rows' >= rows /\ rows' \in Nat /\ subs' \subseteq subs
        /\ UNCHANGED <<chan, lastID, conn, start, afterID, events, cutShort>>
    BY <1>27 DEF vars
  <2> QED
    BY <1>2, <2>1
<1> QED
  BY <1>5, <1>6, <1>7, <1>8, <1>9, <1>10, <1>11, <1>12, <1>13, <1>14, <1>15, <1>16,
     <1>17, <1>18, <1>19, <1>20, <1>21, <1>22, <1>23, <1>24, <1>25, <1>26, <1>27
  DEF Next, Hub, Open, Close

\* A client whose initial batch reached the end of the log never misses a query:
\* for every sizing of the batches, channels and backlogs and every filter.
THEOREM StreamCompleteAlways == Spec => []StreamComplete
<1>1. Init => FlowInv
  <2> SUFFICES ASSUME Init, NEW c \in Conns PROVE Flow(c)
    BY DEF FlowInv
  <2>1. chan[c] = <<>> /\ Len(chan[c]) = 0 /\ lastID = 0 /\ rows = 0 /\ conn[c] = "away" /\ subs = {}
    BY DEF Init
  <2>2. Position(c) = 0 /\ 0 \in 0..0
    BY <2>1 DEF Position
  <2> QED
    BY <2>1, <2>2 DEF Flow
<1>2. TypeOK /\ BatchInv /\ CloseInv /\ FlowInv /\ [Next]_vars => FlowInv'
  BY FlowStep DEF FlowInv
<1>3. TypeOK /\ FlowInv => StreamComplete
  <2> SUFFICES ASSUME TypeOK, FlowInv, NEW c \in Conns, conn[c] = "streaming", c \notin cutShort
               PROVE  /\ events[c] = Due(c, afterID[c])
                      /\ c \in subs => Due(c, lastID) \subseteq events[c] \cup Elements(chan[c])
    BY DEF StreamComplete
  <2>1. /\ Flow(c) /\ Wanted[c] \subseteq Nat /\ rows \in Nat
        /\ chan[c] \in Seq(1..MaxRows) /\ lastID \in Nat
    BY StreamAssumption DEF StreamAssumption, TypeOK, FlowInv, Ids
  <2>2. ASSUME c \in subs, NEW i \in Due(c, lastID), i \notin events[c]
        PROVE  i \in Elements(chan[c])
    <3>1. Position(c) \in Nat /\ lastID = Position(c) + Len(chan[c]) /\ Len(chan[c]) \in Nat
      BY <2>1, <2>2 DEF Flow
    <3>2. i \in Wanted[c] /\ start[c] < i /\ i <= lastID /\ i \in Nat
      BY <2>1 DEF Due
    <3>3. Due(c, Position(c)) \subseteq events[c]
      BY <2>1, <2>2 DEF Flow
    <3>4. ~ (i <= Position(c))
      BY <2>2, <3>2, <3>3 DEF Due
    <3>5. i - Position(c) \in 1..Len(chan[c])
      BY <3>1, <3>2, <3>4
    <3>6. chan[c][i - Position(c)] = i
      BY <2>1, <3>1, <3>2, <3>5 DEF Flow
    <3> QED
      BY <3>5, <3>6 DEF Elements
  <2> QED
    BY <2>1, <2>2 DEF Flow
<1>4. Init => BatchInv
  BY TypeInit
<1>5. TypeOK /\ BatchInv /\ [Next]_vars => BatchInv'
  BY TypeStep
<1> QED
  BY <1>1, <1>2, <1>3, <1>4, <1>5, TypeCorrect, CloseAlways, PTL DEF Spec
=============================================================================
