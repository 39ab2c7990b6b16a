--------------------------- MODULE PipelineProofs ---------------------------
(***************************************************************************)
(* What Pipeline guarantees for every number of queries and upstreams,     *)
(* every channel and batch size, and every failure it models.              *)
(***************************************************************************)
EXTENDS Pipeline, TLAPS

-----------------------------------------------------------------------------
\* Moving the head of the channel to the end of the batch moves nothing in the
\* queue that the two form.
LEMMA ShiftHead ==
  ASSUME NEW S, NEW b \in Seq(S), NEW r \in Seq(S), r # <<>>
  PROVE  /\ Append(b, Head(r)) \in Seq(S)
         /\ Tail(r) \in Seq(S)
         /\ Len(Tail(r)) = Len(r) - 1
         /\ Append(b, Head(r)) \o Tail(r) = b \o r
  OBVIOUS

LEMMA AppendConcat ==
  ASSUME NEW S, NEW b \in Seq(S), NEW r \in Seq(S), NEW q \in S
  PROVE  b \o Append(r, q) = Append(b \o r, q)
  OBVIOUS

\* The batch is a prefix of that queue.
LEMMA SplitConcat ==
  ASSUME NEW S, NEW b \in Seq(S), NEW r \in Seq(S)
  PROVE  /\ SubSeq(b \o r, 1, Len(b)) = b
         /\ SubSeq(b \o r, Len(b) + 1, Len(b \o r)) = r
  OBVIOUS

LEMMA ElementsConcat ==
  ASSUME NEW S, NEW b \in Seq(S), NEW r \in Seq(S)
  PROVE  Elements(b \o r) = Elements(b) \cup Elements(r)
  <1>1. \A i \in 1..Len(b) : i \in 1..Len(b \o r) /\ (b \o r)[i] = b[i]
        OBVIOUS
  <1>2. \A i \in 1..Len(r) : i + Len(b) \in 1..Len(b \o r) /\ (b \o r)[i + Len(b)] = r[i]
        OBVIOUS
  <1>3. \A i \in 1..Len(b \o r) :
           \/ i \in 1..Len(b) /\ (b \o r)[i] = b[i]
           \/ i - Len(b) \in 1..Len(r) /\ (b \o r)[i] = r[i - Len(b)]
        OBVIOUS
  <1>4. Elements(b) \cup Elements(r) \subseteq Elements(b \o r)
        BY <1>1, <1>2 DEF Elements
  <1>5. Elements(b \o r) \subseteq Elements(b) \cup Elements(r)
        BY <1>3 DEF Elements
  <1> QED BY <1>4, <1>5

LEMMA ElementsAppend ==
  ASSUME NEW S, NEW b \in Seq(S), NEW q \in S
  PROVE  Elements(Append(b, q)) = Elements(b) \cup {q}
  <1>1. Len(b) \in Nat /\ Len(Append(b, q)) = Len(b) + 1
        OBVIOUS
  <1>2. \A i \in 1..Len(b) : Append(b, q)[i] = b[i]
        OBVIOUS
  <1>3. Append(b, q)[Len(b) + 1] = q
        OBVIOUS
  <1>4. 1 .. Len(b) + 1 = (1..Len(b)) \cup {Len(b) + 1}
        BY <1>1
  <1> QED BY <1>1, <1>2, <1>3, <1>4, Zenon DEF Elements

LEMMA ElementsHead ==
  ASSUME NEW S, NEW r \in Seq(S), r # <<>>
  PROVE  Elements(r) = {Head(r)} \cup Elements(Tail(r))
  <1>1. Len(r) \in Nat \ {0} /\ Len(Tail(r)) = Len(r) - 1
        OBVIOUS
  <1>2. Head(r) = r[1] /\ \A i \in 1..Len(Tail(r)) : Tail(r)[i] = r[i + 1]
        OBVIOUS
  <1>3. \A i \in 1..Len(r) : i = 1 \/ (i - 1 \in 1..Len(Tail(r)) /\ r[i] = Tail(r)[i - 1])
        BY <1>1, <1>2
  <1>4. 1 \in 1..Len(r) /\ \A i \in 1..Len(Tail(r)) : i + 1 \in 1..Len(r)
        BY <1>1
  <1>5. Elements(r) \subseteq {Head(r)} \cup Elements(Tail(r))
        BY <1>2, <1>3 DEF Elements
  <1>6. {Head(r)} \cup Elements(Tail(r)) \subseteq Elements(r)
        BY <1>2, <1>4 DEF Elements
  <1> QED BY <1>5, <1>6

LEMMA UniqueConcat ==
  ASSUME NEW S, NEW b \in Seq(S), NEW r \in Seq(S)
  PROVE  Unique(b \o r) <=> /\ Unique(b) /\ Unique(r)
                            /\ Elements(b) \cap Elements(r) = {}
  <1>1. \A i \in 1..Len(b) : i \in 1..Len(b \o r) /\ (b \o r)[i] = b[i]
        OBVIOUS
  <1>2. \A i \in 1..Len(r) : i + Len(b) \in 1..Len(b \o r) /\ (b \o r)[i + Len(b)] = r[i]
        OBVIOUS
  <1>3. \A i \in 1..Len(b \o r) :
           \/ i \in 1..Len(b) /\ (b \o r)[i] = b[i]
           \/ i - Len(b) \in 1..Len(r) /\ (b \o r)[i] = r[i - Len(b)]
        OBVIOUS
  <1>4. Len(b) \in Nat /\ Len(r) \in Nat
        OBVIOUS
  <1>5. ASSUME Unique(b \o r)
        PROVE  Unique(b) /\ Unique(r) /\ Elements(b) \cap Elements(r) = {}
    <2>1. Unique(b)
          BY <1>1, <1>5 DEF Unique
    <2>2. Unique(r)
      <3> SUFFICES ASSUME NEW i \in 1..Len(r), NEW j \in 1..Len(r), r[i] = r[j]
                   PROVE  i = j
          BY DEF Unique
      <3>1. i + Len(b) = j + Len(b)
            BY <1>2, <1>5 DEF Unique
      <3> QED BY <1>4, <3>1
    <2>3. ASSUME NEW i \in 1..Len(b), NEW j \in 1..Len(r), b[i] = r[j] PROVE FALSE
      <3>1. i = j + Len(b)
            BY <1>1, <1>2, <1>5, <2>3 DEF Unique
      <3> QED BY <1>4, <3>1
    <2> QED BY <2>1, <2>2, <2>3 DEF Elements
  <1>6. ASSUME Unique(b), Unique(r), Elements(b) \cap Elements(r) = {}
        PROVE  Unique(b \o r)
    <2> SUFFICES ASSUME NEW i \in 1..Len(b \o r), NEW j \in 1..Len(b \o r),
                        (b \o r)[i] = (b \o r)[j]
                 PROVE  i = j
        BY DEF Unique
    <2>1. \A m \in 1..Len(b) : b[m] \in Elements(b)
          BY DEF Elements
    <2>2. \A m \in 1..Len(r) : r[m] \in Elements(r)
          BY DEF Elements
    <2>3. CASE i \in 1..Len(b) /\ (b \o r)[i] = b[i]
          BY <1>3, <1>6, <2>1, <2>2, <2>3 DEF Unique
    <2>4. CASE i - Len(b) \in 1..Len(r) /\ (b \o r)[i] = r[i - Len(b)]
      <3>1. CASE j \in 1..Len(b) /\ (b \o r)[j] = b[j]
            BY <1>6, <2>1, <2>2, <2>4, <3>1
      <3>2. CASE j - Len(b) \in 1..Len(r) /\ (b \o r)[j] = r[j - Len(b)]
        <4>1. i - Len(b) = j - Len(b)
              BY <1>6, <2>4, <3>2 DEF Unique
        <4> QED BY <1>4, <4>1
      <3> QED BY <1>3, <3>1, <3>2
    <2> QED BY <1>3, <2>3, <2>4
  <1> QED BY <1>5, <1>6

LEMMA UniqueAppend ==
  ASSUME NEW S, NEW b \in Seq(S), NEW q \in S, Unique(b), q \notin Elements(b)
  PROVE  Unique(Append(b, q))
  BY DEF Unique, Elements

LEMMA EmptyConcat ==
  ASSUME NEW S, NEW b \in Seq(S)
  PROVE  b \o <<>> = b /\ <<>> \o b = b
  OBVIOUS

-----------------------------------------------------------------------------
\* Every variable keeps its type; the channel never exceeds its capacity, and no
\* query is announced that is not in the log.
THEOREM TypeCorrect == Spec => []TypeOK
  <1>1. Init => TypeOK
    <2>1. <<>> \in Seq(Queries) /\ Len(<<>>) = 0
          OBVIOUS
    <2>2. 0 \in 0..Upstreams /\ 0 \in 0..0 /\ 0 <= ChanCap
          BY PipelineAssumption
    <2> SUFFICES ASSUME Init PROVE TypeOK
        OBVIOUS
    <2>3. records \in Seq(Queries) /\ Len(records) <= ChanCap /\ buf \in Seq(Queries)
          BY <2>1, <2>2 DEF Init
    <2>4. log \in Seq(Queries) /\ announced \in 0..Len(log)
          BY <2>1, <2>2 DEF Init
    <2>5. tries \in [Queries -> 0..Upstreams]
          BY <2>2 DEF Init
    <2> QED BY <2>3, <2>4, <2>5 DEF Init, TypeOK
  <1>2. TypeOK /\ [Next]_vars => TypeOK'
    <2> SUFFICES ASSUME TypeOK, [Next]_vars PROVE TypeOK'
        OBVIOUS
    <2> USE PipelineAssumption DEF TypeOK, netVars, writerVars
    <2>1. ASSUME NEW q \in Queries, Receive(q) PROVE TypeOK'
          BY <2>1 DEF Receive
    <2>2. ASSUME NEW q \in Queries, Exchange(q) PROVE TypeOK'
          BY <2>2 DEF Exchange
    <2>3. ASSUME NEW q \in Queries, Reply(q) PROVE TypeOK'
          BY <2>3 DEF Reply
    <2>4. ASSUME NEW q \in Queries, Enqueue(q) PROVE TypeOK'
      <3>1. CASE Len(records) < ChanCap
        <4>1. Append(records, q) \in Seq(Queries) /\ Len(Append(records, q)) = Len(records) + 1
              OBVIOUS
        <4>2. Len(records) \in Nat /\ Len(records) + 1 <= ChanCap
              BY <3>1
        <4>3. records' = Append(records, q) /\ at' = [at EXCEPT ![q] = "queued"]
              BY <2>4, <3>1 DEF Enqueue
        <4>4. records' \in Seq(Queries) /\ Len(records') <= ChanCap
              BY <4>1, <4>2, <4>3
        <4> QED BY <2>4, <3>1, <4>3, <4>4 DEF Enqueue
      <3>2. CASE ~ (Len(records) < ChanCap)
            BY <2>4, <3>2 DEF Enqueue
      <3> QED BY <3>1, <3>2
    <2>5. ASSUME Take PROVE TypeOK'
          BY <2>5, ShiftHead DEF Take
    <2>6. ASSUME TickFlush PROVE TypeOK'
          BY <2>6 DEF TickFlush
    <2>7. ASSUME SeeDone PROVE TypeOK'
          BY <2>7 DEF SeeDone
    <2>8. ASSUME Drain PROVE TypeOK'
      <3>1. CASE records # <<>>
        <4>1. /\ Append(buf, Head(records)) \in Seq(Queries)
              /\ Tail(records) \in Seq(Queries) /\ Len(Tail(records)) = Len(records) - 1
              BY <3>1, ShiftHead
        <4>2. Len(records) \in Nat /\ Len(Tail(records)) <= ChanCap
              BY <4>1
        <4>3. buf' = Append(buf, Head(records)) /\ records' = Tail(records)
              BY <2>8, <3>1 DEF Drain
        <4>4. /\ buf' \in Seq(Queries)
              /\ records' \in Seq(Queries) /\ Len(records') <= ChanCap
              BY <4>1, <4>2, <4>3
        <4> QED BY <2>8, <3>1, <4>4 DEF Drain
      <3>2. CASE records = <<>>
            BY <2>8, <3>2 DEF Drain
      <3> QED BY <3>1, <3>2
    <2>9. ASSUME FlushCommits PROVE TypeOK'
          BY <2>9 DEF FlushCommits
    <2>10. ASSUME FlushFails PROVE TypeOK'
          BY <2>10 DEF FlushFails, AfterFlush, Elements
    <2>11. ASSUME Notify PROVE TypeOK'
          BY <2>11 DEF Notify, AfterFlush
    <2>12. ASSUME Serve PROVE TypeOK'
          BY <2>12 DEF Serve, ServerFails, ShutdownServer, ServerReturns
    <2>13. ASSUME Cancel PROVE TypeOK'
          BY <2>13 DEF Cancel
    <2>14. ASSUME ListenerReturns PROVE TypeOK'
          BY <2>14 DEF ListenerReturns
    <2>15. ASSUME Exit PROVE TypeOK'
          BY <2>15 DEF Exit
    <2>16. ASSUME UNCHANGED vars PROVE TypeOK'
          BY <2>16 DEF vars
    <2> QED BY <2>1, <2>2, <2>3, <2>4, <2>5, <2>6, <2>7, <2>8, <2>9, <2>10, <2>11,
               <2>12, <2>13, <2>14, <2>15, <2>16 DEF Next, Handle, Write
  <1> QED BY <1>1, <1>2, PTL DEF Spec

-----------------------------------------------------------------------------
\* Only a successful Enqueue makes a query Queued.
LEMMA QueuedUnchanged ==
  ASSUME TypeOK, NEW q \in Queries, Receive(q) \/ Exchange(q) \/ Reply(q)
  PROVE  Queued' = Queued /\ UNCHANGED <<log, buf, records, lost, exited>>
  <1>1. CASE Receive(q)
        BY <1>1 DEF Receive, Queued, TypeOK, writerVars
  <1>2. CASE Exchange(q)
        BY <1>2 DEF Exchange, Queued, writerVars
  <1>3. CASE Reply(q)
        BY <1>3 DEF Reply, Queued, TypeOK, writerVars
  <1> QED BY <1>1, <1>2, <1>3

LEMMA EnqueueCases ==
  ASSUME TypeOK, NEW q \in Queries, Enqueue(q)
  PROVE  /\ UNCHANGED <<log, buf, lost, exited>>
         /\ \/ /\ records' = Append(records, q)
               /\ q \notin Queued /\ Queued' = Queued \cup {q}
            \/ records' = records /\ Queued' = Queued
  <1>1. CASE Len(records) < ChanCap
        BY <1>1 DEF Enqueue, Queued, TypeOK, writerVars
  <1>2. CASE ~ (Len(records) < ChanCap)
        BY <1>2 DEF Enqueue, Queued, TypeOK, writerVars
  <1> QED BY <1>1, <1>2

\* A receive moves the head of the channel to the end of the batch, or nothing.
LEMMA ReceiveCases ==
  ASSUME TypeOK, Take \/ Drain
  PROVE  /\ UNCHANGED <<at, log, lost, exited>>
         /\ \/ /\ records # <<>>
               /\ buf' = Append(buf, Head(records))
               /\ records' = Tail(records)
            \/ UNCHANGED <<buf, records>>
  BY DEF Take, Drain

\* Steps that move no record.
Quiet == TickFlush \/ SeeDone \/ Notify \/ Serve \/ Cancel \/ ListenerReturns
LEMMA QuietUnchanged ==
  ASSUME Quiet \/ UNCHANGED vars
  PROVE  UNCHANGED <<at, log, buf, records, lost, exited>>
  BY DEF Quiet, TickFlush, SeeDone, Notify, Serve, ServerFails, ShutdownServer,
         ServerReturns, Cancel, ListenerReturns, writerVars, netVars, vars

LEMMA AccountedInductive ==
  TypeOK /\ RecordsAccounted /\ [Next]_vars => RecordsAccounted'
  <1> SUFFICES ASSUME TypeOK, RecordsAccounted, [Next]_vars PROVE RecordsAccounted'
      OBVIOUS
  <1>1. log \in Seq(Queries) /\ buf \in Seq(Queries) /\ records \in Seq(Queries)
        BY DEF TypeOK
  <1>2. log \o buf \in Seq(Queries) /\ Trail \in Seq(Queries)
        BY <1>1 DEF Trail
  <1>3. ASSUME UNCHANGED <<log, buf, records, lost>>, Queued' = Queued
        PROVE  RecordsAccounted'
        BY <1>3 DEF RecordsAccounted, Trail, Unique, Elements
  <1>4. ASSUME NEW q \in Queries, Enqueue(q), records' = Append(records, q),
               q \notin Queued, Queued' = Queued \cup {q}
        PROVE  RecordsAccounted'
    <2>1. UNCHANGED <<log, buf, lost>>
          BY <1>4, EnqueueCases
    <2>2. Trail' = Append(Trail, q)
          BY <1>1, <1>2, <1>4, <2>1, AppendConcat DEF Trail
    <2>3. q \notin Elements(Trail) /\ q \notin lost
          BY <1>4 DEF RecordsAccounted
    <2>4. Unique(Append(Trail, q)) /\ Elements(Append(Trail, q)) = Elements(Trail) \cup {q}
          BY <1>2, <2>3, UniqueAppend, ElementsAppend DEF RecordsAccounted
    <2>5. Unique(Trail)' /\ Elements(Trail)' = Elements(Trail) \cup {q}
          BY <2>2, <2>4 DEF Unique, Elements
    <2> QED BY <1>4, <2>1, <2>3, <2>5 DEF RecordsAccounted
  <1>5. ASSUME Take \/ Drain, records # <<>>, buf' = Append(buf, Head(records)),
               records' = Tail(records)
        PROVE  RecordsAccounted'
    <2>1. UNCHANGED <<at, log, lost>>
          BY <1>5, ReceiveCases
    <2>2. Head(records) \in Queries
          BY <1>1, <1>5
    <2>3. log \o Append(buf, Head(records)) = Append(log \o buf, Head(records))
          BY <1>1, <2>2, AppendConcat
    <2>4. ASSUME NEW b \in Seq(Queries)
          PROVE  Append(b, Head(records)) \o Tail(records) = b \o records
          BY <1>1, <1>5, ShiftHead
    <2>5. Trail' = Trail
          BY <1>2, <1>5, <2>1, <2>3, <2>4 DEF Trail
    <2> QED BY <2>1, <2>5 DEF RecordsAccounted, Unique, Elements, Queued
  <1>6. ASSUME FlushCommits PROVE RecordsAccounted'
    <2>1. Trail' = Trail
      <3>1. log' = log \o buf /\ buf' = <<>> /\ records' = records
            BY <1>6 DEF FlushCommits
      <3>2. (log \o buf) \o <<>> = log \o buf
            BY <1>2, EmptyConcat
      <3> QED BY <3>1, <3>2 DEF Trail
    <2> QED BY <1>6, <2>1 DEF FlushCommits, RecordsAccounted, Unique, Elements, Queued
  <1>7. ASSUME FlushFails PROVE RecordsAccounted'
    <2>1. /\ log' = log /\ buf' = <<>> /\ records' = records /\ at' = at
          /\ lost' = lost \cup Elements(buf)
          BY <1>7 DEF FlushFails
    <2>2. Trail' = log \o records
          BY <1>1, <2>1, EmptyConcat DEF Trail
    <2>3. /\ Unique(log) /\ Unique(buf) /\ Unique(records)
          /\ Elements(log) \cap Elements(buf) = {}
          /\ (Elements(log) \cup Elements(buf)) \cap Elements(records) = {}
      <3>1. ASSUME NEW b \in Seq(Queries), Unique(b \o records)
            PROVE  Unique(b) /\ Unique(records) /\ Elements(b) \cap Elements(records) = {}
            BY <1>1, <3>1, UniqueConcat
      <3>2. /\ Unique(log \o buf) /\ Unique(records)
            /\ Elements(log \o buf) \cap Elements(records) = {}
            BY <1>2, <3>1 DEF RecordsAccounted, Trail
      <3> QED BY <1>1, <3>2, UniqueConcat, ElementsConcat
    <2>4. Elements(Trail) = Elements(log) \cup Elements(buf) \cup Elements(records)
      <3>1. ASSUME NEW b \in Seq(Queries)
            PROVE  Elements(b \o records) = Elements(b) \cup Elements(records)
            BY <1>1, ElementsConcat
      <3>2. Elements(log \o buf) = Elements(log) \cup Elements(buf)
            BY <1>1, ElementsConcat
      <3> QED BY <1>2, <3>1, <3>2 DEF Trail
    <2>5. Unique(log \o records) /\ Elements(log \o records) = Elements(log) \cup Elements(records)
          BY <1>1, <2>3, UniqueConcat, ElementsConcat
    <2>6. Unique(Trail)' /\ Elements(Trail)' = Elements(log) \cup Elements(records)
          BY <2>2, <2>5 DEF Unique, Elements
    <2>7. Queued' = Queued
          BY <2>1 DEF Queued
    <2> QED BY <2>1, <2>3, <2>4, <2>6, <2>7 DEF RecordsAccounted
  <1>8. ASSUME NEW q \in Queries, Handle(q) PROVE RecordsAccounted'
        BY <1>3, <1>4, <1>8, QueuedUnchanged, EnqueueCases DEF Handle
  <1>9. ASSUME Take \/ Drain PROVE RecordsAccounted'
        BY <1>3, <1>5, <1>9, ReceiveCases DEF Queued
  <1>10. ASSUME Quiet \/ UNCHANGED vars PROVE RecordsAccounted'
        BY <1>3, <1>10, QuietUnchanged DEF Queued
  <1>11. ASSUME Exit PROVE RecordsAccounted'
        BY <1>3, <1>11 DEF Exit, writerVars, Queued
  <1> QED BY <1>6, <1>7, <1>8, <1>9, <1>10, <1>11 DEF Next, Write, Quiet

\* No record is duplicated, invented or silently forgotten, whatever fails.
THEOREM RecordsAccountedAlways == Spec => []RecordsAccounted
  <1>1. Init => RecordsAccounted
        BY DEF Init, RecordsAccounted, Trail, Unique, Elements, Queued
  <1> QED BY <1>1, TypeCorrect, AccountedInductive, PTL DEF Spec

-----------------------------------------------------------------------------
LEMMA WriterInductive == TypeOK /\ WriterInv /\ [Next]_vars => WriterInv'
  <1> SUFFICES ASSUME TypeOK, WriterInv, [Next]_vars PROVE WriterInv'
      OBVIOUS
  <1>1. /\ buf \in Seq(Queries) /\ records \in Seq(Queries)
        /\ Len(buf) \in Nat /\ BatchSize \in Nat \ {0}
        BY PipelineAssumption DEF TypeOK
  <1>2. ASSUME UNCHANGED <<buf, writer, stopping, records, earlyQueued>>,
               cancelled => cancelled', Queued \subseteq Queued'
        PROVE  WriterInv'
        BY <1>2 DEF WriterInv, BatchBounded, Elements
  <1>3. ASSUME NEW q \in Queries, Receive(q) \/ Exchange(q) \/ Reply(q) PROVE WriterInv'
        BY <1>2, <1>3, QueuedUnchanged DEF Receive, Exchange, Reply, writerVars
  <1>4. ASSUME NEW q \in Queries, Enqueue(q) PROVE WriterInv'
    <2>1. UNCHANGED <<buf, writer, stopping, cancelled>> /\ q \notin Queued
          BY <1>4 DEF Enqueue, writerVars, Queued
    <2>2. CASE ~ (Len(records) < ChanCap)
          BY <1>2, <1>4, <2>1, <2>2, EnqueueCases DEF Enqueue
    <2>3. CASE Len(records) < ChanCap
      <3>1. /\ records' = Append(records, q)
            /\ earlyQueued' = IF cancelled THEN earlyQueued ELSE earlyQueued \cup {q}
            /\ Queued' = Queued \cup {q}
            BY <1>4, <2>3 DEF Enqueue, Queued, TypeOK
      <3>2. Elements(Append(records, q)) = Elements(records) \cup {q}
            BY <1>1, ElementsAppend
      <3>3. Elements(records)' = Elements(records) \cup {q}
            BY <3>1, <3>2 DEF Elements
      <3>4. earlyQueued' \subseteq Queued'
            BY <3>1 DEF WriterInv
      <3>5. ASSUME stopping, writer # "select"
            PROVE  earlyQueued' \cap Elements(records)' = {}
        <4>1. earlyQueued' = earlyQueued /\ q \notin earlyQueued
              BY <2>1, <3>1, <3>5 DEF WriterInv
        <4> QED BY <3>3, <3>5, <4>1 DEF WriterInv
      <3> QED BY <2>1, <3>4, <3>5 DEF WriterInv, BatchBounded
    <2> QED BY <2>2, <2>3
  <1>5. ASSUME Take PROVE WriterInv'
    <2>1. /\ buf' = Append(buf, Head(records)) /\ records # <<>>
          /\ writer' = IF Len(buf') >= BatchSize THEN "flush" ELSE "select"
          /\ writer = "select" /\ ~ stopping
          /\ UNCHANGED <<stopping, cancelled, earlyQueued>> /\ Queued' = Queued
          BY <1>5 DEF Take, Queued
    <2>2. Head(records) \in Queries
          BY <1>1, <2>1
    <2>3. Len(buf') = Len(buf) + 1 /\ buf' # <<>>
          BY <1>1, <2>1, <2>2
    <2>4. Len(buf) < BatchSize
          BY <2>1 DEF WriterInv, BatchBounded
    <2> QED BY <1>1, <2>1, <2>3, <2>4 DEF WriterInv, BatchBounded
  <1>6. ASSUME TickFlush PROVE WriterInv'
        BY <1>6 DEF TickFlush, WriterInv, BatchBounded, Queued, Elements
  <1>7. ASSUME SeeDone PROVE WriterInv'
        BY <1>7 DEF SeeDone, WriterInv, BatchBounded, Queued, Elements
  <1>8. ASSUME Drain PROVE WriterInv'
    <2>1. stopping /\ UNCHANGED <<stopping, cancelled, earlyQueued>> /\ Queued' = Queued
          BY <1>8 DEF Drain, Queued
    <2>2. CASE records # <<>>
          BY <1>8, <2>1, <2>2 DEF Drain, WriterInv, BatchBounded
    <2>3. CASE records = <<>>
      <3>1. Elements(records') = {}
            BY <1>8, <2>3 DEF Drain, Elements
      <3> QED BY <1>8, <2>1, <2>3, <3>1 DEF Drain, WriterInv, BatchBounded
    <2> QED BY <2>2, <2>3
  <1>9. ASSUME FlushCommits \/ FlushFails \/ Notify PROVE WriterInv'
    <2>1. /\ buf' = <<>>
          /\ writer' = "notify" \/ writer' = AfterFlush
          /\ writer \in {"flush", "notify"}
          /\ UNCHANGED <<stopping, cancelled, records, earlyQueued>> /\ Queued' = Queued
          BY <1>9 DEF FlushCommits, FlushFails, Notify, Queued, WriterInv
    <2>2. Len(buf') = 0
          BY <2>1
    <2> QED BY <1>1, <2>1, <2>2 DEF WriterInv, BatchBounded, AfterFlush, Elements
  <1>10. ASSUME Serve \/ Cancel \/ ListenerReturns \/ Exit \/ UNCHANGED vars
         PROVE  WriterInv'
        BY <1>2, <1>10 DEF Serve, ServerFails, ShutdownServer, ServerReturns, Cancel,
           ListenerReturns, Exit, vars, writerVars, Queued
  <1> QED BY <1>3, <1>4, <1>5, <1>6, <1>7, <1>8, <1>9, <1>10 DEF Next, Handle, Write

LEMMA WriterInvAlways == Spec => [](TypeOK /\ WriterInv)
  <1>1. Init => WriterInv
        BY PipelineAssumption DEF Init, WriterInv, BatchBounded, Elements
  <1> QED BY <1>1, TypeCorrect, WriterInductive, PTL DEF Spec

\* No batch grows past BatchSize before the shutdown.
THEOREM BatchBoundedAlways == Spec => []BatchBounded
  <1>1. WriterInv => BatchBounded
        BY DEF WriterInv
  <1> QED BY <1>1, WriterInvAlways, PTL

\* The drain leaves nothing behind that was sent before the cancellation.
THEOREM DrainCompleteAlways == Spec => []DrainComplete
  <1>1. TypeOK /\ WriterInv => DrainComplete
    <2> SUFFICES ASSUME WriterInv, writer = "stopped"
                 PROVE  earlyQueued \cap (Elements(buf) \cup Elements(records)) = {}
        BY DEF DrainComplete
    <2>1. Elements(buf) = {}
          BY DEF WriterInv, Elements
    <2> QED BY <2>1 DEF WriterInv
  <1> QED BY <1>1, WriterInvAlways, PTL

-----------------------------------------------------------------------------
\* A step of the pipeline is a step of QueryLog, or moves nothing that it shows.
LEMMA StepRefines ==
  TypeOK /\ WriterInv /\ [Next]_vars => [QL!Next]_(QL!vars)
  <1> SUFFICES ASSUME TypeOK, WriterInv, [Next]_vars PROVE [QL!Next]_(QL!vars)
      OBVIOUS
  <1> DEFINE pending == buf \o records
  <1>1. log \in Seq(Queries) /\ buf \in Seq(Queries) /\ records \in Seq(Queries)
        BY DEF TypeOK
  <1>2. ASSUME pending' = pending, Queued' = Queued, UNCHANGED <<log, exited>>
        PROVE  UNCHANGED QL!vars
        BY <1>2 DEF QL!vars
  <1>3. ASSUME ~ exited, NEW q \in Queries, Handle(q) PROVE [QL!Next]_(QL!vars)
    <2>1. CASE Receive(q) \/ Exchange(q) \/ Reply(q)
          BY <1>2, <2>1, QueuedUnchanged
    <2>2. CASE Enqueue(q)
      <3>1. CASE records' = records /\ Queued' = Queued
            BY <1>2, <2>2, <3>1, EnqueueCases
      <3>2. CASE /\ records' = Append(records, q)
                 /\ q \notin Queued /\ Queued' = Queued \cup {q}
        <4>1. UNCHANGED <<log, buf, exited>>
              BY <2>2, EnqueueCases
        <4>2. pending' = Append(pending, q)
              BY <1>1, <3>2, <4>1, AppendConcat
        <4>3. QL!Accept(q)
              BY <1>3, <3>2, <4>1, <4>2 DEF QL!Accept
        <4> QED BY <4>3 DEF QL!Next
      <3> QED BY <2>2, <3>1, <3>2, EnqueueCases
    <2> QED BY <1>3, <2>1, <2>2 DEF Handle
  <1>4. ASSUME Take \/ Drain PROVE UNCHANGED QL!vars
    <2>1. UNCHANGED <<log, exited>> /\ Queued' = Queued
          BY <1>4, ReceiveCases DEF Queued
    <2>2. CASE UNCHANGED <<buf, records>>
          BY <1>2, <2>1, <2>2
    <2>3. CASE /\ records # <<>> /\ buf' = Append(buf, Head(records))
               /\ records' = Tail(records)
          BY <1>1, <1>2, <2>1, <2>3, ShiftHead
    <2> QED BY <1>4, <2>2, <2>3, ReceiveCases
  <1>5. ASSUME ~ exited, FlushCommits \/ FlushFails PROVE QL!Next
    <2>1. /\ buf # <<>> /\ buf' = <<>> /\ records' = records /\ exited' = exited
          /\ Queued' = Queued
          BY <1>5 DEF FlushCommits, FlushFails, WriterInv, Queued
    <2>2. /\ SubSeq(pending, 1, Len(buf)) = buf
          /\ SubSeq(pending, Len(buf) + 1, Len(pending)) = records
          BY <1>1, SplitConcat
    <2>3. pending' = records
          BY <1>1, <2>1, EmptyConcat
    <2>4. Len(buf) \in 1..Len(pending)
          BY <1>1, <2>1
    <2>5. CASE FlushCommits
      <3>1. log' = log \o SubSeq(pending, 1, Len(buf))
            BY <2>2, <2>5 DEF FlushCommits
      <3>2. QL!Commit(Len(buf))
            BY <1>5, <2>1, <2>2, <2>3, <3>1 DEF QL!Commit
      <3> QED BY <2>4, <3>2 DEF QL!Next, QL!Settle
    <2>6. CASE FlushFails
      <3>1. QL!Lose(Len(buf))
            BY <1>5, <2>1, <2>2, <2>3, <2>6 DEF QL!Lose, FlushFails
      <3> QED BY <2>4, <3>1 DEF QL!Next, QL!Settle
    <2> QED BY <1>5, <2>5, <2>6
  <1>6. ASSUME Quiet \/ UNCHANGED vars PROVE UNCHANGED QL!vars
        BY <1>2, <1>6, QuietUnchanged DEF Queued
  <1>7. ASSUME ~ exited, Exit PROVE QL!Next
    <2>1. QL!Close
          BY <1>7 DEF QL!Close, Exit, writerVars, Queued
    <2> QED BY <2>1 DEF QL!Next
  <1> QED BY <1>3, <1>4, <1>5, <1>6, <1>7 DEF Next, Write, Quiet

\* The pipeline is a queue log: it commits or loses whole batches from the front
\* of one queue, accepts no query twice and does nothing after the exit.
THEOREM PipelineImplementsQueryLog == Spec => ImplementsQueryLog
  <1>1. Init => QL!Init
    <2>1. <<>> \o <<>> = <<>>
          OBVIOUS
    <2> QED BY <2>1 DEF Init, QL!Init, Queued
  <1> QED BY <1>1, WriterInvAlways, StepRefines, PTL DEF Spec, ImplementsQueryLog, QL!Spec
=============================================================================
