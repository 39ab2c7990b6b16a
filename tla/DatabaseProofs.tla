--------------------------- MODULE DatabaseProofs ---------------------------
(***************************************************************************)
(* Theorems about the store and what is read from it.                      *)
(*                                                                         *)
(* Activity: the hourly counts stay those of the rows and a purge that     *)
(* says so deletes all (StoreInv); what a request has read so far stands   *)
(* in a relation to the log of now until a row it may have seen goes away  *)
(* (ActivityInv, PageInv, ReachInv, SpikeInv, RowsInv), from which the     *)
(* numbers and the rows of a page, the reach of domains, the spikes and    *)
(* the charts follow; and both keep their types (NumbersInv, StepsInv,     *)
(* FormInv).                                                               *)
(*                                                                         *)
(* ConnPool: the connections that all of this runs on, for any size of the *)
(* pool and any number of goroutines.                                      *)
(***************************************************************************)
EXTENDS Activity, FiniteSetTheorems, WellFoundedInduction, TLAPS

-----------------------------------------------------------------------------
\* The log and its hourly counts

\* The counts are those of the rows S.
Counts(S) ==
    /\ total = [k \in Keys |-> GroupCount(S, k)]
    /\ tracker = [k \in Keys |-> GroupCount(Tracking(S), k)]

NothingCounted == total = [k \in Keys |-> 0] /\ tracker = [k \in Keys |-> 0]

\* The log grows by what is numbered from nextID on, and what the writer has in hand
\* is no row of it yet.
LogInv ==
    /\ IsFiniteSet(queries) /\ IsFiniteSet(batch)
    /\ nextID \in Nat /\ cutoff \in Cutoffs \cup {0}
    /\ \A r \in queries : r \in Rows(Nat) /\ r.id < nextID
    /\ \A r \in batch : /\ r \in Rows(Nat)
                        /\ nextID <= r.id /\ r.id < nextID + Cardinality(batch)
                        /\ \A c \in Cutoffs : r.ts >= c

\* Who is where: the writer and the purge exclude each other by the lock, and after
\* a crash nobody is anywhere.
PlaceInv ==
    /\ opened \in BOOLEAN
    /\ lock # "writer" => batch = {}
    /\ purging = "rebuild" => lock = "purge"
    /\ ~ opened => lock = "free" /\ purging = "off"
    /\ chunk \subseteq queries

\* The counts agree with the log even before Open has looked at them, unless there
\* were none yet.
CountsInv == Counts(queries) \/ (~ opened /\ NothingCounted)

PurgedInv == outcome = "done" => purging = "off" /\ Expired = {}

StoreInv == LogInv /\ PlaceInv /\ CountsInv /\ PurgedInv

LEMMA DisjointUnion ==
    ASSUME NEW S, NEW T, IsFiniteSet(S), IsFiniteSet(T), S \cap T = {}
    PROVE  /\ IsFiniteSet(S \cup T)
           /\ Cardinality(S \cup T) = Cardinality(S) + Cardinality(T)
           /\ Cardinality(S) \in Nat /\ Cardinality(T) \in Nat
<1>1. Cardinality(S \cap T) = 0
  BY FS_EmptySet
<1>2. Cardinality(S) \in Nat /\ Cardinality(T) \in Nat
  BY FS_CardinalityType
<1>3. /\ IsFiniteSet(S \cup T)
      /\ Cardinality(S \cup T) = Cardinality(S) + Cardinality(T) - Cardinality(S \cap T)
  BY FS_Union
<1> QED
  BY <1>1, <1>2, <1>3

LEMMA GroupsAdd ==
    ASSUME NEW S, NEW T, IsFiniteSet(S), IsFiniteSet(T), S \cap T = {}, NEW k
    PROVE  /\ GroupCount(S \cup T, k) = GroupCount(S, k) + GroupCount(T, k)
           /\ GroupCount(S, k) \in Nat
<1> DEFINE In(X) == {r \in X : <<Bucket(r), r.mac, SourceKey(r)>> = k}
<1>1. In(S) \subseteq S /\ In(T) \subseteq T /\ In(S) \cap In(T) = {}
  OBVIOUS
<1>2. In(S \cup T) = In(S) \cup In(T)
  OBVIOUS
<1>3. \A X : GroupCount(X, k) = Cardinality(In(X))
  BY DEF GroupCount
<1> HIDE DEF In
<1>4. IsFiniteSet(In(S)) /\ IsFiniteSet(In(T))
  BY <1>1, FS_Subset
<1>5. /\ Cardinality(In(S) \cup In(T)) = Cardinality(In(S)) + Cardinality(In(T))
      /\ Cardinality(In(S)) \in Nat
  BY <1>1, <1>4, DisjointUnion
<1> QED
  BY <1>2, <1>3, <1>5

\* The rows that the purge deletes are of the hours that it counts again.
LEMMA OtherHoursStay ==
    ASSUME NEW S, NEW T, NEW k, k[1] \notin {Bucket(r) : r \in T}
    PROVE  GroupCount(S \ T, k) = GroupCount(S, k)
<1>1. {r \in S \ T : <<Bucket(r), r.mac, SourceKey(r)>> = k}
        = {r \in S : <<Bucket(r), r.mac, SourceKey(r)>> = k}
  OBVIOUS
<1> QED
  BY <1>1 DEF GroupCount

LEMMA TrackingParts ==
    ASSUME NEW S, NEW T
    PROVE  /\ Tracking(S \cup T) = Tracking(S) \cup Tracking(T)
           /\ Tracking(S \ T) = Tracking(S) \ Tracking(T)
           /\ Tracking(S) \subseteq S
BY DEF Tracking

\* rollupKey in Go and the GROUP BY in SQL name the same groups.
LEMMA SameKeys ==
    ASSUME NEW S, NEW k
    PROVE  Cardinality({r \in S : RollupKey(r) = k}) = GroupCount(S, k)
BY DEF GroupCount, RollupKey, SourceKey

LEMMA StoreInit == Init => StoreInv
<1> SUFFICES ASSUME Init PROVE StoreInv
  OBVIOUS
<1>1. IsFiniteSet(Old) /\ IsFiniteSet({}) /\ Cardinality(Old) \in Nat /\ Cardinality({}) = 0
  BY StoreAssumption, FS_EmptySet, FS_CardinalityType DEF StoreAssumption
<1>2. \A r \in Old : r.id \in 1..Cardinality(Old) /\ r \in Rows(Nat)
  BY StoreAssumption DEF StoreAssumption
<1>3. LogInv
  <2>1. cutoff \in Cutoffs \cup {0} /\ nextID \in Nat
    BY <1>1 DEF Init
  <2>2. IsFiniteSet(queries) /\ IsFiniteSet(batch)
    BY <1>1 DEF Init
  <2>3. \A r \in queries : r \in Rows(Nat) /\ r.id < nextID
    BY <1>1, <1>2 DEF Init
  <2> QED
    BY <2>1, <2>2, <2>3 DEF LogInv, Init
<1> QED
  BY <1>3 DEF Init, StoreInv, PlaceInv, CountsInv, NothingCounted, PurgedInv

\* The rows of a batch have the numbers that follow, one each.
LEMMA NewBatch ==
    ASSUME StoreInv, WriteBegin
    PROVE  /\ IsFiniteSet(batch')
           /\ \A r \in batch' : /\ r \in Rows(Nat)
                                /\ nextID <= r.id /\ r.id < nextID + Cardinality(batch')
                                /\ \A c \in Cutoffs : r.ts >= c
           /\ \A r, s \in batch' : r.id = s.id => r = s
           /\ Cardinality(batch') <= BatchSize
           /\ nextID + Cardinality(batch') <= Cardinality(Old) + MaxNew + 1
<1>1. nextID \in Nat
  BY DEF StoreInv, LogInv
<1>0. PICK n \in 1..BatchSize :
        /\ nextID + n - 1 <= Cardinality(Old) + MaxNew
        /\ \E q \in [nextID .. nextID + n - 1 -> New] :
             batch' = {WithId(q[i], i) : i \in nextID .. nextID + n - 1}
  BY Zenon DEF WriteBegin
<1>2. PICK q \in [nextID .. nextID + n - 1 -> New] :
        batch' = {WithId(q[i], i) : i \in nextID .. nextID + n - 1}
  BY Zenon, <1>0
<1> DEFINE Ids == nextID .. nextID + n - 1
           row == [i \in Ids |-> WithId(q[i], i)]
<1>3. n \in Nat /\ n > 0
  BY StoreAssumption DEF StoreAssumption
<1>4. IsFiniteSet(Ids) /\ Cardinality(Ids) = n
  <2>1. nextID \in Int /\ nextID + n - 1 \in Int /\ nextID + n - 1 >= nextID
    BY <1>1, <1>3
  <2>2. /\ IsFiniteSet(Ids)
        /\ Cardinality(Ids) = IF nextID > nextID + n - 1 THEN 0 ELSE (nextID + n - 1) - nextID + 1
    BY <2>1, FS_Interval
  <2>3. (nextID + n - 1) - nextID + 1 = n /\ ~ (nextID > nextID + n - 1)
    BY <1>1, <1>3
  <2> HIDE DEF Ids
  <2> QED
    BY <2>2, <2>3
<1>5. row \in Bijection(Ids, batch')
  <2>1. \A i \in Ids : WithId(q[i], i).id = i
    BY DEF WithId
  <2>2. \A i, j \in Ids : row[i] = row[j] => i = j
    <3>1. \A i \in Ids : row[i].id = i
      BY <2>1
    <3> QED
      BY <3>1
  <2>3. batch' = {row[i] : i \in Ids}
    BY <1>2
  <2> HIDE DEF Ids
  <2>4. row \in [Ids -> batch']
    BY <2>3
  <2> HIDE DEF row
  <2>5. row \in Surjection(Ids, batch')
    BY <2>3, <2>4 DEF Surjection
  <2>6. row \in Injection(Ids, batch')
    BY <2>2, <2>4 DEF Injection, IsInjective
  <2> QED
    BY <2>5, <2>6 DEF Bijection
<1>6. IsFiniteSet(batch') /\ Cardinality(batch') = n
  BY <1>4, <1>5, FS_Bijection DEF ExistsBijection
<1>7. ASSUME NEW i \in Ids
      PROVE  /\ WithId(q[i], i) \in Rows(Nat) /\ WithId(q[i], i).id = i
             /\ \A c \in Cutoffs : WithId(q[i], i).ts >= c
  <2>1. q[i] \in New /\ i \in Nat
    BY <1>1, <1>3
  <2>2. WithId(q[i], 1) \in Rows({1}) /\ \A c \in Cutoffs : q[i].ts >= c
    BY <2>1, StoreAssumption DEF StoreAssumption
  <2>3. /\ q[i].mac \in Macs \cup {NoMac} /\ q[i].ip \in Ips /\ q[i].ts \in Times
        /\ q[i].domain \in Domains /\ q[i].cat \in Categories
    BY <2>2 DEF WithId, Rows
  <2> QED
    BY <2>1, <2>2, <2>3 DEF WithId, Rows
<1>8. \A i \in Ids : nextID <= i /\ i < nextID + n
  BY <1>1, <1>3
<1>9. \A r, s \in batch' : r.id = s.id => r = s
  <2> HIDE DEF Ids
  <2> QED
    BY <1>2, <1>7 DEF Ids
<1>10. n <= BatchSize /\ nextID + n <= Cardinality(Old) + MaxNew + 1
  <2>1. Cardinality(Old) \in Nat /\ MaxNew \in Nat
    BY StoreAssumption, FS_CardinalityType DEF StoreAssumption
  <2> QED
    BY <1>0, <1>1, <1>3, <2>1, StoreAssumption DEF StoreAssumption
<1>11. \A r \in batch' : /\ r \in Rows(Nat) /\ nextID <= r.id /\ r.id < nextID + n
                         /\ \A c \in Cutoffs : r.ts >= c
  <2> HIDE DEF Ids
  <2> QED
    BY <1>2, <1>7, <1>8 DEF Ids
<1> HIDE DEF Ids, row
<1> QED
  BY <1>6, <1>9, <1>10, <1>11

\* Without the log, its counts, the batch and the numbers a step keeps the first part.
LEMMA LogStays ==
    ASSUME LogInv, UNCHANGED <<queries, nextID>>, batch' \in {batch, {}}, cutoff' \in Cutoffs \cup {0}
    PROVE  LogInv'
<1>1. IsFiniteSet(batch')
  BY FS_EmptySet DEF LogInv
<1>2. nextID' \in Nat /\ IsFiniteSet(queries')
  BY DEF LogInv
<1>3. \A r \in queries' : r \in Rows(Nat)' /\ r.id < nextID'
  BY DEF LogInv, Rows
<1>4. \A r \in batch' : /\ r \in Rows(Nat)'
                        /\ nextID' <= r.id /\ r.id < nextID' + Cardinality(batch')
                        /\ \A c \in Cutoffs : r.ts >= c
  BY DEF LogInv, Rows
<1> QED
  BY <1>1, <1>2, <1>3, <1>4 DEF LogInv

LEMMA CountsStay ==
    ASSUME CountsInv, UNCHANGED <<queries, total, tracker, opened>>
    PROVE  CountsInv'
BY DEF CountsInv, Counts, NothingCounted, Keys, GroupCount, Tracking

LEMMA PurgedStays ==
    ASSUME PurgedInv, UNCHANGED <<queries, outcome, purging, cutoff>>
    PROVE  PurgedInv'
BY DEF PurgedInv, Expired

LEMMA WriteCommitKeeps == ASSUME StoreInv, WriteCommit PROVE StoreInv'
<1> USE DEF StoreInv
<1>1. queries \cap batch = {}
  <2>1. \A r \in queries : r.id \in Nat /\ r.id < nextID
    BY DEF LogInv, Rows
  <2>2. \A r \in batch : r.id \in Nat /\ nextID <= r.id
    BY DEF LogInv, Rows
  <2>3. nextID \in Nat
    BY DEF LogInv
  <2> QED
    BY <2>1, <2>2, <2>3
<1>2. IsFiniteSet(queries) /\ IsFiniteSet(batch)
  BY DEF LogInv
<1>3. LogInv'
  <2>1. IsFiniteSet(queries') /\ IsFiniteSet(batch') /\ Cardinality(batch) \in Nat
    BY <1>2, FS_Union, FS_EmptySet, FS_CardinalityType DEF WriteCommit
  <2>2. nextID' \in Nat /\ cutoff' \in Cutoffs \cup {0}
    BY <2>1 DEF WriteCommit, LogInv
  <2>3. \A r \in queries' : r \in Rows(Nat)' /\ r.id < nextID'
    <3> SUFFICES ASSUME NEW r \in queries' PROVE r \in Rows(Nat) /\ r.id < nextID'
      BY DEF Rows
    <3>1. r \in Rows(Nat) /\ r.id \in Nat
      BY DEF WriteCommit, LogInv, Rows
    <3>2. r.id < nextID + Cardinality(batch)
      BY <3>1, <2>1 DEF WriteCommit, LogInv
    <3> QED
      BY <3>1, <3>2 DEF WriteCommit
  <2>4. batch' = {}
    BY DEF WriteCommit
  <2> QED
    BY <2>1, <2>2, <2>3, <2>4 DEF LogInv
<1>4. PlaceInv'
  BY DEF WriteCommit, PlaceInv
<1>5. CountsInv'
  <2>1. opened /\ opened'
    BY DEF WriteCommit, PlaceInv
  <2>2. Counts(queries)
    BY <2>1 DEF CountsInv
  <2>3. \A k : GroupCount(queries \cup batch, k) = GroupCount(queries, k) + GroupCount(batch, k)
    BY <1>1, <1>2, GroupsAdd
  <2>4. \A k : GroupCount(Tracking(queries \cup batch), k)
                 = GroupCount(Tracking(queries), k) + GroupCount(Tracking(batch), k)
    <3>1. /\ Tracking(queries \cup batch) = Tracking(queries) \cup Tracking(batch)
          /\ Tracking(queries) \subseteq queries /\ Tracking(batch) \subseteq batch
      BY TrackingParts
    <3>2. IsFiniteSet(Tracking(queries)) /\ IsFiniteSet(Tracking(batch))
      BY <3>1, <1>2, FS_Subset
    <3>3. Tracking(queries) \cap Tracking(batch) = {}
      BY <3>1, <1>1
    <3>4. \A k : GroupCount(Tracking(queries) \cup Tracking(batch), k)
                   = GroupCount(Tracking(queries), k) + GroupCount(Tracking(batch), k)
      BY <3>2, <3>3, GroupsAdd
    <3> QED
      BY <3>1, <3>4
  <2>5. /\ total' = [k \in Keys |-> total[k] + GroupCount(batch, k)]
        /\ tracker' = [k \in Keys |-> tracker[k] + GroupCount(Tracking(batch), k)]
    BY SameKeys DEF WriteCommit
  <2>6. /\ \A k \in Keys : total[k] = GroupCount(queries, k)
        /\ \A k \in Keys : tracker[k] = GroupCount(Tracking(queries), k)
    BY <2>2 DEF Counts
  <2>7. total' = [k \in Keys |-> GroupCount(queries \cup batch, k)]
    BY <2>3, <2>5, <2>6
  <2>8. tracker' = [k \in Keys |-> GroupCount(Tracking(queries \cup batch), k)]
    BY <2>4, <2>5, <2>6
  <2>9. queries' = queries \cup batch
    BY DEF WriteCommit
  <2> QED
    BY <2>7, <2>8, <2>9, Zenon DEF CountsInv, Counts, Keys, GroupCount, Bucket, SourceKey, Tracking
<1>6. PurgedInv'
  <2> SUFFICES ASSUME outcome' = "done" PROVE purging' = "off" /\ Expired' = {}
    BY DEF PurgedInv
  <2>1. purging = "off" /\ Expired = {} /\ UNCHANGED <<purging, cutoff>>
    BY DEF WriteCommit, PurgedInv
  <2>2. \A r \in batch : ~ (r.ts < cutoff)
    <3> SUFFICES ASSUME NEW r \in batch PROVE ~ (r.ts < cutoff)
      OBVIOUS
    <3>1. r.ts \in Nat
      BY StoreAssumption DEF LogInv, Rows, StoreAssumption
    <3>2. cutoff = 0 \/ (cutoff \in Cutoffs /\ cutoff \in Nat /\ r.ts >= cutoff)
      BY StoreAssumption DEF LogInv, StoreAssumption
    <3> QED
      BY <3>1, <3>2
  <2> QED
    BY <2>1, <2>2 DEF WriteCommit, Expired
<1> QED
  BY <1>3, <1>4, <1>5, <1>6

\* The selected rows are all that is left to delete, or a full chunk.
LEMMA EmptyChunk ==
    ASSUME LogInv, {} \in Chunks PROVE Expired = {}
<1>1. IsFiniteSet(Expired)
  BY FS_Subset DEF LogInv, Expired
<1>2. Cardinality(Expired) \in Nat /\ Cardinality({}) = 0 /\ ChunkSize \in Nat \ {0}
  BY <1>1, FS_CardinalityType, FS_EmptySet, StoreAssumption DEF StoreAssumption
<1>3. Cardinality({}) = IF Cardinality(Expired) < ChunkSize THEN Cardinality(Expired) ELSE ChunkSize
  BY DEF Chunks
<1>4. Cardinality(Expired) = 0
  BY <1>2, <1>3
<1> QED
  BY <1>1, <1>4, FS_EmptySet

LEMMA PurgeCommitKeeps == ASSUME StoreInv, PurgeCommit PROVE StoreInv'
<1> USE DEF StoreInv
<1>1. /\ queries' = queries \ chunk /\ chunk \subseteq queries /\ batch = {} /\ batch' = {}
      /\ opened /\ opened' = opened
  BY DEF PurgeCommit, PlaceInv
<1>2. LogInv'
  <2>1. IsFiniteSet(queries') /\ IsFiniteSet(batch')
    BY <1>1, FS_Subset DEF LogInv
  <2>2. \A r \in queries' : r \in Rows(Nat)' /\ r.id < nextID'
    BY <1>1 DEF LogInv, Rows, PurgeCommit
  <2> QED
    BY <1>1, <2>1, <2>2 DEF LogInv, PurgeCommit
<1>3. PlaceInv'
  BY <1>1 DEF PurgeCommit, PlaceInv
<1>4. CountsInv'
  <2> DEFINE left == queries \ chunk
             again(k) == k[1] \in Touched(left)
  <2>1. /\ total' = [k \in Keys |-> IF again(k) THEN GroupCount(left, k) ELSE total[k]]
        /\ tracker' = [k \in Keys |-> IF again(k) THEN GroupCount(Tracking(left), k) ELSE tracker[k]]
    BY DEF PurgeCommit
  <2>2. /\ \A k \in Keys : total[k] = GroupCount(queries, k)
        /\ \A k \in Keys : tracker[k] = GroupCount(Tracking(queries), k)
    BY <1>1 DEF CountsInv, Counts
  <2>3. ASSUME NEW k \in Keys, ~ again(k)
        PROVE  /\ GroupCount(left, k) = total[k] /\ GroupCount(Tracking(left), k) = tracker[k]
    <3>1. k[1] \notin {Bucket(r) : r \in chunk}
      BY <2>3 DEF Touched
    <3>2. k[1] \notin {Bucket(r) : r \in Tracking(chunk)}
      BY <3>1 DEF Tracking
    <3>3. GroupCount(left, k) = GroupCount(queries, k)
      BY <3>1, OtherHoursStay
    <3>4. GroupCount(Tracking(queries) \ Tracking(chunk), k) = GroupCount(Tracking(queries), k)
      BY <3>2, OtherHoursStay
    <3>5. Tracking(left) = Tracking(queries) \ Tracking(chunk)
      BY TrackingParts
    <3> QED
      BY <2>2, <3>3, <3>4, <3>5
  <2>4. total' = [k \in Keys |-> GroupCount(left, k)]
    BY <2>1, <2>3
  <2>5. tracker' = [k \in Keys |-> GroupCount(Tracking(left), k)]
    BY <2>1, <2>3
  <2>6. queries' = left
    BY <1>1
  <2> QED
    BY <2>4, <2>5, <2>6, Zenon DEF CountsInv, Counts, Keys, GroupCount, Bucket, SourceKey, Tracking
<1>5. PurgedInv'
  BY DEF PurgeCommit, PurgedInv
<1> QED
  BY <1>2, <1>3, <1>4, <1>5

\* Open counts what it finds, and otherwise believes what is there.
LEMMA OpenKeeps == ASSUME StoreInv, Open PROVE StoreInv'
<1> USE DEF StoreInv
<1>1. LogInv'
  BY LogStays DEF Open, purgeVars, LogInv
<1>2. PlaceInv'
  BY DEF Open, PlaceInv, purgeVars
<1>3. PurgedInv'
  BY PurgedStays DEF Open, purgeVars
<1>4. CountsInv'
  <2>1. CASE \A k \in Keys : total[k] = 0
    <3>1. /\ total' = [k \in Keys |-> GroupCount(queries, k)]
          /\ tracker' = [k \in Keys |-> GroupCount(Tracking(queries), k)]
          /\ queries' = queries
      BY <2>1 DEF Open
    <3> QED
      BY <3>1, Zenon DEF CountsInv, Counts, Keys, GroupCount, Bucket, SourceKey, Tracking
  <2>2. CASE ~ \A k \in Keys : total[k] = 0
    <3>1. ~ NothingCounted
      BY <2>2 DEF NothingCounted
    <3>2. Counts(queries) /\ UNCHANGED <<queries, total, tracker>>
      BY <3>1, <2>2 DEF CountsInv, Open
    <3> QED
      BY <3>2, Zenon DEF CountsInv, Counts, Keys, GroupCount, Bucket, SourceKey, Tracking
  <2> QED
    BY <2>1, <2>2
<1> QED
  BY <1>1, <1>2, <1>3, <1>4

\* Every step of the store, and the tracker's, which changes other tables, keeps StoreInv.
LEMMA StoreKeeps ==
    ASSUME StoreInv, [Next]_vars \/ SaveDevice
    PROVE  StoreInv'
<1> USE DEF StoreInv
<1>0. cutoff \in Cutoffs \cup {0}
  BY DEF LogInv
<1>1. CASE UNCHANGED vars
  BY <1>1, <1>0, LogStays, CountsStay, PurgedStays DEF vars, PlaceInv
<1>2. CASE Open
  BY <1>2, OpenKeeps
<1>3. CASE WriteBegin
  <2>1. LogInv'
    <3>1. /\ IsFiniteSet(batch')
          /\ \A r \in batch' : /\ r \in Rows(Nat)
                               /\ nextID <= r.id /\ r.id < nextID + Cardinality(batch')
                               /\ \A c \in Cutoffs : r.ts >= c
      BY <1>3, NewBatch
    <3>2. UNCHANGED <<queries, nextID, cutoff>>
      BY <1>3 DEF WriteBegin, purgeVars
    <3> QED
      BY <3>1, <3>2 DEF LogInv, Rows
  <2>2. PlaceInv'
    BY <1>3 DEF WriteBegin, PlaceInv, purgeVars
  <2> QED
    BY <1>3, <2>1, <2>2, CountsStay, PurgedStays DEF WriteBegin, purgeVars
<1>4. CASE WriteCommit
  BY <1>4, WriteCommitKeeps
<1>5. CASE WriteFails
  BY <1>5, <1>0, LogStays, CountsStay, PurgedStays DEF WriteFails, purgeVars, PlaceInv
<1>6. CASE OtherCommit \/ SaveDevice
  BY <1>6, <1>0, LogStays, CountsStay, PurgedStays DEF OtherCommit, SaveDevice, PlaceInv
<1>7. CASE PurgeBegin
  <2>1. PurgedInv'
    BY <1>7 DEF PurgeBegin, PurgedInv
  <2> QED
    BY <1>7, <2>1, LogStays, CountsStay DEF PurgeBegin, PlaceInv
<1>8. CASE PurgeSelect
  <2>1. PurgedInv'
    <3>1. CASE chunk' = {}
      BY <1>8, <3>1, EmptyChunk DEF PurgeSelect, PurgedInv, Expired
    <3>2. CASE chunk' # {}
      BY <1>8, <3>2 DEF PurgeSelect, PurgedInv, Expired
    <3> QED
      BY <3>1, <3>2
  <2>2. chunk' \subseteq queries
    BY <1>8 DEF PurgeSelect, Chunks, Expired
  <2>3. PlaceInv'
    BY <1>8, <2>2 DEF PurgeSelect, PlaceInv
  <2> QED
    BY <1>8, <1>0, <2>1, <2>3, LogStays, CountsStay DEF PurgeSelect
<1>9. CASE PurgeDelete
  <2>1. PurgedInv'
    BY <1>9 DEF PurgeDelete, PurgedInv
  <2>2. PlaceInv'
    BY <1>9 DEF PurgeDelete, PlaceInv
  <2> QED
    BY <1>9, <1>0, <2>1, <2>2, LogStays, CountsStay DEF PurgeDelete
<1>10. CASE PurgeCommit
  BY <1>10, PurgeCommitKeeps
<1>11. CASE PurgeFails
  <2>1. PurgedInv'
    BY <1>11 DEF PurgeFails, PurgedInv
  <2>2. PlaceInv'
    BY <1>11 DEF PurgeFails, PlaceInv
  <2> QED
    BY <1>11, <1>0, <2>1, <2>2, LogStays, CountsStay DEF PurgeFails
<1>12. CASE Crash
  <2>1. PurgedInv'
    BY <1>12 DEF Crash, PurgedInv
  <2>2. PlaceInv'
    BY <1>12 DEF Crash, PlaceInv
  <2>3. CountsInv'
    BY <1>12 DEF Crash, CountsInv, PlaceInv, Counts, Keys, GroupCount, Tracking
  <2> QED
    BY <1>12, <1>0, <2>1, <2>2, <2>3, LogStays DEF Crash
<1> QED
  BY <1>1, <1>2, <1>3, <1>4, <1>5, <1>6, <1>7, <1>8, <1>9, <1>10, <1>11, <1>12 DEF Next, Purge

\* The specification's steps are the store's, the tracker's, or change neither.
LEMMA StoreSteps == ASSUME [ActivityNext]_allVars PROVE [Next]_vars \/ SaveDevice
BY DEF ActivityNext, allVars, Begin, Answer, ReadSpikes, NameSpike, ReadDevices, ReadSources,
       ReadTotal, ReadSummary, ReadCounts, ReadPage, ReadReach, ReadDomains, Get, StoreStep, Tick

LEMMA StoreInvariant == ActivitySpec => []StoreInv
<1>1. ActivityInit => StoreInv
  BY StoreInit DEF ActivityInit
<1>2. StoreInv /\ [ActivityNext]_allVars => StoreInv'
  BY StoreSteps, StoreKeeps
<1> QED
  BY <1>1, <1>2, PTL DEF ActivitySpec

\* Whatever the writer, the purge, failures and crashes do, and in any order, each
\* count that the charts are read from is the number of rows of its hour and actor.
THEOREM CountsAgreeWithLog == ActivitySpec => []RollupsAgree
<1>1. StoreInv => RollupsAgree
  BY DEF StoreInv, CountsInv, PlaceInv, Counts, RollupsAgree
<1> QED
  BY <1>1, StoreInvariant, PTL

\* A purge that ends without an error has deleted everything that had expired: what
\* was logged meanwhile is never older than its cutoff.
THEOREM PurgeDeletesAll == ActivitySpec => []DoneMeansAll
<1>1. StoreInv => DoneMeansAll
  BY DEF StoreInv, PurgedInv, DoneMeansAll
<1> QED
  BY <1>1, StoreInvariant, PTL

-----------------------------------------------------------------------------
\* SQL and Go

\* The backlog's WHERE clause and the relay's function decide alike on every query,
\* whatever the filter.
THEOREM FiltersAgree == ActivitySpec => []FilterAgree
<1>1. ASSUME NEW r, NEW f \in Filters PROVE FeedConditions(r, f) = QueryMatches(r, f)
  BY DEF FeedConditions, QueryMatches, Filters
<1>2. FilterAgree
  BY <1>1 DEF FilterAgree
<1> QED
  BY <1>2, PTL

-----------------------------------------------------------------------------
\* A request and what happens meanwhile

Fields == {"at", "actor", "asked", "now", "calm", "gone", "known", "roster", "sources", "total",
           "identities", "reach", "spikes", "named", "matched", "shown", "rows"}
PageSteps == {"devices", "sources", "total", "summary", "counts", "page", "reach"}
ListSteps == {"api", "api2", "anomalies", "spikes"}

\* What is said of a request at any of its steps.
RequestInv ==
    /\ DOMAIN req = Fields /\ req = [f \in Fields |-> req[f]]
    /\ req.at \in PageSteps \cup ListSteps \cup {"done"}
    /\ req.at \in PageSteps => req.asked > 0
    /\ req.at \in ListSteps => req.asked = 0
    /\ req.at = "page" => req.actor # Network
    /\ req.at = "reach" => req.actor = Network
    /\ req.actor \in Actors \cup {Network} /\ req.asked \in Nat
    /\ req.calm \in BOOLEAN /\ req.gone \in BOOLEAN
    /\ req.now \in Nat /\ req.now <= clock
    /\ req.calm => req.now = clock

ActivityInv ==
    /\ clock \in Nat
    /\ devices \subseteq Macs /\ IsFiniteSet(devices)
    /\ \A r \in batch : r.ts + Day >= clock
    /\ req = Idle \/ RequestInv

\* The reads, each of which leaves everything but the request alone.
LEMMA AnswerReads ==
    ASSUME Begin \/ Answer PROVE UNCHANGED <<vars, clock, devices>>
BY DEF Begin, Answer, ReadSpikes, NameSpike, ReadDevices, ReadSources,
       ReadTotal, ReadSummary, ReadCounts, ReadPage, ReadReach, ReadDomains, Get

\* A new request.
LEMMA BeginStarts ==
    ASSUME ActivityInv, Begin
    PROVE  /\ RequestInv' /\ req'.at \in {"devices", "api", "anomalies"}
           /\ req'.named = {} /\ req'.calm = TRUE /\ req'.gone = FALSE
<1>1. \E a \in Actors \cup {Network}, p \in Nat, at \in {"devices", "api", "anomalies"} :
        /\ req' = NewRequest(a, p, at)
        /\ IF at = "devices" THEN p > 0 ELSE p = 0
  <2>1. CASE \E q \in Asked : req' = NewRequest(q[1], q[2], "devices")
    BY <2>1, AskedAssumption DEF AskedAssumption
  <2>2. CASE \E at \in {"api", "anomalies"} : req' = NewRequest(Network, 0, at)
    BY <2>2
  <2> QED
    BY <2>1, <2>2 DEF Begin
<1>2. clock' = clock /\ clock \in Nat
  BY DEF Begin, Get, ActivityInv
<1>3. PICK a \in Actors \cup {Network}, p \in Nat, at \in {"devices", "api", "anomalies"} :
        /\ req' = NewRequest(a, p, at)
        /\ IF at = "devices" THEN p > 0 ELSE p = 0
  BY <1>1
<1>4. DOMAIN req' = Fields /\ req' = [f \in Fields |-> req'[f]]
  BY <1>3 DEF NewRequest, Fields
<1>5. /\ req'.at = at /\ req'.actor = a /\ req'.asked = p /\ req'.now = clock
      /\ req'.calm = TRUE /\ req'.gone = FALSE /\ req'.named = {}
  BY <1>3 DEF NewRequest
<1>6. req'.actor \in (Actors \cup {Network})'
  BY <1>5 DEF Actors, Device, Source, Network
<1>7. /\ req'.at \in PageSteps \cup ListSteps /\ req'.at \notin {"page", "reach"}
      /\ req'.at \in PageSteps => req'.asked > 0
      /\ req'.at \in ListSteps => req'.asked = 0
  BY <1>3, <1>5 DEF PageSteps, ListSteps
<1>8. req'.now \in Nat /\ req'.now <= clock' /\ req'.now = clock'
  BY <1>2, <1>5
<1>9. RequestInv'
  BY <1>4, <1>5, <1>6, <1>7, <1>8 DEF RequestInv
<1> QED
  BY <1>5, <1>9, <1>3

\* Of a request that goes on only calm and gone may change while others work; and
\* while nothing is gone, the rows that it could see stay.
Meanwhile ==
    /\ req'.calm = (req.calm /\ queries' = queries /\ devices' = devices /\ clock' = clock)
    /\ req'.gone = (req.gone \/ \E r \in Since(req.now) : r \notin queries' \/ r.ts + Day < clock')
    /\ \A f \in Fields \ {"calm", "gone"} : req'[f] = req[f]
    /\ DOMAIN req' = Fields /\ req' = [f \in Fields |-> req'[f]]
    /\ req.at # "done"

LEMMA OthersWork ==
    ASSUME ActivityInv, Watch
    PROVE  req' = Idle \/ (RequestInv /\ Meanwhile)
<1>1. CASE req.at \in {"idle", "done"} \/ ~ opened'
  BY <1>1 DEF Watch
<1>2. CASE ~ (req.at \in {"idle", "done"} \/ ~ opened')
  <2>1. RequestInv
    BY <1>2 DEF ActivityInv, Idle
  <2>2. req' = [req EXCEPT
               !.calm = @ /\ queries' = queries /\ devices' = devices /\ clock' = clock,
               !.gone = @ \/ \E r \in Since(req.now) : r \notin queries' \/ r.ts + Day < clock']
    BY <1>2 DEF Watch
  <2>3. DOMAIN req' = Fields /\ req' = [f \in Fields |-> req'[f]]
    BY <2>1, <2>2 DEF RequestInv
  <2>4. \A f \in Fields \ {"calm", "gone"} : req'[f] = req[f]
    BY <2>1, <2>2 DEF RequestInv
  <2>5. req'.calm = (req.calm /\ queries' = queries /\ devices' = devices /\ clock' = clock)
    BY <2>1, <2>2 DEF RequestInv, Fields
  <2>6. req'.gone = (req.gone \/ \E r \in Since(req.now) : r \notin queries' \/ r.ts + Day < clock')
    BY <2>1, <2>2 DEF RequestInv, Fields
  <2> QED
    BY <2>1, <2>3, <2>4, <2>5, <2>6, <1>2 DEF Meanwhile
<1> QED
  BY <1>1, <1>2

\* A read goes from step to step of its own kind of request, and keeps what the
\* request was about.
LEMMA AnswerGoesOn ==
    ASSUME ActivityInv, Answer
    PROVE  /\ RequestInv
           /\ \/ req' = Idle
              \/ /\ RequestInv'
                 /\ req.at # "done"
                 /\ \A f \in {"actor", "asked", "calm", "gone"} : req'[f] = req[f]
                 /\ req.at # "anomalies" => req'.now = req.now
<1>1. RequestInv
  <2>1. req.at # "idle"
    BY DEF Answer, ReadSpikes, NameSpike, ReadDevices, ReadSources,
           ReadTotal, ReadSummary, ReadCounts, ReadPage, ReadReach, ReadDomains
  <2> QED
    BY <2>1 DEF ActivityInv, Idle
<1>2. clock' = clock /\ clock \in Nat /\ (Actors \cup {Network})' = Actors \cup {Network}
  BY AnswerReads DEF ActivityInv, Actors, Device, Source, Network
\* What a read has to show: the next step is one of the same kind, and the request is
\* changed in some fields only.
<1> DEFINE Good == /\ DOMAIN req' = Fields /\ req' = [f \in Fields |-> req'[f]]
                   /\ \A f \in {"actor", "asked", "calm", "gone"} : req'[f] = req[f]
                   /\ \/ req'.at = "done"
                      \/ req.at \in PageSteps /\ req'.at \in PageSteps
                      \/ req.at \in ListSteps /\ req'.at \in ListSteps
                   /\ req'.at = "page" => req.actor # Network
                   /\ req'.at = "reach" => req.actor = Network
                   /\ \/ req'.now = req.now
                      \/ req.at = "anomalies" /\ req'.now = clock
<1>3. ASSUME Good PROVE RequestInv'
  <2>1. /\ req'.now \in Nat /\ req'.now <= clock' /\ (req'.calm => req'.now = clock')
    BY <1>1, <1>2, <1>3 DEF RequestInv
  <2>2. /\ req'.at \in PageSteps \cup ListSteps \cup {"done"}
        /\ req'.at \in PageSteps => req'.asked > 0
        /\ req'.at \in ListSteps => req'.asked = 0
    BY <1>1, <1>3 DEF RequestInv, PageSteps, ListSteps
  <2>3. /\ req'.actor \in (Actors \cup {Network})' /\ req'.asked \in Nat
        /\ req'.calm \in BOOLEAN /\ req'.gone \in BOOLEAN
    BY <1>1, <1>2, <1>3 DEF RequestInv
  <2>4. /\ req'.at = "page" => req'.actor # Network
        /\ req'.at = "reach" => req'.actor = Network
    BY <1>3
  <2> QED
    BY <1>3, <2>1, <2>2, <2>3, <2>4 DEF RequestInv, Network
<1>4. CASE ReadDevices
  <2>1. Good
    BY <1>1, <1>4 DEF ReadDevices, RequestInv, Fields, PageSteps, ListSteps
  <2> QED
    BY <1>1, <1>3, <1>4, <2>1 DEF ReadDevices
<1>5. CASE ReadSources
  <2>1. req' = Idle \/ Good
    BY <1>1, <1>5 DEF ReadSources, RequestInv, Fields, PageSteps, ListSteps
  <2> QED
    BY <1>1, <1>3, <1>5, <2>1 DEF ReadSources
<1>6. CASE ReadTotal
  <2>1. Good
    BY <1>1, <1>6 DEF ReadTotal, RequestInv, Fields, PageSteps, ListSteps
  <2> QED
    BY <1>1, <1>3, <1>6, <2>1 DEF ReadTotal
<1>7. CASE ReadSummary
  <2>1. Good
    BY <1>1, <1>7 DEF ReadSummary, RequestInv, Fields, PageSteps, ListSteps
  <2> QED
    BY <1>1, <1>3, <1>7, <2>1 DEF ReadSummary
<1>8. CASE ReadCounts
  <2>1. Good
    BY <1>1, <1>8 DEF ReadCounts, RequestInv, Fields, PageSteps, ListSteps
  <2> QED
    BY <1>1, <1>3, <1>8, <2>1 DEF ReadCounts
<1>9. CASE ReadPage
  <2>1. Good
    BY <1>1, <1>9 DEF ReadPage, RequestInv, Fields, PageSteps, ListSteps
  <2> QED
    BY <1>1, <1>3, <1>9, <2>1 DEF ReadPage
<1>10. CASE ReadReach
  <2>1. Good
    BY <1>1, <1>10 DEF ReadReach, RequestInv, Fields, PageSteps, ListSteps
  <2> QED
    BY <1>1, <1>3, <1>10, <2>1 DEF ReadReach
<1>11. CASE ReadDomains
  <2>1. Good
    BY <1>1, <1>11 DEF ReadDomains, RequestInv, Fields, PageSteps, ListSteps
  <2> QED
    BY <1>1, <1>3, <1>11, <2>1 DEF ReadDomains
<1>12. CASE ReadSpikes
  <2>1. Good
    BY <1>1, <1>12 DEF ReadSpikes, RequestInv, Fields, PageSteps, ListSteps
  <2> QED
    BY <1>1, <1>3, <1>12, <2>1 DEF ReadSpikes
<1>13. CASE NameSpike
  <2>1. req.at = "spikes" /\ \E at, left, named :
          /\ req' = [req EXCEPT !.at = at, !.spikes = left, !.named = named]
          /\ at \in {"done", "spikes"}
    <3>1. PICK s \in req.spikes : \E g :
            req' = [req EXCEPT !.at = IF req.spikes = {s} THEN "done" ELSE @,
                               !.spikes = @ \ {s}, !.named = @ \cup {<<s, g>>}]
      BY <1>13 DEF NameSpike
    <3>2. req.at = "spikes"
      BY <1>13 DEF NameSpike
    <3>3. (IF req.spikes = {s} THEN "done" ELSE req.at) \in {"done", "spikes"}
      BY <3>2
    <3> QED
      BY <3>1, <3>2, <3>3
  <2>2. Good
    BY <1>1, <2>1 DEF RequestInv, Fields, PageSteps, ListSteps
  <2> QED
    BY <1>1, <1>3, <1>13, <2>2 DEF NameSpike
<1> QED
  BY <1>4, <1>5, <1>6, <1>7, <1>8, <1>9, <1>10, <1>11, <1>12, <1>13 DEF Answer

LEMMA MeanwhileKeeps ==
    ASSUME RequestInv, Meanwhile, clock \in Nat, clock' \in {clock, clock + 1}
    PROVE  RequestInv'
<1>1. \A f \in {"at", "asked", "actor", "now"} : req'[f] = req[f]
  BY DEF Meanwhile, Fields
<1>2. req'.now \in Nat /\ req'.now <= clock' /\ (req'.calm => req'.now = clock')
  <2>1. req'.now = req.now /\ req.now \in Nat /\ req.now <= clock
    BY <1>1 DEF RequestInv
  <2>2. req'.calm => clock' = clock /\ req.now = clock
    BY DEF Meanwhile, RequestInv
  <2> QED
    BY <2>1, <2>2
<1>3. req'.calm \in BOOLEAN /\ req'.gone \in BOOLEAN
  BY DEF RequestInv, Meanwhile
<1>4. req'.actor \in (Actors \cup {Network})' /\ Network' = Network
  BY <1>1 DEF RequestInv, Actors, Device, Source, Network
<1> QED
  BY <1>1, <1>2, <1>3, <1>4 DEF RequestInv, Meanwhile

\* What others do while a request is read.
LEMMA OthersKeep ==
    ASSUME StoreInv, ActivityInv, StoreStep \/ SaveDevice \/ Tick
    PROVE  /\ clock' \in {clock, clock + 1} /\ clock' \in Nat
           /\ devices' \subseteq Macs /\ IsFiniteSet(devices') /\ devices \subseteq devices'
           /\ \A r \in batch' : r.ts + Day >= clock'
<1>1. CASE StoreStep
  BY <1>1 DEF StoreStep, ActivityInv
<1>2. CASE SaveDevice
  BY <1>2, FS_AddElement DEF SaveDevice, ActivityInv
<1>3. CASE Tick
  <2>1. \A r \in batch : r.ts \in Nat /\ r.ts + Day > clock
    BY <1>3, StoreAssumption DEF Tick, StoreInv, LogInv, Rows, StoreAssumption
  <2>2. batch' = batch /\ clock' = clock + 1 /\ devices' = devices /\ Day \in Nat
    BY <1>3, ActivityAssumption DEF Tick, vars, ActivityAssumption
  <2> QED
    BY <2>1, <2>2 DEF ActivityInv
<1> QED
  BY <1>1, <1>2, <1>3

LEMMA ActivityInvariant == ActivitySpec => []ActivityInv
<1>1. ActivityInit => ActivityInv
  BY ActivityAssumption, StoreAssumption, FS_EmptySet
     DEF ActivityInit, ActivityInv, Init, ActivityAssumption, StoreAssumption
<1>2. StoreInv /\ ActivityInv /\ [ActivityNext]_allVars => ActivityInv'
  <2> SUFFICES ASSUME StoreInv, ActivityInv, [ActivityNext]_allVars PROVE ActivityInv'
    OBVIOUS
  <2>1. CASE UNCHANGED allVars
    <3>1. RequestInv => RequestInv'
      BY <2>1 DEF allVars, RequestInv, Actors, Device, Source, Network
    <3> QED
      BY <2>1, <3>1 DEF allVars, vars, ActivityInv, Idle
  <2>2. CASE Begin \/ Answer
    <3>1. UNCHANGED <<vars, clock, devices>>
      BY <2>2, AnswerReads
    <3>2. req' = Idle \/ RequestInv'
      BY <2>2, BeginStarts, AnswerGoesOn
    <3> QED
      BY <3>1, <3>2 DEF vars, ActivityInv, Idle
  <2>3. CASE (StoreStep \/ SaveDevice \/ Tick) /\ Watch
    <3>1. req' = Idle \/ RequestInv'
      BY <2>3, OthersWork, OthersKeep, MeanwhileKeeps DEF ActivityInv
    <3> QED
      BY <2>3, <3>1, OthersKeep DEF ActivityInv, Idle
  <2> QED
    BY <2>1, <2>2, <2>3 DEF ActivityNext
<1> QED
  BY <1>1, <1>2, StoreInvariant, PTL DEF ActivitySpec

-----------------------------------------------------------------------------
\* The numbers of a page

LEMMA RowsAreFinite ==
    ASSUME StoreInv, NEW S \in SUBSET queries
    PROVE  IsFiniteSet(S) /\ Cardinality(S) \in Nat
BY FS_Subset, FS_CardinalityType DEF StoreInv, LogInv

\* While nothing is gone the rows that a request may count only get more; while it is
\* calm they are the same.
LEMMA RowsStay ==
    ASSUME RequestInv, Meanwhile
    PROVE  /\ ~ req'.gone => ~ req.gone /\ Since(req.now) \subseteq Since(req.now)'
                             /\ \A r \in Since(req.now) : r \in queries' /\ ~ (r.ts + Day < clock')
           /\ req'.calm => req.calm /\ UNCHANGED <<queries, devices, clock>>
           /\ \A f \in Fields \ {"calm", "gone"} : req'[f] = req[f]
<1>1. req'.now = req.now
  BY DEF Meanwhile, Fields
<1>2. ~ req'.gone => ~ req.gone /\ \A r \in Since(req.now) : r \in queries' /\ ~ (r.ts + Day < clock')
  BY DEF Meanwhile, RequestInv
<1>3. \A r \in Since(req.now) : r \in queries' => r \in Since(req.now)'
  BY <1>1 DEF Since
<1>4. req'.calm => req.calm /\ queries' = queries /\ devices' = devices /\ clock' = clock
  BY DEF Meanwhile, RequestInv
<1> QED
  BY <1>2, <1>3, <1>4 DEF Meanwhile

SeenBy(K) == {r \in Within(req.now) : r.mac \in K}

\* The roster counts the queries of K: never more than there are, unless some are
\* gone, and all of them while it is calm.
RosterIs(K) ==
    /\ req.roster \in Nat
    /\ ~ req.gone => req.roster <= Cardinality(SeenBy(K))
    /\ req.calm => req.roster = Cardinality(SeenBy(K))

KnownIs ==
    /\ req.known \subseteq Macs
    /\ req.calm => req.known = devices

SourcesAre == req.calm => req.sources = {r.ip : r \in {q \in Within(req.now) : q.mac = NoMac}}

TotalIs ==
    /\ req.roster \in Nat /\ req.total \in Nat
    /\ ~ req.gone => req.roster <= req.total
    /\ req.calm => /\ req.roster = Cardinality(SeenBy(req.known \cup {NoMac}))
                   /\ req.total = Cardinality(Since(req.now))

MatchedIs == req.calm => req.matched = Cardinality(Within(req.now))

\* What is known of a page after each of its reads.
PageInv ==
    LET done == req.at = "done" /\ req.asked > 0
    IN /\ req.at = "sources" => KnownIs /\ RosterIs(req.known)
       /\ req.at = "total" => KnownIs /\ SourcesAre /\ RosterIs(req.known \cup {NoMac})
       /\ req.at \in {"summary", "counts", "page", "reach"} \/ done => KnownIs /\ SourcesAre /\ TotalIs
       /\ req.at = "reach" \/ (done /\ req.actor = Network) => MatchedIs

LEMMA SeenByMore ==
    ASSUME NEW K, RequestInv, Meanwhile
    PROVE  /\ ~ req'.gone => SeenBy(K) \subseteq SeenBy(K)'
           /\ req'.calm => SeenBy(K)' = SeenBy(K)
<1>1. req'.now = req.now
  BY DEF Meanwhile, Fields
<1>2. SeenBy(K) = {r \in Since(req.now) : r.ts < req.now /\ r.mac \in K}
  BY DEF SeenBy, Within
<1>3. SeenBy(K)' = {r \in Since(req.now)' : r.ts < req.now /\ r.mac \in K}
  BY <1>1 DEF SeenBy, Within
<1>4. req'.calm => Since(req.now)' = Since(req.now)
  BY <1>1, RowsStay DEF Since
<1> QED
  BY <1>2, <1>3, <1>4, RowsStay

LEMMA RosterStays ==
    ASSUME NEW K, StoreInv, StoreInv', RequestInv, Meanwhile, RosterIs(K)
    PROVE  RosterIs(K)'
<1>1. req'.roster = req.roster
  BY DEF Meanwhile, Fields
<1>2. SeenBy(K) \subseteq queries /\ SeenBy(K)' \subseteq queries'
  BY DEF SeenBy, Within, Since
<1>3. IsFiniteSet(SeenBy(K)') /\ Cardinality(SeenBy(K)) \in Nat /\ Cardinality(SeenBy(K)') \in Nat
  <2>1. IsFiniteSet(queries')
    BY DEF StoreInv, LogInv
  <2> QED
    BY <1>2, <2>1, RowsAreFinite, FS_Subset, FS_CardinalityType
<1>4. ~ req'.gone => Cardinality(SeenBy(K)) <= Cardinality(SeenBy(K)')
  BY <1>3, SeenByMore, FS_Subset
<1>5. ~ req'.gone => req'.roster <= Cardinality(SeenBy(K)')
  BY <1>1, <1>3, <1>4, RowsStay DEF RosterIs
<1>6. req'.calm => req'.roster = Cardinality(SeenBy(K)')
  BY <1>1, RowsStay, SeenByMore DEF RosterIs
<1> QED
  BY <1>1, <1>5, <1>6 DEF RosterIs

LEMMA PageMeanwhile ==
    ASSUME StoreInv, StoreInv', RequestInv, Meanwhile, PageInv
    PROVE  PageInv'
<1>1. /\ req'.at = req.at /\ req'.asked = req.asked /\ req'.actor = req.actor /\ req'.known = req.known
      /\ req'.total = req.total /\ req'.roster = req.roster /\ req'.sources = req.sources
      /\ req'.matched = req.matched /\ req'.now = req.now
  BY DEF Meanwhile, Fields
<1>2. KnownIs => KnownIs'
  BY <1>1, RowsStay DEF KnownIs
<1>3. req'.calm => req.calm /\ Since(req.now)' = Since(req.now) /\ Within(req.now)' = Within(req.now)
  BY <1>1, RowsStay DEF Since, Within
<1>4. SourcesAre => SourcesAre'
  BY <1>1, <1>3 DEF SourcesAre
<1>5. MatchedIs => MatchedIs'
  BY <1>1, <1>3 DEF MatchedIs
<1>6. \A K : RosterIs(K) => RosterIs(K)'
  BY RosterStays
<1>7. TotalIs => TotalIs'
  <2>1. ~ req'.gone => ~ req.gone
    BY RowsStay
  <2>2. req'.calm => SeenBy(req.known \cup {NoMac})' = SeenBy(req.known \cup {NoMac})
    BY <1>1, SeenByMore DEF SeenBy
  <2> QED
    BY <1>1, <1>3, <2>1, <2>2 DEF TotalIs
<1>8. RosterIs(req.known) => RosterIs(req.known)'
  BY <1>1, <1>6 DEF RosterIs, SeenBy
<1>9. RosterIs(req.known \cup {NoMac}) => RosterIs(req.known \cup {NoMac})'
  BY <1>1, <1>6 DEF RosterIs, SeenBy
<1>10. req'.actor = Network' <=> req.actor = Network
  BY <1>1 DEF Network
<1> QED
  BY <1>1, <1>2, <1>4, <1>5, <1>7, <1>8, <1>9, <1>10 DEF PageInv

\* A read sees the rows as they are.
LEMMA ReadSame ==
    ASSUME UNCHANGED <<vars, clock, devices>>, req'.now = req.now
    PROVE  /\ Since(req.now)' = Since(req.now) /\ Within(req.now)' = Within(req.now)
           /\ \A K : SeenBy(K)' = SeenBy(K)
           /\ Network' = Network /\ devices' = devices
BY DEF vars, Since, Within, SeenBy, Network

\* The roster gets its first part from the devices ...
LEMMA DevicesCounted ==
    ASSUME StoreInv, ActivityInv, RequestInv, ReadDevices
    PROVE  KnownIs' /\ RosterIs(req.known)' /\ req'.at = "sources"
<1>1. /\ req'.at = "sources" /\ req'.known = devices /\ req'.now = req.now
      /\ req'.roster = Cardinality({r \in Within(req.now) : r.mac \in devices})
  BY DEF ReadDevices, RequestInv, Fields
<1>2. UNCHANGED <<vars, clock, devices>>
  BY DEF ReadDevices, Get
<1>3. req'.roster = Cardinality(SeenBy(devices)) /\ Cardinality(SeenBy(devices)) \in Nat
  BY <1>1, RowsAreFinite DEF SeenBy, Within, Since
<1>4. SeenBy(req.known)' = SeenBy(devices)
  BY <1>1, <1>2, ReadSame DEF SeenBy
<1>5. RosterIs(req.known)'
  BY <1>3, <1>4 DEF RosterIs
<1>6. KnownIs'
  BY <1>1, <1>2 DEF KnownIs, ActivityInv
<1> QED
  BY <1>1, <1>5, <1>6

\* ... and its second from the sources, none of whose queries counted before.
LEMMA SourcesCounted ==
    ASSUME StoreInv, ActivityInv, RequestInv, PageInv, ReadSources
    PROVE  \/ req' = Idle
           \/ KnownIs' /\ SourcesAre' /\ RosterIs(req.known \cup {NoMac})' /\ req'.at = "total"
<1> SUFFICES ASSUME req' # Idle
             PROVE  KnownIs' /\ SourcesAre' /\ RosterIs(req.known \cup {NoMac})' /\ req'.at = "total"
  OBVIOUS
<1> DEFINE all == {r \in Within(req.now) : r.mac = NoMac}
           K == req.known
<1>0. KnownIs /\ RosterIs(K) /\ req.at = "sources"
  BY DEF PageInv, ReadSources
<1>1. /\ req'.at = "total" /\ req'.known = K /\ req'.now = req.now /\ req'.calm = req.calm
      /\ req'.gone = req.gone /\ req'.sources = {r.ip : r \in all}
      /\ req'.roster = req.roster + Cardinality(all)
  BY DEF ReadSources, RequestInv, Fields, Unattributed
<1>2. UNCHANGED <<vars, clock, devices>>
  BY DEF ReadSources, Get
<1>3. /\ all \subseteq queries /\ SeenBy(K) \subseteq queries
      /\ SeenBy(K \cup {NoMac}) = SeenBy(K) \cup all
  BY DEF SeenBy, Within, Since
<1>4. SeenBy(K) \cap all = {}
  BY <1>0, StoreAssumption DEF SeenBy, KnownIs, StoreAssumption
<1>5. /\ Cardinality(SeenBy(K \cup {NoMac})) = Cardinality(SeenBy(K)) + Cardinality(all)
      /\ Cardinality(SeenBy(K)) \in Nat /\ Cardinality(all) \in Nat
  <2>1. IsFiniteSet(SeenBy(K)) /\ IsFiniteSet(all)
    BY <1>3, RowsAreFinite
  <2> HIDE DEF all, K
  <2>2. /\ Cardinality(SeenBy(K) \cup all) = Cardinality(SeenBy(K)) + Cardinality(all)
        /\ Cardinality(SeenBy(K)) \in Nat /\ Cardinality(all) \in Nat
    BY <1>4, <2>1, DisjointUnion
  <2> QED
    BY <1>3, <2>2
<1>6. SeenBy(req.known \cup {NoMac})' = SeenBy(K \cup {NoMac})
  BY <1>1, <1>2, ReadSame DEF SeenBy
<1>7. RosterIs(req.known \cup {NoMac})'
  <2> HIDE DEF all
  <2> QED
    BY <1>0, <1>1, <1>5, <1>6 DEF RosterIs
<1>8. KnownIs'
  BY <1>0, <1>1, <1>2 DEF KnownIs
<1>9. SourcesAre'
  BY <1>1, <1>2, ReadSame DEF SourcesAre
<1> QED
  BY <1>1, <1>7, <1>8, <1>9

\* "Whole network" counts them all.
LEMMA TotalCounted ==
    ASSUME StoreInv, ActivityInv, RequestInv, PageInv, ReadTotal
    PROVE  /\ KnownIs' /\ SourcesAre' /\ TotalIs'
           /\ req'.at = IF req.actor = Network THEN "counts" ELSE "summary"
<1> DEFINE K == req.known \cup {NoMac}
<1>0. KnownIs /\ SourcesAre /\ RosterIs(K)
  BY DEF PageInv, ReadTotal
<1>1. /\ req'.at = (IF req.actor = Network THEN "counts" ELSE "summary")
      /\ req'.known = req.known /\ req'.now = req.now /\ req'.calm = req.calm
      /\ req'.gone = req.gone /\ req'.sources = req.sources /\ req'.roster = req.roster
      /\ req'.total = Cardinality(Since(req.now))
  BY DEF ReadTotal, RequestInv, Fields
<1>2. UNCHANGED <<vars, clock, devices>>
  BY DEF ReadTotal, Get
<1>3. /\ Cardinality(Since(req.now)) \in Nat /\ Cardinality(SeenBy(K)) \in Nat
      /\ Cardinality(SeenBy(K)) <= Cardinality(Since(req.now))
  <2>1. SeenBy(K) \subseteq Since(req.now) /\ Since(req.now) \subseteq queries
    BY DEF SeenBy, Within, Since
  <2> QED
    BY <2>1, RowsAreFinite, FS_Subset
<1>4. SeenBy(req.known \cup {NoMac})' = SeenBy(K) /\ Since(req.now)' = Since(req.now)
  BY <1>1, <1>2, ReadSame DEF SeenBy, Since
<1>5. TotalIs'
  BY <1>0, <1>1, <1>3, <1>4 DEF TotalIs, RosterIs
<1>6. KnownIs'
  BY <1>0, <1>1, <1>2 DEF KnownIs
<1>7. SourcesAre'
  BY <1>0, <1>1, <1>2, ReadSame DEF SourcesAre
<1> QED
  BY <1>1, <1>5, <1>6, <1>7

\* The later reads leave the roster and the total alone.
LEMMA RosterKept ==
    ASSUME KnownIs, SourcesAre, TotalIs, UNCHANGED <<vars, clock, devices>>,
           \A f \in {"known", "now", "calm", "gone", "sources", "roster", "total"} : req'[f] = req[f]
    PROVE  KnownIs' /\ SourcesAre' /\ TotalIs'
<1>1. /\ req'.known = req.known /\ req'.now = req.now /\ req'.calm = req.calm /\ req'.gone = req.gone
      /\ req'.sources = req.sources /\ req'.roster = req.roster /\ req'.total = req.total
  OBVIOUS
<1>2. SeenBy(req.known \cup {NoMac})' = SeenBy(req.known \cup {NoMac}) /\ Since(req.now)' = Since(req.now)
  BY <1>1, ReadSame DEF SeenBy, Since
<1>3. Within(req.now)' = Within(req.now)
  BY <1>1, ReadSame DEF Within, Since
<1> QED
  BY <1>1, <1>2, <1>3 DEF KnownIs, SourcesAre, TotalIs

LEMMA PageRead ==
    ASSUME StoreInv, ActivityInv, PageInv, Answer
    PROVE  PageInv'
<1>1. RequestInv
  BY AnswerGoesOn
<1>2. CASE req' = Idle
  BY <1>2 DEF Idle, PageInv
<1>3. CASE ReadDevices
  BY <1>1, <1>3, DevicesCounted DEF PageInv
<1>4. CASE ReadSources
  <2>1. CASE req' # Idle
    BY <1>1, <1>4, <2>1, SourcesCounted DEF PageInv
  <2> QED
    BY <2>1, <1>2
<1>5. CASE ReadTotal
  BY <1>1, <1>5, TotalCounted DEF PageInv
<1>6. CASE ReadSummary
  <2>1. /\ req'.at = "counts" /\ UNCHANGED <<vars, clock, devices>>
        /\ \A f \in {"known", "now", "calm", "gone", "sources", "roster", "total"} : req'[f] = req[f]
    BY <1>1, <1>6 DEF ReadSummary, Get, RequestInv, Fields
  <2>2. KnownIs /\ SourcesAre /\ TotalIs
    BY <1>6 DEF ReadSummary, PageInv
  <2>3. KnownIs' /\ SourcesAre' /\ TotalIs'
    BY <2>1, <2>2, RosterKept
  <2> QED
    BY <2>1, <2>3 DEF PageInv
<1>7. CASE ReadCounts
  <2>1. /\ req'.at \in {"reach", "page"} /\ UNCHANGED <<vars, clock, devices>>
        /\ \A f \in {"known", "now", "calm", "gone", "sources", "roster", "total"} : req'[f] = req[f]
    BY <1>1, <1>7 DEF ReadCounts, Get, RequestInv, Fields
  <2>2. KnownIs /\ SourcesAre /\ TotalIs
    BY <1>7 DEF ReadCounts, PageInv
  <2>3. KnownIs' /\ SourcesAre' /\ TotalIs'
    BY <2>1, <2>2, RosterKept
  <2>4. req'.at = "reach" => MatchedIs'
    <3> SUFFICES ASSUME req'.at = "reach" PROVE MatchedIs'
      OBVIOUS
    <3>1. req.actor = Network /\ req'.matched = Cardinality({r \in Within(req.now) : Of(req.actor, r)})
      BY <1>1, <1>7 DEF ReadCounts, RequestInv, Fields
    <3>2. \A r : Of(Network, r)
      BY DEF Of, Network
    <3>3. {r \in Within(req.now) : Of(req.actor, r)} = Within(req.now)
      BY <3>1, <3>2
    <3>4. Within(req.now)' = Within(req.now)
      BY <2>1, ReadSame
    <3> QED
      BY <3>1, <3>3, <3>4 DEF MatchedIs
  <2> QED
    BY <2>1, <2>3, <2>4 DEF PageInv
<1>8. CASE ReadPage
  <2>1. /\ req'.at = "done" /\ UNCHANGED <<vars, clock, devices>> /\ req'.actor = req.actor
        /\ \A f \in {"known", "now", "calm", "gone", "sources", "roster", "total"} : req'[f] = req[f]
        /\ req.actor # Network
    BY <1>1, <1>8 DEF ReadPage, Get, RequestInv, Fields
  <2>2. KnownIs /\ SourcesAre /\ TotalIs
    BY <1>8 DEF ReadPage, PageInv
  <2>3. KnownIs' /\ SourcesAre' /\ TotalIs'
    BY <2>1, <2>2, RosterKept
  <2>4. Network' = Network
    BY DEF Network
  <2> QED
    BY <2>1, <2>3, <2>4 DEF PageInv
<1>9. CASE ReadReach
  <2>1. /\ req'.at = "done" /\ UNCHANGED <<vars, clock, devices>> /\ req'.matched = req.matched
        /\ \A f \in {"known", "now", "calm", "gone", "sources", "roster", "total"} : req'[f] = req[f]
    BY <1>1, <1>9 DEF ReadReach, Get, RequestInv, Fields
  <2>2. KnownIs /\ SourcesAre /\ TotalIs /\ MatchedIs
    BY <1>9 DEF ReadReach, PageInv
  <2>3. KnownIs' /\ SourcesAre' /\ TotalIs'
    BY <2>1, <2>2, RosterKept
  <2>4. MatchedIs'
    BY <2>1, <2>2, ReadSame DEF MatchedIs
  <2> QED
    BY <2>1, <2>3, <2>4 DEF PageInv
<1>10. CASE ReadDomains \/ ReadSpikes \/ NameSpike
  <2>1. req.at \in ListSteps
    BY <1>10 DEF ReadDomains, ReadSpikes, NameSpike, ListSteps
  <2>2. req.asked = 0
    BY <1>1, <2>1 DEF RequestInv
  <2>3. CASE req' # Idle
    <3>1. RequestInv' /\ req'.asked = 0
      BY <2>2, <2>3, AnswerGoesOn
    <3>2. req'.at \notin PageSteps
      BY <3>1 DEF RequestInv
    <3> QED
      BY <3>1, <3>2 DEF PageInv, PageSteps
  <2> QED
    BY <1>2, <2>3
<1> QED
  BY <1>3, <1>4, <1>5, <1>6, <1>7, <1>8, <1>9, <1>10 DEF Answer

LEMMA PageInvariant == ActivitySpec => []PageInv
<1>1. ActivityInit => PageInv
  BY DEF ActivityInit, Idle, PageInv
<1>2. StoreInv /\ StoreInv' /\ ActivityInv /\ PageInv /\ [ActivityNext]_allVars => PageInv'
  <2> SUFFICES ASSUME StoreInv, StoreInv', ActivityInv, PageInv, [ActivityNext]_allVars PROVE PageInv'
    OBVIOUS
  <2>1. CASE UNCHANGED allVars
    BY <2>1 DEF allVars, vars, PageInv, KnownIs, SourcesAre, TotalIs, MatchedIs, RosterIs, SeenBy, Within,
                Since, Network
  <2>2. CASE Begin
    BY <2>2, BeginStarts DEF PageInv
  <2>3. CASE Answer
    BY <2>3, PageRead
  <2>4. CASE (StoreStep \/ SaveDevice \/ Tick) /\ Watch
    <3>1. CASE req' = Idle
      BY <3>1 DEF Idle, PageInv
    <3>2. CASE RequestInv /\ Meanwhile
      BY <3>2, PageMeanwhile
    <3> QED
      BY <2>4, <3>1, <3>2, OthersWork
  <2> QED
    BY <2>1, <2>2, <2>3, <2>4 DEF ActivityNext
<1> QED
  BY <1>1, <1>2, StoreInvariant, ActivityInvariant, PTL DEF ActivitySpec

\* The numbers of a page add up, whatever was written and deleted between its reads:
\* the roster never exceeds "Whole network" unless rows went away, and on a calm page
\* every query counts exactly once, or is late, or of a device without a row.
THEOREM PageNumbersAddUp == ActivitySpec => []PageAddsUp
<1>1. StoreInv /\ ActivityInv /\ PageInv => PageAddsUp
  <2> SUFFICES ASSUME StoreInv, ActivityInv, PageInv, PageDone PROVE
        /\ ~ req.gone => req.roster <= req.total
        /\ req.calm =>
             /\ req.roster + Cardinality({r \in Since(req.now) : r \in Late \/ r.mac \notin devices \cup {NoMac}})
                  = req.total
             /\ req.actor = Network => req.matched + Cardinality(Late) = req.total
    BY DEF PageAddsUp
  <2> DEFINE Seen == SeenBy(devices \cup {NoMac})
             others == {r \in Since(req.now) : r \in Late \/ r.mac \notin devices \cup {NoMac}}
  <2>1. KnownIs /\ TotalIs /\ (req.actor = Network => MatchedIs)
    BY DEF PageInv, PageDone
  <2>2. req.now \in Nat
    BY DEF PageDone, ActivityInv, RequestInv, Idle
  <2>3. \A r \in queries : r.ts \in Nat
    BY StoreAssumption DEF StoreInv, LogInv, Rows, StoreAssumption
  <2>4. /\ Within(req.now) \cup Late = Since(req.now) /\ Within(req.now) \cap Late = {}
        /\ Within(req.now) \subseteq queries /\ Late \subseteq queries
    BY <2>2, <2>3 DEF Within, Late, Since
  <2>5. Seen \cup others = Since(req.now) /\ Seen \cap others = {}
        /\ Seen \subseteq queries /\ others \subseteq queries
    BY <2>2, <2>3 DEF SeenBy, Within, Late, Since
  <2>6. Cardinality(Since(req.now)) = Cardinality(Within(req.now)) + Cardinality(Late)
    BY <2>4, RowsAreFinite, DisjointUnion
  <2>7. Cardinality(Since(req.now)) = Cardinality(Seen) + Cardinality(others)
    <3> HIDE DEF Seen, others
    <3> QED
      BY <2>5, RowsAreFinite, DisjointUnion
  <2> HIDE DEF others
  <2>8. req.calm => req.roster + Cardinality(others) = req.total
    BY <2>1, <2>7 DEF KnownIs, TotalIs
  <2>9. req.calm /\ req.actor = Network => req.matched + Cardinality(Late) = req.total
    BY <2>1, <2>6 DEF TotalIs, MatchedIs
  <2>10. ~ req.gone => req.roster <= req.total
    BY <2>1 DEF TotalIs
  <2> QED
    BY <2>8, <2>9, <2>10 DEF others
<1> QED
  BY <1>1, StoreInvariant, ActivityInvariant, PageInvariant, PTL

-----------------------------------------------------------------------------
\* How many ask for a domain

LEMMA LeastIs ==
    ASSUME NEW T \in SUBSET Nat, T # {}
    PROVE  \E n \in T : \A m \in T : n <= m
<1> DEFINE Below(n) == 0 .. (n - 1)
           W == {Below(n) : n \in T}
<1>1. \A n \in T : Below(n) \in FiniteSubsetsOf(Nat)
  <2>1. \A n \in T : Below(n) \in SUBSET Nat
    OBVIOUS
  <2>2. \A n \in T : IsFiniteSet(Below(n))
    BY FS_Interval
  <2> HIDE DEF Below
  <2> QED
    BY <2>1, <2>2 DEF FiniteSubsetsOf
<1>2. W \subseteq FiniteSubsetsOf(Nat) /\ W # {}
  <2> HIDE DEF Below
  <2> QED
    BY <1>1
<1>3. PICK x \in W : \A y \in W : ~ (<<y, x>> \in StrictSubsetOrdering(Nat))
  BY <1>2, FS_StrictSubsetOrderingWellFounded, WFMin
<1>4. PICK n \in T : x = Below(n)
  BY <1>3
<1>5. ASSUME NEW m \in T, m < n PROVE FALSE
  <2>1. Below(m) \in W
    OBVIOUS
  <2>2. Below(m) \subseteq Below(n) /\ m \in Below(n) /\ m \notin Below(m)
    BY <1>5
  <2>3. Below(m) \subseteq Nat /\ Below(n) \subseteq Nat /\ Below(m) # Below(n)
    BY <2>2
  <2>4. <<Below(m), Below(n)>> \in StrictSubsetOrdering(Nat)
    BY <2>2, <2>3 DEF StrictSubsetOrdering
  <2> QED
    BY <1>3, <1>4, <2>1, <2>4
<1>6. \A m \in T : n <= m
  BY <1>5
<1> QED
  BY <1>6

LEMMA GreatestIs ==
    ASSUME NEW S \in SUBSET Nat, S # {}, NEW b \in Nat, \A s \in S : s <= b
    PROVE  Max(S) \in S /\ \A s \in S : s <= Max(S)
<1> DEFINE Bounds == {n \in Nat : \A s \in S : s <= n}
<1>1. PICK m \in Bounds : \A n \in Bounds : m <= n
  BY LeastIs
<1>2. m \in S
  <2> SUFFICES ASSUME m \notin S PROVE FALSE
    OBVIOUS
  <2>1. \A s \in S : s < m
    OBVIOUS
  <2>2. m # 0 /\ m - 1 \in Nat
    <3>1. PICK s \in S : s \in Nat
      OBVIOUS
    <3>2. s < m /\ m \in Nat
      BY <2>1, <3>1
    <3> QED
      BY <3>1, <3>2
  <2>3. \A s \in S : s <= m - 1
    BY <2>1
  <2>4. m - 1 \in Bounds
    BY <2>2, <2>3
  <2> QED
    BY <1>1, <2>4
<1>3. \E x \in S : \A y \in S : x >= y
  BY <1>2
<1>4. Max(S) \in S /\ \A y \in S : Max(S) >= y
  BY <1>3 DEF Max
<1> QED
  BY <1>4

\* More rows are not asked for by fewer.
LEMMA IdentitiesGrow ==
    ASSUME NEW T, IsFiniteSet(T), NEW S \in SUBSET T
    PROVE  /\ Identities(S) \in Nat /\ Identities(T) \in Nat /\ Identities(S) <= Identities(T)
           /\ IsFiniteSet({Identity(r) : r \in T})
<1> DEFINE ids == {Identity(r) : r \in T}
           f == [r \in T |-> Identity(r)]
<1>1. f \in Surjection(T, ids)
  BY DEF Surjection
<1>2. IsFiniteSet(ids)
  BY <1>1, FS_Surjection
<1>3. {Identity(r) : r \in S} \subseteq ids
  OBVIOUS
<1>4. IsFiniteSet({Identity(r) : r \in S})
  BY <1>2, <1>3, FS_Subset
<1> HIDE DEF ids
<1>5. Cardinality({Identity(r) : r \in S}) <= Cardinality(ids)
  BY <1>2, <1>3, FS_Subset
<1>6. Cardinality({Identity(r) : r \in S}) \in Nat /\ Cardinality(ids) \in Nat
  BY <1>2, <1>4, FS_CardinalityType
<1> QED
  BY <1>2, <1>5, <1>6 DEF Identities, ids

\* The largest reach is one of those that it is the largest of.
LEMMA ReachBound ==
    ASSUME StoreInv, NEW now, NEW b \in Nat,
           \A d \in Domains : Identities({r \in Since(now) : r.domain = d}) <= b
    PROVE  LargestReach(now) \in Nat /\ LargestReach(now) <= b
<1> DEFINE S == {0} \cup {Identities({r \in Since(now) : r.domain = d}) : d \in Domains}
<1>1. \A d \in Domains : Identities({r \in Since(now) : r.domain = d}) \in Nat
  <2>1. \A d \in Domains : {r \in Since(now) : r.domain = d} \in SUBSET queries
    BY DEF Since
  <2>2. IsFiniteSet(queries)
    BY DEF StoreInv, LogInv
  <2> QED
    BY <2>1, <2>2, IdentitiesGrow
<1>2. S \in SUBSET Nat /\ S # {} /\ \A s \in S : s <= b
  <2>1. \A s \in S : s \in Nat /\ s <= b
    <3> SUFFICES ASSUME NEW s \in S PROVE s \in Nat /\ s <= b
      OBVIOUS
    <3>1. CASE s = 0
      BY <3>1
    <3>2. CASE \E d \in Domains : s = Identities({r \in Since(now) : r.domain = d})
      BY <1>1, <3>2
    <3> QED
      BY <3>1, <3>2
  <2> QED
    BY <2>1
<1> HIDE DEF S
<1>3. Max(S) \in S
  BY <1>2, GreatestIs
<1>4. Max(S) \in Nat /\ Max(S) <= b
  BY <1>2, <1>3
<1> QED
  BY <1>4 DEF LargestReach, S

LEMMA ReachOfAll ==
    ASSUME StoreInv, NEW now
    PROVE  LargestReach(now) \in Nat /\ LargestReach(now) <= Identities(Since(now))
<1>1. IsFiniteSet(Since(now))
  BY RowsAreFinite DEF Since
<1>2. \A d \in Domains : {r \in Since(now) : r.domain = d} \in SUBSET Since(now)
  OBVIOUS
<1>3. \A d \in Domains : Identities({r \in Since(now) : r.domain = d}) <= Identities(Since(now))
  BY <1>1, <1>2, IdentitiesGrow
<1>4. Identities(Since(now)) \in Nat
  BY <1>1, IdentitiesGrow
<1> QED
  BY <1>3, <1>4, ReachBound

\* On a calm page whose queries are all of listed devices and sources, nobody else can
\* have asked.
LEMMA ReachListed ==
    ASSUME StoreInv, NEW K, NEW now, IsFiniteSet(K), NoMac \notin K,
           NEW found \in SUBSET queries,
           \A r \in Since(now) : r.mac \in K \/ (r.mac = NoMac /\ r \in found)
    PROVE  LargestReach(now) <= Cardinality(K) + Cardinality({r.ip : r \in found})
<1> DEFINE ips == {r.ip : r \in found}
           devs == {Device(m) : m \in K}
           srcs == {Source(i) : i \in ips}
<1>1. IsFiniteSet(found)
  BY RowsAreFinite
<1>2. [r \in found |-> r.ip] \in Surjection(found, ips)
  BY DEF Surjection
<1>3. IsFiniteSet(ips) /\ Cardinality(ips) \in Nat /\ Cardinality(K) \in Nat
  BY <1>1, <1>2, FS_Surjection, FS_CardinalityType
<1> HIDE DEF ips
<1>4. [m \in K |-> Device(m)] \in Surjection(K, devs) /\ [i \in ips |-> Source(i)] \in Surjection(ips, srcs)
  BY DEF Surjection
<1>5. /\ IsFiniteSet(devs) /\ Cardinality(devs) <= Cardinality(K)
      /\ IsFiniteSet(srcs) /\ Cardinality(srcs) <= Cardinality(ips)
  BY <1>3, <1>4, FS_Surjection
<1>6. /\ IsFiniteSet(devs \cup srcs) /\ Cardinality(devs \cup srcs) \in Nat
      /\ Cardinality(devs \cup srcs) <= Cardinality(K) + Cardinality(ips)
  <2> HIDE DEF devs, srcs
  <2>1. /\ IsFiniteSet(devs \cup srcs) /\ IsFiniteSet(devs \cap srcs)
        /\ Cardinality(devs \cup srcs) = Cardinality(devs) + Cardinality(srcs) - Cardinality(devs \cap srcs)
    BY <1>5, FS_Union, FS_Intersection
  <2>2. /\ Cardinality(devs \cup srcs) \in Nat /\ Cardinality(devs \cap srcs) \in Nat
        /\ Cardinality(devs) \in Nat /\ Cardinality(srcs) \in Nat
    BY <1>5, <2>1, FS_CardinalityType
  <2> QED
    BY <1>3, <1>5, <2>1, <2>2
<1>7. \A r \in Since(now) : Identity(r) \in devs \cup srcs
  <2> SUFFICES ASSUME NEW r \in Since(now) PROVE Identity(r) \in devs \cup srcs
    OBVIOUS
  <2>1. CASE r.mac # NoMac
    BY <2>1 DEF Identity
  <2>2. CASE r.mac = NoMac
    <3>1. r \in found
      BY <2>2
    <3> QED
      BY <2>2, <3>1 DEF Identity, ips
  <2> QED
    BY <2>1, <2>2
<1>8. Identities(Since(now)) <= Cardinality(devs \cup srcs) /\ Identities(Since(now)) \in Nat
  <2>1. {Identity(r) : r \in Since(now)} \subseteq devs \cup srcs
    BY <1>7
  <2>2. IsFiniteSet(Since(now))
    BY RowsAreFinite DEF Since
  <2> HIDE DEF devs, srcs
  <2> QED
    BY <1>6, <2>1, <2>2, FS_Subset, IdentitiesGrow DEF Identities
<1>9. LargestReach(now) \in Nat /\ LargestReach(now) <= Identities(Since(now))
  BY ReachOfAll
<1> HIDE DEF devs, srcs
<1> QED
  BY <1>3, <1>6, <1>8, <1>9 DEF ips

\* GET /api/domains has read the reach before the number of actors.
ReachInv ==
    /\ req.at \in {"anomalies", "spikes"} => req.reach = 0 /\ req.identities = 0
    /\ req.at = "api2" => /\ req.reach \in Nat
                          /\ ~ req.gone => req.reach <= Identities(Since(clock))
    /\ ReachWithinTotal

LEMMA ReachMeanwhile ==
    ASSUME StoreInv, StoreInv', ActivityInv, RequestInv, Meanwhile, ReachInv, clock' \in Nat
    PROVE  ReachInv'
<1>1. /\ req'.at = req.at /\ req'.reach = req.reach /\ req'.identities = req.identities
      /\ req'.at # "done" /\ req'.now = req.now
  BY DEF Meanwhile, Fields
<1>2. ReachWithinTotal'
  BY <1>1 DEF ReachWithinTotal
<1>3. ASSUME req.at = "api2", ~ req'.gone PROVE req'.reach <= Identities(Since(clock)')
  <2>1. Since(clock) \subseteq Since(clock)'
    <3> SUFFICES ASSUME NEW r \in Since(clock) PROVE r \in Since(clock)'
      OBVIOUS
    <3>1. r.ts \in Nat /\ r \in queries /\ r.ts + Day >= clock
      BY StoreAssumption DEF Since, StoreInv, LogInv, Rows, StoreAssumption
    <3>2. r \in Since(req.now)
      BY <3>1, ActivityAssumption DEF Since, RequestInv, ActivityInv, ActivityAssumption
    <3>3. r \in queries' /\ ~ (r.ts + Day < clock')
      BY <1>3, <3>2, RowsStay
    <3> QED
      BY <3>1, <3>3, ActivityAssumption DEF Since, ActivityAssumption
  <2>2. IsFiniteSet(Since(clock)')
    BY FS_Subset DEF StoreInv, LogInv, Since
  <2>3. ~ req.gone
    BY <1>3, RowsStay
  <2>4. req.reach \in Nat /\ req.reach <= Identities(Since(clock))
    BY <1>3, <2>3 DEF ReachInv
  <2>5. /\ Identities(Since(clock)) \in Nat /\ Identities(Since(clock)') \in Nat
        /\ Identities(Since(clock)) <= Identities(Since(clock)')
    BY <2>1, <2>2, IdentitiesGrow
  <2> QED
    BY <1>1, <2>4, <2>5
<1>4. Identities(Since(clock)') = Identities(Since(clock))'
  BY DEF Identities, Identity, Device, Source
<1> QED
  BY <1>1, <1>2, <1>3, <1>4 DEF ReachInv

\* The last read of the network's page.
LEMMA ReachOnPage ==
    ASSUME StoreInv, ActivityInv, PageInv, RequestInv, ReadReach
    PROVE  ReachInv'
<1>1. /\ req'.at = "done" /\ req'.asked = req.asked /\ req'.actor = Network /\ req'.calm = req.calm
      /\ req'.known = req.known /\ req'.sources = req.sources /\ req'.reach = LargestReach(clock)
      /\ req'.asked # 0 /\ req'.now = req.now
  BY DEF ReadReach, RequestInv, Fields, PageSteps
<1>2. UNCHANGED <<vars, clock, devices>>
  BY DEF ReadReach, Get
<1>3. KnownIs /\ SourcesAre
  BY DEF PageInv, ReadReach
<1>4. ASSUME req.calm, Late = {}, {r.mac : r \in queries} \subseteq devices \cup {NoMac}
      PROVE  LargestReach(clock) <= Cardinality(req.known) + Cardinality(req.sources)
  <2> DEFINE silent == {q \in Within(req.now) : q.mac = NoMac}
  <2>1. /\ req.known = devices /\ req.now = clock /\ req.sources = {r.ip : r \in silent}
        /\ silent \subseteq queries /\ IsFiniteSet(devices)
    BY <1>3, <1>4 DEF KnownIs, SourcesAre, RequestInv, Within, Since, ActivityInv
  <2>2. \A r \in Since(clock) : r.mac \in devices \/ (r.mac = NoMac /\ r \in silent)
    <3> SUFFICES ASSUME NEW r \in Since(clock), r.mac \notin devices PROVE r.mac = NoMac /\ r \in silent
      OBVIOUS
    <3>1. r \in queries /\ r.mac = NoMac /\ r \notin Late /\ r.ts \in Nat /\ clock \in Nat
      BY <1>4, StoreAssumption DEF Since, StoreInv, LogInv, Rows, StoreAssumption, ActivityInv
    <3> QED
      BY <3>1, <2>1 DEF Late, Within
  <2>3. NoMac \notin devices
    BY StoreAssumption DEF ActivityInv, StoreAssumption
  <2> HIDE DEF silent
  <2> QED
    BY <2>1, <2>2, <2>3, ReachListed
<1>5. Late' = Late /\ {r.mac : r \in queries}' = {r.mac : r \in queries} /\ devices' = devices
  BY <1>1, <1>2 DEF Late, Since, vars
<1>6. ReachWithinTotal'
  BY <1>1, <1>4, <1>5 DEF ReachWithinTotal
<1> QED
  BY <1>1, <1>6 DEF ReachInv

\* GET /api/anomalies only collects spikes and names.
LEMMA SpikeSteps ==
    ASSUME RequestInv, ReadSpikes \/ NameSpike
    PROVE  /\ \A f \in Fields \ {"at", "now", "spikes", "named"} : req'[f] = req[f]
           /\ req'.at \in {"done", "spikes"}
<1>1. CASE ReadSpikes
  BY <1>1 DEF ReadSpikes, RequestInv, Fields
<1>2. CASE NameSpike
  <2>1. PICK s \in req.spikes : \E g :
          req' = [req EXCEPT !.at = IF req.spikes = {s} THEN "done" ELSE @,
                             !.spikes = @ \ {s}, !.named = @ \cup {<<s, g>>}]
    BY <1>2 DEF NameSpike
  <2>2. PICK g : req' = [req EXCEPT !.at = IF req.spikes = {s} THEN "done" ELSE @,
                                    !.spikes = @ \ {s}, !.named = @ \cup {<<s, g>>}]
    BY <2>1
  <2>3. req.at = "spikes"
    BY <1>2 DEF NameSpike
  <2> QED
    BY <2>2, <2>3 DEF RequestInv, Fields
<1> QED
  BY <1>1, <1>2

LEMMA ReachRead ==
    ASSUME StoreInv, ActivityInv, PageInv, ReachInv, Answer
    PROVE  ReachInv'
<1>1. RequestInv
  BY AnswerGoesOn
<1>2. CASE req' = Idle
  BY <1>2 DEF Idle, ReachInv, ReachWithinTotal
<1>3. CASE ReadReach
  BY <1>1, <1>3, ReachOnPage
<1>4. CASE ReadPage
  <2>1. req'.at = "done" /\ req'.actor # Network
    BY <1>1, <1>4 DEF ReadPage, RequestInv, Fields
  <2> QED
    BY <2>1 DEF ReachInv, ReachWithinTotal, Network
<1>5. CASE ReadSpikes \/ NameSpike
  <2>1. req.at \in {"anomalies", "spikes"}
    BY <1>5 DEF ReadSpikes, NameSpike
  <2>2. req'.reach = req.reach /\ req'.identities = req.identities
    BY <1>1, <1>5, SpikeSteps DEF Fields
  <2>3. req'.reach = 0 /\ req'.identities = 0
    BY <2>1, <2>2 DEF ReachInv
  <2>4. req'.asked = 0 \/ req' = Idle
    BY <1>1, <2>1, AnswerGoesOn DEF RequestInv, ListSteps
  <2>5. CASE req' # Idle
    <3>1. req'.at \in ListSteps \cup {"done"} /\ req'.at # "api2"
      BY <1>1, <1>5, SpikeSteps DEF ListSteps
    <3> QED
      BY <2>3, <2>4, <2>5, <3>1 DEF ReachInv, ReachWithinTotal
  <2> QED
    BY <1>2, <2>5
<1>6. CASE ReadDomains /\ req.at = "api"
  <2>1. req'.at = "api2" /\ req'.reach = LargestReach(clock) /\ UNCHANGED <<vars, clock>>
    BY <1>1, <1>6 DEF ReadDomains, RequestInv, Fields, Get
  <2>2. LargestReach(clock) \in Nat /\ LargestReach(clock) <= Identities(Since(clock))
    BY ReachOfAll
  <2>3. Identities(Since(clock))' = Identities(Since(clock))
    BY <2>1 DEF Identities, Identity, Device, Source, Since, vars
  <2> QED
    BY <2>1, <2>2, <2>3 DEF ReachInv, ReachWithinTotal
<1>7. CASE ReadDomains /\ req.at = "api2"
  <2>1. /\ req'.at = "done" /\ req'.identities = Identities(Since(clock)) /\ req'.reach = req.reach
        /\ req'.asked = req.asked /\ req'.gone = req.gone
    BY <1>1, <1>7 DEF ReadDomains, RequestInv, Fields
  <2>2. req.asked = 0
    BY <1>1, <1>7 DEF RequestInv, ListSteps
  <2>3. ~ req.gone => req.reach <= Identities(Since(clock))
    BY <1>7 DEF ReachInv
  <2> QED
    BY <2>1, <2>2, <2>3 DEF ReachInv, ReachWithinTotal
<1>8. CASE ReadDevices \/ ReadSources \/ ReadTotal \/ ReadSummary \/ ReadCounts
  <2>1. req'.at \in PageSteps \/ req' = Idle
    BY <1>1, <1>8 DEF ReadDevices, ReadSources, ReadTotal, ReadSummary, ReadCounts, RequestInv, Fields, PageSteps
  <2> QED
    BY <1>2, <2>1 DEF PageSteps, ReachInv, ReachWithinTotal
<1> QED
  BY <1>3, <1>4, <1>5, <1>6, <1>7, <1>8 DEF Answer, ReadDomains

LEMMA ReachInvariant == ActivitySpec => []ReachInv
<1>1. ActivityInit => ReachInv
  BY DEF ActivityInit, Idle, ReachInv, ReachWithinTotal
<1>2. StoreInv /\ StoreInv' /\ ActivityInv /\ PageInv /\ ReachInv /\ [ActivityNext]_allVars => ReachInv'
  <2> SUFFICES ASSUME StoreInv, StoreInv', ActivityInv, PageInv, ReachInv, [ActivityNext]_allVars
               PROVE  ReachInv'
    OBVIOUS
  <2>1. CASE UNCHANGED allVars
    BY <2>1 DEF allVars, vars, ReachInv, ReachWithinTotal, Identities, Identity, Device, Source, Since, Late,
                Network
  <2>2. CASE Begin
    <3>1. \/ \E a, p : req' = NewRequest(a, p, "devices")
          \/ \E at \in {"api", "anomalies"} : req' = NewRequest(Network, 0, at)
      BY <2>2 DEF Begin
    <3> QED
      BY <3>1 DEF NewRequest, ReachInv, ReachWithinTotal
  <2>3. CASE Answer
    BY <2>3, ReachRead
  <2>4. CASE (StoreStep \/ SaveDevice \/ Tick) /\ Watch
    <3>1. CASE req' = Idle
      BY <3>1 DEF Idle, ReachInv, ReachWithinTotal
    <3>2. CASE RequestInv /\ Meanwhile
      BY <2>4, <3>2, ReachMeanwhile, OthersKeep
    <3> QED
      BY <2>4, <3>1, <3>2, OthersWork
  <2> QED
    BY <2>1, <2>2, <2>3, <2>4 DEF ActivityNext
<1> QED
  BY <1>1, <1>2, StoreInvariant, ActivityInvariant, PageInvariant, PTL DEF ActivitySpec

\* No domain is said to be asked for by more devices and sources than there are said
\* to be, although the two numbers are read one after the other while others write.
THEOREM ReachStaysWithinTotal == ActivitySpec => []ReachWithinTotal
BY ReachInvariant, PTL DEF ReachInv

-----------------------------------------------------------------------------
\* Spikes and the domains they are blamed on

LEMMA TimesGrows ==
    ASSUME NEW k \in Nat, NEW a \in Nat, NEW b \in Nat, a <= b
    PROVE  k * a <= k * b /\ k * a \in Nat /\ k * b \in Nat
<1>1. PICK d \in Nat : b = a + d
  <2>1. b - a \in Nat /\ b = a + (b - a)
    OBVIOUS
  <2> QED
    BY <2>1
<1>2. k * (a + d) = k * a + k * d
  OBVIOUS
<1>3. k * a \in Nat /\ k * d \in Nat
  OBVIOUS
<1> QED
  BY <1>1, <1>2, <1>3

Ahead(a, b, c, g, h) == a[g] > a[h] \/ (a[g] = a[h] /\ (b[g] > b[h] \/ (b[g] = b[h] /\ c[g] <= c[h])))
AtMost(f, G, most) == \A g \in G : f[g] <= most

\* ORDER BY a DESC, b DESC, c ASC LIMIT 1 finds something where there is something.
LEMMA LeaderExists ==
    ASSUME NEW G, G # {}, NEW a \in [G -> Nat], NEW b \in [G -> Nat], NEW c \in [G -> Nat],
           NEW most \in Nat, AtMost(a, G, most), AtMost(b, G, most)
    PROVE  \E g \in G : \A h \in G : Ahead(a, b, c, g, h)
<1> DEFINE A == {a[g] : g \in G}
           GA == {g \in G : a[g] = Max(A)}
           B == {b[g] : g \in GA}
           GB == {g \in GA : b[g] = Max(B)}
           C == {c[g] : g \in GB}
<1>1. Max(A) \in A /\ \A x \in A : x <= Max(A)
  <2>1. A \in SUBSET Nat /\ A # {} /\ \A x \in A : x <= most
    BY DEF AtMost
  <2> HIDE DEF A
  <2> QED
    BY <2>1, GreatestIs
<1>2. GA # {}
  BY <1>1
<1>3. Max(B) \in B /\ \A x \in B : x <= Max(B)
  <2>1. B \in SUBSET Nat /\ B # {} /\ \A x \in B : x <= most
    BY <1>2 DEF AtMost
  <2> HIDE DEF B
  <2> QED
    BY <2>1, GreatestIs
<1>4. GB # {}
  BY <1>3
<1>5. PICK n \in C : \A m \in C : n <= m
  <2>1. C \in SUBSET Nat /\ C # {}
    BY <1>4
  <2> HIDE DEF C
  <2> QED
    BY <2>1, LeastIs
<1>6. PICK g \in GB : c[g] = n
  BY <1>5
<1>7. ASSUME NEW h \in G
      PROVE  Ahead(a, b, c, g, h)
  <2>1. a[h] <= a[g] /\ a[h] \in Nat /\ a[g] \in Nat
    <3>1. a[h] \in A /\ a[g] = Max(A)
      BY <1>6
    <3> HIDE DEF A
    <3> QED
      BY <1>1, <1>6, <3>1
  <2>2. a[h] = a[g] => b[h] <= b[g] /\ b[h] \in Nat /\ b[g] \in Nat
    <3> SUFFICES ASSUME a[h] = a[g] PROVE b[h] <= b[g]
      BY <1>6
    <3>1. b[h] \in B /\ b[g] = Max(B)
      BY <1>6
    <3> HIDE DEF B
    <3> QED
      BY <1>3, <3>1
  <2>3. a[h] = a[g] /\ b[h] = b[g] => c[g] <= c[h]
    <3> SUFFICES ASSUME a[h] = a[g], b[h] = b[g] PROVE c[g] <= c[h]
      OBVIOUS
    <3>1. h \in GB
      BY <1>6
    <3>2. c[h] \in C
      BY <3>1
    <3> HIDE DEF C
    <3> QED
      BY <1>5, <1>6, <3>2
  <2>4. b[h] \in Nat /\ b[g] \in Nat
    BY <1>6
  <2> HIDE DEF A, B, C, GA, GB
  <2> QED
    BY <2>1, <2>2, <2>3, <2>4 DEF Ahead
<1> QED
  BY <1>6, <1>7

\* What holds of each group of rows holds of all rows.
LEMMA GroupsSum ==
    ASSUME NEW C, NEW P, IsFiniteSet(C), IsFiniteSet(P), NEW k \in Nat,
           \A g : k * InGroup(C, g) <= InGroup(P, g)
    PROVE  k * Cardinality(C) <= Cardinality(P)
<1> DEFINE Part(S, H) == {r \in S : <<r.domain, r.cat>> \in H}
           All == Groups(C \cup P)
           Bad == {H \in FiniteSubsetsOf(All) : ~ (k * Cardinality(Part(C, H)) <= Cardinality(Part(P, H)))}
<1>1. IsFiniteSet(All)
  <2>1. IsFiniteSet(C \cup P)
    BY FS_Union
  <2>2. [r \in C \cup P |-> <<r.domain, r.cat>>] \in Surjection(C \cup P, All)
    BY DEF Surjection, Groups
  <2> HIDE DEF All
  <2> QED
    BY <2>1, <2>2, FS_Surjection
<1>2. \A H : /\ IsFiniteSet(Part(C, H)) /\ Cardinality(Part(C, H)) \in Nat
             /\ IsFiniteSet(Part(P, H)) /\ Cardinality(Part(P, H)) \in Nat
  BY FS_Subset, FS_CardinalityType
<1>3. Bad = {}
  <2> SUFFICES ASSUME Bad # {} PROVE FALSE
    OBVIOUS
  <2>1. Bad \subseteq FiniteSubsetsOf(All)
    OBVIOUS
  <2>2. PICK H \in Bad : \A J \in Bad : ~ (<<J, H>> \in StrictSubsetOrdering(All))
    <3> HIDE DEF Bad
    <3> QED
      BY <2>1, FS_StrictSubsetOrderingWellFounded, WFMin
  <2>3. H \subseteq All /\ IsFiniteSet(H)
    BY DEF FiniteSubsetsOf
  <2>4. H # {}
    <3> SUFFICES ASSUME H = {} PROVE FALSE
      OBVIOUS
    <3>1. Part(C, H) = {} /\ Part(P, H) = {}
      OBVIOUS
    <3>2. Cardinality(Part(C, H)) = 0 /\ Cardinality(Part(P, H)) = 0
      BY <3>1, FS_EmptySet
    <3> QED
      BY <3>2
  <2>5. PICK h \in H : TRUE
    BY <2>4
  <2> DEFINE J == H \ {h}
  <2>6. J \subseteq All /\ IsFiniteSet(J) /\ J \subseteq H /\ J # H
    BY <2>3, <2>5, FS_Subset
  <2>7. J \notin Bad
    <3>1. <<J, H>> \in StrictSubsetOrdering(All)
      BY <2>3, <2>6 DEF StrictSubsetOrdering
    <3> HIDE DEF Bad, J
    <3> QED
      BY <2>2, <3>1
  <2>8. k * Cardinality(Part(C, J)) <= Cardinality(Part(P, J))
    BY <2>6, <2>7 DEF FiniteSubsetsOf
  <2>9. ASSUME NEW S, IsFiniteSet(S)
        PROVE  /\ Cardinality(Part(S, H)) = Cardinality(Part(S, J)) + InGroup(S, h)
               /\ Cardinality(Part(S, J)) \in Nat /\ InGroup(S, h) \in Nat
    <3> DEFINE one == {r \in S : <<r.domain, r.cat>> = h}
    <3>1. Part(S, H) = Part(S, J) \cup one /\ Part(S, J) \cap one = {}
      BY <2>5
    <3>2. IsFiniteSet(Part(S, J)) /\ IsFiniteSet(one)
      BY <2>9, FS_Subset
    <3>3. InGroup(S, h) = Cardinality(one)
      BY DEF InGroup
    <3> HIDE DEF Part, J, one
    <3> QED
      BY <3>1, <3>2, <3>3, DisjointUnion
  <2>10. k * InGroup(C, h) <= InGroup(P, h)
    OBVIOUS
  <2>11. /\ Cardinality(Part(C, H)) = Cardinality(Part(C, J)) + InGroup(C, h)
         /\ Cardinality(Part(C, J)) \in Nat /\ InGroup(C, h) \in Nat
         /\ Cardinality(Part(P, H)) = Cardinality(Part(P, J)) + InGroup(P, h)
         /\ Cardinality(Part(P, J)) \in Nat /\ InGroup(P, h) \in Nat
    BY <2>9
  <2>12. ~ (k * Cardinality(Part(C, H)) <= Cardinality(Part(P, H)))
    BY <2>2
  <2> HIDE DEF Part, J, Bad
  <2>13. k * (Cardinality(Part(C, J)) + InGroup(C, h)) = k * Cardinality(Part(C, J)) + k * InGroup(C, h)
    BY <2>11
  <2>14. k * Cardinality(Part(C, J)) \in Nat /\ k * InGroup(C, h) \in Nat
    BY <2>11, TimesGrows
  <2> QED
    BY <2>8, <2>10, <2>11, <2>12, <2>13, <2>14
<1>4. Part(C, All) = C /\ Part(P, All) = P
  BY DEF Groups
<1>5. All \notin Bad /\ All \in FiniteSubsetsOf(All)
  BY <1>1, <1>3 DEF FiniteSubsetsOf
<1> QED
  BY <1>4, <1>5

\* A device that asks for more than before asks for more of some domain.
LEMMA SomethingRose ==
    ASSUME NEW C, NEW P, IsFiniteSet(C), IsFiniteSet(P), NEW k \in Nat,
           k * Cardinality(C) > Cardinality(P)
    PROVE  \E g \in Groups(C \cup P) : k * InGroup(C, g) > InGroup(P, g)
<1> SUFFICES ASSUME \A g \in Groups(C \cup P) : ~ (k * InGroup(C, g) > InGroup(P, g)) PROVE FALSE
  OBVIOUS
<1>1. \A g : InGroup(C, g) \in Nat /\ InGroup(P, g) \in Nat
  BY FS_Subset, FS_CardinalityType DEF InGroup
<1>2. \A g : k * InGroup(C, g) \in Nat
  BY <1>1
<1>3. ASSUME NEW g PROVE k * InGroup(C, g) <= InGroup(P, g)
  <2>1. CASE g \in Groups(C \cup P)
    BY <1>1, <1>2, <2>1
  <2>2. CASE g \notin Groups(C \cup P)
    <3>1. {r \in C : <<r.domain, r.cat>> = g} = {}
      BY <2>2 DEF Groups
    <3>2. InGroup(C, g) = 0
      BY <3>1, FS_EmptySet DEF InGroup
    <3> QED
      BY <1>1, <3>2
  <2> QED
    BY <2>1, <2>2
<1>4. k * Cardinality(C) <= Cardinality(P)
  BY <1>3, GroupsSum
<1>5. Cardinality(C) \in Nat /\ Cardinality(P) \in Nat
  BY FS_CardinalityType
<1>6. k * Cardinality(C) \in Nat
  BY <1>5
<1> QED
  BY <1>4, <1>5, <1>6

LEMMA DayFinite ==
    ASSUME StoreInv, NEW m, NEW now
    PROVE  /\ IsFiniteSet(Recent(m, now)) /\ Cardinality(Recent(m, now)) \in Nat
           /\ IsFiniteSet(Prior(m, now)) /\ Cardinality(Prior(m, now)) \in Nat
           /\ IsFiniteSet(Tracking(Recent(m, now))) /\ Cardinality(Tracking(Recent(m, now))) \in Nat
           /\ Tracking(Recent(m, now)) \subseteq Recent(m, now) /\ Recent(m, now) \subseteq queries
           /\ Prior(m, now) \subseteq queries
<1>1. /\ Tracking(Recent(m, now)) \subseteq Recent(m, now) /\ Recent(m, now) \subseteq queries
      /\ Prior(m, now) \subseteq queries
  BY DEF Tracking, Recent, Within, Since, Prior
<1> QED
  BY <1>1, RowsAreFinite

LEMMA InGroupFinite ==
    ASSUME NEW S, IsFiniteSet(S), NEW g
    PROVE  InGroup(S, g) \in Nat /\ InGroup(S, g) <= Cardinality(S) /\ Cardinality(S) \in Nat
BY FS_Subset, FS_CardinalityType DEF InGroup

\* The domain of a tracker spike is one of the day's tracking domains.
LEMMA TopTrackerFound ==
    ASSUME StoreInv, NEW m, NEW now, Tracking(Recent(m, now)) # {}
    PROVE  /\ TopTracker(m, now) # {}
           /\ \A g \in TopTracker(m, now) :
                \E r \in Tracking(Recent(m, now)) : <<r.domain, r.cat>> = g
<1> DEFINE S == Tracking(Recent(m, now))
           G == Groups(S)
           a == [g \in G |-> InGroup(S, g)]
           c == [g \in G |-> g[1]]
<1>1. IsFiniteSet(S) /\ Cardinality(S) \in Nat /\ S \subseteq queries
  BY DayFinite
<1>2. a \in [G -> Nat] /\ \A g \in G : a[g] <= Cardinality(S)
  <2> HIDE DEF S, G
  <2> QED
    BY <1>1, InGroupFinite
<1>3. c \in [G -> Nat]
  <2>1. \A r \in queries : r.domain \in Nat
    BY ActivityAssumption DEF StoreInv, LogInv, Rows, ActivityAssumption
  <2> HIDE DEF S
  <2> QED
    BY <1>1, <2>1 DEF Groups
<1>4. G # {}
  BY DEF Groups
<1>5. TopTracker(m, now) = {g \in G : \A h \in G : InGroup(S, g) > InGroup(S, h)
                                       \/ (InGroup(S, g) = InGroup(S, h) /\ g[1] <= h[1])}
  BY DEF TopTracker, SpikeRows
<1>6. \E g \in G : \A h \in G : Ahead(a, a, c, g, h)
  <2> HIDE DEF a, c, G, S
  <2> QED
    <3>1. Cardinality(S) \in Nat /\ G # {} /\ a \in [G -> Nat] /\ c \in [G -> Nat]
      BY <1>1, <1>2, <1>3, <1>4
    <3>2. AtMost(a, G, Cardinality(S))
      BY <1>2 DEF AtMost
    <3> QED
      BY <3>1, <3>2, LeaderExists
<1>7. TopTracker(m, now) # {}
  <2>1. \A g, h \in G : a[g] = InGroup(S, g) /\ a[h] = InGroup(S, h) /\ c[g] = g[1] /\ c[h] = h[1]
    OBVIOUS
  <2> HIDE DEF G, S, a, c
  <2>2. \A g, h \in G : Ahead(a, a, c, g, h) => InGroup(S, g) > InGroup(S, h)
                                       \/ (InGroup(S, g) = InGroup(S, h) /\ g[1] <= h[1])
    BY <1>2, <2>1 DEF Ahead
  <2> QED
    BY <1>5, <1>6, <2>2
<1>8. \A g \in G : \E r \in S : <<r.domain, r.cat>> = g
  BY DEF Groups
<1> HIDE DEF G
<1> QED
  BY <1>5, <1>7, <1>8

\* The domain of a volume spike is one that the device asks for more than before.
LEMMA TopRisenFound ==
    ASSUME StoreInv, NEW m, NEW now,
           PriorDays * Cardinality(Recent(m, now)) > Cardinality(Prior(m, now))
    PROVE  /\ TopRisen(m, now) # {}
           /\ \A g \in TopRisen(m, now) : Delta(m, now, g) > 0
<1> DEFINE C == Recent(m, now)
           P == Prior(m, now)
           All == Groups(C \cup P)
           a == [g \in All |-> Delta(m, now, g) + Cardinality(P)]
           b == [g \in All |-> InGroup(C, g)]
           c == [g \in All |-> g[1]]
           most == PriorDays * Cardinality(C) + Cardinality(P) + Cardinality(C)
<1>1. /\ IsFiniteSet(C) /\ Cardinality(C) \in Nat /\ C \subseteq queries
      /\ IsFiniteSet(P) /\ Cardinality(P) \in Nat /\ P \subseteq queries
  BY DayFinite
<1>2. PriorDays \in Nat
  BY ActivityAssumption DEF ActivityAssumption
<1>3. ASSUME NEW g
      PROVE  /\ InGroup(C, g) \in Nat /\ InGroup(C, g) <= Cardinality(C)
             /\ InGroup(P, g) \in Nat /\ InGroup(P, g) <= Cardinality(P)
             /\ PriorDays * InGroup(C, g) \in Nat /\ PriorDays * Cardinality(C) \in Nat
             /\ PriorDays * InGroup(C, g) <= PriorDays * Cardinality(C)
             /\ Delta(m, now, g) = PriorDays * InGroup(C, g) - InGroup(P, g)
  <2>1. Delta(m, now, g) = PriorDays * InGroup(C, g) - InGroup(P, g)
    BY DEF Delta
  <2> HIDE DEF C, P
  <2> QED
    BY <1>1, <1>2, <2>1, InGroupFinite, TimesGrows
<1> HIDE DEF C, P
<1>4. \A g : /\ Delta(m, now, g) + Cardinality(P) \in Nat
             /\ Delta(m, now, g) + Cardinality(P) <= most /\ InGroup(C, g) <= most
             /\ most \in Nat /\ Delta(m, now, g) \in Int
  BY <1>1, <1>3
<1>5. PICK up \in All : Delta(m, now, up) > 0
  <2>1. \E g \in Groups(C \cup P) : PriorDays * InGroup(C, g) > InGroup(P, g)
    BY <1>1, <1>2, SomethingRose DEF C, P
  <2> QED
    BY <1>3, <2>1
<1>6. \A r \in queries : r.domain \in Nat
  BY ActivityAssumption DEF StoreInv, LogInv, Rows, ActivityAssumption
<1>7. c \in [All -> Nat]
  BY <1>1, <1>6 DEF Groups
<1>8. a \in [All -> Nat] /\ b \in [All -> Nat] /\ \A g \in All : a[g] <= most /\ b[g] <= most
  <2> HIDE DEF All, most
  <2> QED
    BY <1>3, <1>4
<1>9. \E g \in All : \A h \in All : Ahead(a, b, c, g, h)
  <2> HIDE DEF a, b, c, All, most
  <2> QED
    <3>1. All # {} /\ most \in Nat
      BY <1>4, <1>5
    <3>2. a \in [All -> Nat] /\ b \in [All -> Nat] /\ AtMost(a, All, most) /\ AtMost(b, All, most)
      BY <1>8 DEF AtMost
    <3> QED
      BY <1>7, <3>1, <3>2, LeaderExists
<1> DEFINE Leads(g, h) == LET dg == Delta(m, now, g)  dh == Delta(m, now, h)
                              cg == InGroup(C, g)     ch == InGroup(C, h)
                          IN dg > dh \/ (dg = dh /\ (cg > ch \/ (cg = ch /\ g[1] <= h[1])))
<1>10. TopRisen(m, now) = {g \in All : \A h \in All : Leads(g, h)}
  BY DEF TopRisen, C, P
<1>11. ASSUME NEW g \in All, NEW h \in All
       PROVE  Leads(g, h) <=> Ahead(a, b, c, g, h)
  <2>1. /\ a[g] = Delta(m, now, g) + Cardinality(P) /\ a[h] = Delta(m, now, h) + Cardinality(P)
        /\ b[g] = InGroup(C, g) /\ b[h] = InGroup(C, h) /\ c[g] = g[1] /\ c[h] = h[1]
    OBVIOUS
  <2>2. Delta(m, now, g) \in Int /\ Delta(m, now, h) \in Int
    BY <1>4
  <2> HIDE DEF a, b, c, All
  <2> QED
    BY <1>1, <2>1, <2>2 DEF Ahead
<1>12. TopRisen(m, now) # {}
  <2> HIDE DEF a, b, c, All, Leads
  <2> QED
    BY <1>9, <1>10, <1>11
<1>13. \A g \in TopRisen(m, now) : Delta(m, now, g) >= Delta(m, now, up)
  <2> HIDE DEF All
  <2> QED
    BY <1>4, <1>5, <1>10
<1> QED
  BY <1>4, <1>5, <1>12, <1>13

\* Why a spike was found, and why it is blamed on a domain.
SpikeHolds(s) ==
    IF s.kind = "tracker" THEN Tracking(Recent(s.mac, req.now)) # {}
    ELSE PriorDays * Cardinality(Recent(s.mac, req.now)) > Cardinality(Prior(s.mac, req.now))

Explained(e) ==
    IF e[1].kind = "tracker"
    THEN \E r \in Tracking(Recent(e[1].mac, req.now)) : <<r.domain, r.cat>> = e[2]
    ELSE Delta(e[1].mac, req.now, e[2]) > 0

\* While nothing is gone, what made a spike holds until its domain is read, and what
\* explains it holds until the answer.
SpikeInv ==
    /\ req.at \notin {"idle", "spikes", "done"} => req.named = {}
    /\ req.at = "spikes" /\ ~ req.gone => \A s \in req.spikes : SpikeHolds(s)
    /\ req.at # "idle" /\ ~ req.gone => \A e \in req.named : Explained(e)

\* TrackerSpike and VolumeSpike.
LEMMA SpikedHolds ==
    ASSUME StoreInv, NEW s \in Spikes, Spiked(s, clock)
    PROVE  IF s.kind = "tracker" THEN Tracking(Recent(s.mac, clock)) # {}
           ELSE PriorDays * Cardinality(Recent(s.mac, clock)) > Cardinality(Prior(s.mac, clock))
<1> DEFINE c == Cardinality(Recent(s.mac, clock))
           ct == Cardinality(Tracking(Recent(s.mac, clock)))
           p == Cardinality(Prior(s.mac, clock))
           pt == Cardinality(Tracking(Prior(s.mac, clock)))
<1>1. c \in Nat /\ ct \in Nat /\ p \in Nat
  BY DayFinite
<1>2. pt \in Nat
  <2>1. Tracking(Prior(s.mac, clock)) \subseteq queries
    BY DEF Tracking, Prior
  <2> QED
    BY <2>1, RowsAreFinite
<1>3. CASE s.kind = "tracker"
  <2>1. c > 0 /\ IF p = 0 THEN 100 * ct > 5 * c ELSE 100 * ct * p > 100 * pt * c + 5 * c * p
    BY <1>3 DEF Spiked, TrackerSpike
  <2> HIDE DEF c, ct, p, pt
  <2>2. 100 * pt * c >= 0 /\ 5 * c * p >= 0 /\ 100 * pt * c \in Nat /\ 5 * c * p \in Nat
    <3>1. 100 * pt \in Nat /\ 5 * c \in Nat
      BY <1>1, <1>2
    <3>2. (100 * pt) * c \in Nat /\ (5 * c) * p \in Nat
      BY <1>1, <1>2, <3>1
    <3> QED
      BY <3>2
  <2>3. ct # 0
    <3> SUFFICES ASSUME ct = 0 PROVE FALSE
      OBVIOUS
    <3>1. 100 * ct = 0 /\ 100 * ct * p = 0
      BY <1>1
    <3> QED
      BY <1>1, <2>1, <2>2, <3>1
  <2>4. Tracking(Recent(s.mac, clock)) # {}
    BY <2>3, FS_EmptySet DEF ct
  <2> QED
    BY <1>3, <2>4
<1>4. CASE s.kind = "volume"
  <2>1. p > 0 /\ PriorDays * c > 3 * p
    BY <1>4 DEF Spiked, VolumeSpike
  <2>2. PriorDays * c \in Nat
    BY <1>1, ActivityAssumption DEF ActivityAssumption
  <2> HIDE DEF c, p
  <2>3. PriorDays * c > p
    BY <1>1, <2>1, <2>2
  <2> QED
    BY <1>4, <2>3 DEF c, p
<1> QED
  BY <1>3, <1>4 DEF Spikes

\* What is committed meanwhile is recent.
LEMMA NoNewPast ==
    ASSUME StoreInv, ActivityInv, RequestInv, StoreStep \/ SaveDevice \/ Tick
    PROVE  \A r \in queries' : r \in queries \/ r.ts + Day >= req.now
<1>1. \A r \in queries' : r \in queries \/ r \in batch
  BY DEF StoreStep, SaveDevice, Tick, vars, Next, Open, WriteBegin, WriteCommit, WriteFails, OtherCommit,
         PurgeBegin, Purge, PurgeSelect, PurgeDelete, PurgeCommit, PurgeFails, Crash
<1>2. ASSUME NEW r \in batch PROVE r.ts + Day >= req.now
  <2>1. r.ts \in Nat /\ r.ts + Day >= clock /\ clock \in Nat /\ req.now \in Nat /\ req.now <= clock
    BY StoreAssumption DEF StoreInv, LogInv, Rows, StoreAssumption, ActivityInv, RequestInv
  <2> QED
    BY <2>1, ActivityAssumption DEF ActivityAssumption
<1> QED
  BY <1>1, <1>2

LEMMA SpikeMeanwhile ==
    ASSUME StoreInv, StoreInv', ActivityInv, RequestInv, Meanwhile, SpikeInv,
           StoreStep \/ SaveDevice \/ Tick
    PROVE  SpikeInv'
<1>1. /\ req'.at = req.at /\ req'.named = req.named /\ req'.spikes = req.spikes /\ req'.now = req.now
  BY DEF Meanwhile, Fields
<1> SUFFICES ASSUME ~ req'.gone
             PROVE  /\ req'.at = "spikes" => \A s \in req'.spikes : SpikeHolds(s)'
                    /\ req'.at # "idle" => \A e \in req'.named : Explained(e)'
  BY <1>1 DEF SpikeInv
<1>2. ~ req.gone /\ Since(req.now) \subseteq Since(req.now)'
  BY RowsStay
<1>3. ASSUME NEW m
      PROVE  /\ Recent(m, req.now) \subseteq Recent(m, req.now)'
             /\ Tracking(Recent(m, req.now)) \subseteq Tracking(Recent(m, req.now))'
             /\ Prior(m, req.now)' \subseteq Prior(m, req.now)
  <2>1. Recent(m, req.now) \subseteq Recent(m, req.now)'
    BY <1>1, <1>2 DEF Recent, Within
  <2>2. Tracking(Recent(m, req.now)) \subseteq Tracking(Recent(m, req.now))'
    BY <2>1 DEF Tracking
  <2>3. ASSUME NEW r \in queries', r.ts + Day < req.now PROVE r \in queries
    <3>1. r \in queries \/ r.ts + Day >= req.now
      BY NoNewPast
    <3>2. r.ts \in Nat
      BY StoreAssumption DEF StoreInv, LogInv, Rows, StoreAssumption
    <3> QED
      BY <2>3, <3>1, <3>2, ActivityAssumption DEF ActivityAssumption, RequestInv
  <2>4. Prior(m, req.now)' \subseteq Prior(m, req.now)
    BY <1>1, <2>3 DEF Prior
  <2> QED
    BY <2>1, <2>2, <2>4
<1>4. ASSUME NEW m
      PROVE  /\ IsFiniteSet(Recent(m, req.now)) /\ IsFiniteSet(Recent(m, req.now)')
             /\ IsFiniteSet(Prior(m, req.now)) /\ IsFiniteSet(Prior(m, req.now)')
  <2>1. Recent(m, req.now)' \subseteq queries' /\ Prior(m, req.now)' \subseteq queries'
    BY DEF Recent, Within, Since, Prior
  <2>2. IsFiniteSet(queries')
    BY DEF StoreInv, LogInv
  <2> QED
    BY <2>1, <2>2, DayFinite, FS_Subset
<1>5. PriorDays \in Nat
  BY ActivityAssumption DEF ActivityAssumption
<1>6. ASSUME req.at = "spikes", NEW s \in req.spikes PROVE SpikeHolds(s)'
  <2>1. SpikeHolds(s)
    BY <1>2, <1>6 DEF SpikeInv
  <2> DEFINE R == Recent(s.mac, req.now)
             P == Prior(s.mac, req.now)
  <2>2. CASE s.kind = "tracker"
    BY <1>1, <1>3, <2>1, <2>2 DEF SpikeHolds
  <2>3. CASE s.kind # "tracker"
    <3>1. PriorDays * Cardinality(R) > Cardinality(P)
      BY <2>1, <2>3 DEF SpikeHolds
    <3>2. R \subseteq R' /\ P' \subseteq P /\ IsFiniteSet(R) /\ IsFiniteSet(R') /\ IsFiniteSet(P) /\ IsFiniteSet(P')
      BY <1>3, <1>4
    <3>3. PriorDays * Cardinality(R') > Cardinality(P')
      <4> HIDE DEF R, P
      <4>1. /\ Cardinality(R) <= Cardinality(R') /\ Cardinality(P') <= Cardinality(P)
            /\ Cardinality(R) \in Nat /\ Cardinality(R') \in Nat /\ Cardinality(P) \in Nat /\ Cardinality(P') \in Nat
        BY <3>2, FS_Subset, FS_CardinalityType
      <4>2. /\ PriorDays * Cardinality(R) <= PriorDays * Cardinality(R')
            /\ PriorDays * Cardinality(R) \in Nat /\ PriorDays * Cardinality(R') \in Nat
        BY <1>5, <4>1, TimesGrows
      <4> QED
        BY <3>1, <4>1, <4>2
    <3> QED
      BY <2>3, <3>3 DEF SpikeHolds
  <2> QED
    BY <2>2, <2>3
<1>7. ASSUME req.at # "idle", NEW e \in req.named PROVE Explained(e)'
  <2>1. Explained(e)
    BY <1>2, <1>7 DEF SpikeInv
  <2> DEFINE R == Recent(e[1].mac, req.now)
             P == Prior(e[1].mac, req.now)
  <2>2. CASE e[1].kind = "tracker"
    BY <1>3, <2>1, <2>2 DEF Explained
  <2>3. CASE e[1].kind # "tracker"
    <3>1. PriorDays * InGroup(R, e[2]) - InGroup(P, e[2]) > 0
      BY <2>1, <2>3 DEF Explained, Delta
    <3>2. R \subseteq R' /\ P' \subseteq P /\ IsFiniteSet(R) /\ IsFiniteSet(R') /\ IsFiniteSet(P) /\ IsFiniteSet(P')
      BY <1>3, <1>4
    <3>3. /\ InGroup(R, e[2]) <= InGroup(R', e[2]) /\ InGroup(P', e[2]) <= InGroup(P, e[2])
          /\ InGroup(R, e[2]) \in Nat /\ InGroup(R', e[2]) \in Nat
          /\ InGroup(P, e[2]) \in Nat /\ InGroup(P', e[2]) \in Nat
      <4> DEFINE Of2(S) == {r \in S : <<r.domain, r.cat>> = e[2]}
      <4>1. Of2(R) \subseteq Of2(R') /\ Of2(P') \subseteq Of2(P)
        BY <3>2
      <4>2. IsFiniteSet(Of2(R)) /\ IsFiniteSet(Of2(R')) /\ IsFiniteSet(Of2(P)) /\ IsFiniteSet(Of2(P'))
        BY <3>2, FS_Subset
      <4>3. \A S : InGroup(S, e[2]) = Cardinality(Of2(S))
        BY DEF InGroup
      <4> HIDE DEF Of2, R, P
      <4> QED
        BY <4>1, <4>2, <4>3, FS_Subset, FS_CardinalityType
    <3>4. PriorDays * InGroup(R', e[2]) - InGroup(P', e[2]) > 0
      <4> HIDE DEF R, P
      <4>1. /\ PriorDays * InGroup(R, e[2]) <= PriorDays * InGroup(R', e[2])
            /\ PriorDays * InGroup(R, e[2]) \in Nat /\ PriorDays * InGroup(R', e[2]) \in Nat
        BY <1>5, <3>3, TimesGrows
      <4> QED
        BY <3>1, <3>3, <4>1
    <3>5. Delta(e[1].mac, req.now, e[2])' = PriorDays * InGroup(R', e[2]) - InGroup(P', e[2])
      BY DEF Delta, InGroup
    <3> QED
      BY <2>3, <3>4, <3>5 DEF Explained
  <2> QED
    BY <2>2, <2>3
<1> QED
  BY <1>1, <1>6, <1>7

\* Naming a spike: what the second statement finds explains it.
LEMMA NameExplains ==
    ASSUME StoreInv, RequestInv, SpikeInv, NameSpike
    PROVE  /\ req'.now = req.now /\ req'.gone = req.gone
           /\ ~ req.gone => /\ \A e \in req'.named : Explained(e)
                            /\ \A s \in req'.spikes : SpikeHolds(s)
<1>1. PICK s \in req.spikes :
        \E g \in IF (IF s.kind = "tracker" THEN TopTracker(s.mac, req.now) ELSE TopRisen(s.mac, req.now)) = {}
                 THEN {<<0, "">>}
                 ELSE (IF s.kind = "tracker" THEN TopTracker(s.mac, req.now) ELSE TopRisen(s.mac, req.now)) :
          req' = [req EXCEPT !.at = IF req.spikes = {s} THEN "done" ELSE @,
                             !.spikes = @ \ {s}, !.named = @ \cup {<<s, g>>}]
  BY DEF NameSpike
<1> DEFINE top == IF s.kind = "tracker" THEN TopTracker(s.mac, req.now) ELSE TopRisen(s.mac, req.now)
<1>2. PICK g \in IF top = {} THEN {<<0, "">>} ELSE top :
          req' = [req EXCEPT !.at = IF req.spikes = {s} THEN "done" ELSE @,
                             !.spikes = @ \ {s}, !.named = @ \cup {<<s, g>>}]
  BY <1>1
<1> HIDE DEF top
<1>3. /\ req'.now = req.now /\ req'.gone = req.gone /\ req'.spikes = req.spikes \ {s}
      /\ req'.named = req.named \cup {<<s, g>>}
  BY <1>2 DEF RequestInv, Fields
<1>4. req.at = "spikes"
  BY DEF NameSpike
<1>5. ASSUME ~ req.gone PROVE Explained(<<s, g>>)
  <2>1. SpikeHolds(s)
    BY <1>4, <1>5 DEF SpikeInv
  <2>2. CASE s.kind = "tracker"
    <3>1. top # {} /\ \A h \in top : \E r \in Tracking(Recent(s.mac, req.now)) : <<r.domain, r.cat>> = h
      BY <2>1, <2>2, TopTrackerFound DEF SpikeHolds, top
    <3>2. \E r \in Tracking(Recent(s.mac, req.now)) : <<r.domain, r.cat>> = g
      BY <3>1
    <3> QED
      BY <2>2, <3>2 DEF Explained
  <2>3. CASE s.kind # "tracker"
    <3>1. PriorDays * Cardinality(Recent(s.mac, req.now)) > Cardinality(Prior(s.mac, req.now))
      BY <2>1, <2>3 DEF SpikeHolds
    <3>2. TopRisen(s.mac, req.now) # {} /\ \A h \in TopRisen(s.mac, req.now) : Delta(s.mac, req.now, h) > 0
      BY <3>1, TopRisenFound
    <3>3. Delta(s.mac, req.now, g) > 0
      BY <2>3, <3>2 DEF top
    <3> QED
      BY <2>3, <3>3 DEF Explained
  <2> QED
    BY <2>2, <2>3
<1> QED
  BY <1>3, <1>4, <1>5 DEF SpikeInv

LEMMA SpikesSame ==
    ASSUME UNCHANGED <<vars, clock, devices>>, req'.now = req.now
    PROVE  \A x : (SpikeHolds(x) => SpikeHolds(x)') /\ (Explained(x) => Explained(x)')
BY DEF vars, SpikeHolds, Explained, Delta, InGroup, Recent, Prior, Within, Since, Tracking

\* DeviceAnomalies: what it finds is there when it looks.
LEMMA SpikesFound ==
    ASSUME StoreInv, ActivityInv, RequestInv, SpikeInv, ReadSpikes
    PROVE  SpikeInv'
<1> DEFINE new == {s \in Spikes : s.mac \in devices /\ Spiked(s, clock)}
<1>1. /\ req'.spikes = new /\ req'.now = clock /\ req'.gone = req.gone
      /\ req'.named = req.named /\ req'.at \in {"spikes", "done"} /\ req.named = {}
  BY DEF ReadSpikes, RequestInv, Fields, SpikeInv
<1>2. UNCHANGED <<vars, clock, devices>>
  BY DEF ReadSpikes, Get
<1>3. ASSUME NEW s \in new PROVE SpikeHolds(s)'
  <2>1. IF s.kind = "tracker" THEN Tracking(Recent(s.mac, clock)) # {}
        ELSE PriorDays * Cardinality(Recent(s.mac, clock)) > Cardinality(Prior(s.mac, clock))
    BY SpikedHolds
  <2>2. /\ Recent(s.mac, req.now)' = Recent(s.mac, clock) /\ Prior(s.mac, req.now)' = Prior(s.mac, clock)
        /\ Tracking(Recent(s.mac, req.now))' = Tracking(Recent(s.mac, clock))
    BY <1>1, <1>2 DEF vars, Recent, Prior, Within, Since, Tracking
  <2> QED
    BY <2>1, <2>2 DEF SpikeHolds
<1> HIDE DEF new
<1> QED
  BY <1>1, <1>3 DEF SpikeInv

LEMMA SpikeRead ==
    ASSUME StoreInv, ActivityInv, SpikeInv, Answer
    PROVE  SpikeInv'
<1>1. RequestInv
  BY AnswerGoesOn
<1>2. CASE req' = Idle
  BY <1>2 DEF Idle, SpikeInv
<1>3. CASE ReadSpikes
  BY <1>1, <1>3, SpikesFound
<1>4. CASE NameSpike
  <2>1. UNCHANGED <<vars, clock, devices>> /\ req.at = "spikes"
    BY <1>4 DEF NameSpike, Get
  <2>2. /\ req'.now = req.now /\ req'.gone = req.gone
        /\ ~ req.gone => /\ \A e \in req'.named : Explained(e)
                         /\ \A s \in req'.spikes : SpikeHolds(s)
    BY <1>1, <1>4, NameExplains
  <2>3. req'.at \in {"done", "spikes"}
    BY <1>1, <1>4, SpikeSteps
  <2>4. ~ req.gone => /\ \A e \in req'.named : Explained(e)'
                      /\ \A s \in req'.spikes : SpikeHolds(s)'
    BY <2>1, <2>2, SpikesSame
  <2> QED
    BY <2>2, <2>3, <2>4 DEF SpikeInv
<1>5. CASE req' # Idle /\ (ReadDevices \/ ReadSources \/ ReadTotal \/ ReadSummary \/ ReadCounts \/ ReadPage
                           \/ ReadReach \/ ReadDomains)
  <2>1. req'.named = req.named
    BY <1>1, <1>5 DEF ReadDevices, ReadSources, ReadTotal, ReadSummary, ReadCounts, ReadPage, ReadReach,
                      ReadDomains, RequestInv, Fields
  <2>2. req.at \notin {"idle", "spikes", "done"} /\ req'.at # "spikes"
    BY <1>1, <1>5 DEF ReadDevices, ReadSources, ReadTotal, ReadSummary, ReadCounts, ReadPage, ReadReach,
                      ReadDomains, RequestInv, Fields
  <2>3. req'.named = {}
    BY <2>1, <2>2 DEF SpikeInv
  <2> QED
    BY <2>2, <2>3 DEF SpikeInv
<1> QED
  BY <1>2, <1>3, <1>4, <1>5 DEF Answer

LEMMA SpikeInvariant == ActivitySpec => []SpikeInv
<1>1. ActivityInit => SpikeInv
  BY DEF ActivityInit, Idle, SpikeInv
<1>2. StoreInv /\ StoreInv' /\ ActivityInv /\ SpikeInv /\ [ActivityNext]_allVars => SpikeInv'
  <2> SUFFICES ASSUME StoreInv, StoreInv', ActivityInv, SpikeInv, [ActivityNext]_allVars PROVE SpikeInv'
    OBVIOUS
  <2>1. CASE UNCHANGED allVars
    <3>1. UNCHANGED <<vars, clock, devices>> /\ req' = req
      BY <2>1 DEF allVars
    <3>2. \A x : (SpikeHolds(x) => SpikeHolds(x)') /\ (Explained(x) => Explained(x)')
      BY <3>1, SpikesSame
    <3> QED
      BY <3>1, <3>2 DEF SpikeInv
  <2>2. CASE Begin
    BY <2>2, BeginStarts DEF SpikeInv
  <2>3. CASE Answer
    BY <2>3, SpikeRead
  <2>4. CASE (StoreStep \/ SaveDevice \/ Tick) /\ Watch
    <3>1. CASE req' = Idle
      BY <3>1 DEF Idle, SpikeInv
    <3>2. CASE RequestInv /\ Meanwhile
      BY <2>4, <3>2, SpikeMeanwhile
    <3> QED
      BY <2>4, <3>1, <3>2, OthersWork
  <2> QED
    BY <2>1, <2>2, <2>3, <2>4 DEF ActivityNext
<1> QED
  BY <1>1, <1>2, StoreInvariant, ActivityInvariant, PTL DEF ActivitySpec

\* Every spike is blamed on a domain that explains it, although the domain is looked
\* for after the spike was found; what others log meanwhile cannot take it away.
THEOREM SpikesAreExplained == ActivitySpec => []SpikesExplained
<1>1. SpikeInv => SpikesExplained
  BY DEF SpikeInv, Explained, SpikesExplained
<1> QED
  BY <1>1, SpikeInvariant, PTL

-----------------------------------------------------------------------------
\* Charts

RowKey(r) == <<Bucket(r), r.mac, SourceKey(r)>>

\* A sum of counts is the number of rows counted: the function that the fold computes
\* with is the one that counts them, by its rule and by induction on the set.
LEMMA SumIs ==
    ASSUME NEW D, IsFiniteSet(D), NEW count, NEW T, IsFiniteSet(T),
           \A k \in D : count[k] = GroupCount(T, k)
    PROVE  MapThenSumSet(LAMBDA k : count[k], D) = Cardinality({r \in T : RowKey(r) \in D})
<1> DEFINE any(s) == CHOOSE x \in s : TRUE
           rule(f) == [s \in SUBSET D |-> IF s = {} THEN 0 ELSE count[any(s)] + f[s \ {any(s)}]]
           iter == CHOOSE f : f = rule(f)
           Part(s) == {r \in T : RowKey(r) \in s}
           sum == [s \in SUBSET D |-> Cardinality(Part(s))]
<1>1. MapThenSumSet(LAMBDA k : count[k], D) = iter[D]
  BY DEF MapThenSumSet, MapThenFoldSet
<1>2. ASSUME NEW s \in SUBSET D, s # {}
      PROVE  any(s) \in s /\ Cardinality(Part(s)) = count[any(s)] + Cardinality(Part(s \ {any(s)}))
  <2>1. any(s) \in s
    BY <1>2
  <2> DEFINE k == any(s)
             one == {r \in T : RowKey(r) = k}
  <2>2. count[k] = Cardinality(one)
    BY <2>1 DEF GroupCount, RowKey
  <2> HIDE DEF any, k
  <2>3. Part(s) = one \cup Part(s \ {k}) /\ one \cap Part(s \ {k}) = {}
    BY <2>1 DEF k
  <2>4. IsFiniteSet(one) /\ IsFiniteSet(Part(s \ {k}))
    BY FS_Subset
  <2> HIDE DEF one, Part
  <2>5. Cardinality(Part(s)) = Cardinality(one) + Cardinality(Part(s \ {k}))
    BY <2>3, <2>4, DisjointUnion
  <2> QED
    BY <2>1, <2>2, <2>5 DEF k
<1>3. sum = rule(sum)
  <2>1. Cardinality(Part({})) = 0
    <3>1. Part({}) = {}
      OBVIOUS
    <3> QED
      BY <3>1, FS_EmptySet
  <2> HIDE DEF any, Part
  <2>2. \A s \in SUBSET D : s \ {any(s)} \in SUBSET D
    OBVIOUS
  <2>3. \A s \in SUBSET D : sum[s] = IF s = {} THEN 0 ELSE count[any(s)] + sum[s \ {any(s)}]
    BY <1>2, <2>1, <2>2
  <2> QED
    BY <2>3
<1>4. iter = rule(iter)
  <2> HIDE DEF rule, sum
  <2> QED
    BY <1>3
<1>5. \A s \in SUBSET D : iter[s] = sum[s]
  <2> DEFINE Bad == {s \in FiniteSubsetsOf(D) : iter[s] # sum[s]}
  <2>1. Bad = {}
    <3> SUFFICES ASSUME Bad # {} PROVE FALSE
      OBVIOUS
    <3>1. Bad \subseteq FiniteSubsetsOf(D)
      OBVIOUS
    <3>2. PICK s \in Bad : \A t \in Bad : ~ (<<t, s>> \in StrictSubsetOrdering(D))
      <4> HIDE DEF Bad
      <4> QED
        BY <3>1, FS_StrictSubsetOrderingWellFounded, WFMin
    <3>3. s \in SUBSET D /\ IsFiniteSet(s)
      BY DEF FiniteSubsetsOf
    <3> HIDE DEF iter, sum
    <3>4. iter[s] = (IF s = {} THEN 0 ELSE count[any(s)] + iter[s \ {any(s)}])
      BY <1>4, <3>3
    <3>5. sum[s] = (IF s = {} THEN 0 ELSE count[any(s)] + sum[s \ {any(s)}])
      BY <1>3, <3>3
    <3>6. s # {}
      BY <3>2, <3>4, <3>5
    <3>7. any(s) \in s
      BY <3>6
    <3> HIDE DEF any
    <3>8. s \ {any(s)} \in SUBSET D /\ IsFiniteSet(s \ {any(s)})
      BY <3>3, FS_Subset
    <3>9. s \ {any(s)} \notin Bad
      <4>1. <<s \ {any(s)}, s>> \in StrictSubsetOrdering(D)
        BY <3>3, <3>7, <3>8 DEF StrictSubsetOrdering
      <4> HIDE DEF Bad
      <4> QED
        BY <3>2, <4>1
    <3>10. iter[s \ {any(s)}] = sum[s \ {any(s)}]
      BY <3>8, <3>9 DEF FiniteSubsetsOf
    <3>11. iter[s] # sum[s]
      BY <3>2
    <3> QED
      BY <3>4, <3>5, <3>10, <3>11
  <2> HIDE DEF iter, sum
  <2> QED
    BY <2>1, FS_FiniteSubsetsOfFinite
<1>6. D \in SUBSET D /\ sum[D] = Cardinality(Part(D))
  OBVIOUS
<1> HIDE DEF iter, sum
<1> QED
  BY <1>1, <1>5, <1>6

LEMMA Quotient ==
    ASSUME NEW d \in Nat \ {0}, NEW p \in Nat, NEW r \in Nat, r < d
    PROVE  (d * p + r) \div d = p
<1> DEFINE a == d * p + r
           e == a \div d
           u == a % d
<1>1. a \in Nat
  OBVIOUS
<1>2. a = d * e + u /\ u \in Nat /\ u < d /\ e \in Nat
  BY <1>1
<1> HIDE DEF e, u
<1>3. d * p + r = d * e + u
  BY <1>2
<1>4. ASSUME e < p PROVE FALSE
  <2>1. PICK n \in Nat : p = e + 1 + n
    <3>1. p - e - 1 \in Nat /\ p = e + 1 + (p - e - 1)
      BY <1>2, <1>4
    <3> QED
      BY <3>1
  <2>2. d * p = d * e + d + d * n /\ d * n \in Nat /\ d * e \in Nat
    BY <1>2, <2>1
  <2> QED
    BY <1>2, <1>3, <2>2
<1>5. ASSUME p < e PROVE FALSE
  <2>1. PICK n \in Nat : e = p + 1 + n
    <3>1. e - p - 1 \in Nat /\ e = p + 1 + (e - p - 1)
      BY <1>2, <1>5
    <3> QED
      BY <3>1
  <2>2. d * e = d * p + d + d * n /\ d * n \in Nat /\ d * p \in Nat
    BY <1>2, <2>1
  <2> QED
    BY <1>2, <1>3, <2>2
<1> QED
  BY <1>2, <1>4, <1>5 DEF e

\* An hour lies in one day.
LEMMA DayOfHour ==
    ASSUME NEW t \in Nat
    PROVE  ((t \div Hour) * Hour) \div Day = t \div Day /\ t \div Hour \in Nat /\ t \div Day \in Nat
<1>1. Hour \in Nat \ {0} /\ Day \in Nat \ {0} /\ Day % Hour = 0
  BY StoreAssumption, ActivityAssumption DEF StoreAssumption, ActivityAssumption
<1> DEFINE m == Day \div Hour
           q == t \div Hour
           s == t % Hour
           p == q \div m
           u == q % m
<1>2. Day = Hour * m /\ m \in Nat
  BY <1>1
<1>3. m # 0
  BY <1>1, <1>2
<1>4. t = Hour * q + s /\ s \in Nat /\ s < Hour /\ q \in Nat
  BY <1>1
<1>5. q = m * p + u /\ u \in Nat /\ u < m /\ p \in Nat
  <2> HIDE DEF q, m
  <2> QED
    BY <1>2, <1>3, <1>4
<1> HIDE DEF m, q, s, p, u
<1>6. Hour * q = Day * p + Hour * u
  <2>1. Hour * q = Hour * (m * p) + Hour * u
    BY <1>1, <1>2, <1>5
  <2>2. Hour * (m * p) = (Hour * m) * p
    BY <1>1, <1>2, <1>5
  <2> QED
    BY <1>2, <2>1, <2>2
<1>7. Hour * u + s \in Nat /\ Hour * u \in Nat /\ Hour * u + Hour <= Day
  <2>1. PICK n \in Nat : m = u + 1 + n
    <3>1. m - u - 1 \in Nat /\ m = u + 1 + (m - u - 1)
      BY <1>2, <1>5
    <3> QED
      BY <3>1
  <2>2. Hour * m = Hour * u + Hour + Hour * n /\ Hour * n \in Nat /\ Hour * u \in Nat
    BY <1>1, <1>5, <2>1
  <2> QED
    BY <1>1, <1>2, <1>4, <2>2
<1>8. Hour * u < Day /\ Hour * u + s < Day
  BY <1>1, <1>4, <1>7
<1>9. (Day * p + Hour * u) \div Day = p
  BY <1>1, <1>5, <1>7, <1>8, Quotient
<1>10. (Day * p + (Hour * u + s)) \div Day = p
  BY <1>1, <1>5, <1>7, <1>8, Quotient
<1>11. t = Day * p + (Hour * u + s)
  <2>1. Day * p \in Nat
    BY <1>1, <1>5
  <2> QED
    BY <1>4, <1>6, <1>7, <2>1
<1>12. q * Hour = Day * p + Hour * u
  BY <1>1, <1>4, <1>6
<1> QED
  BY <1>4, <1>5, <1>9, <1>10, <1>11, <1>12 DEF q

LEMMA KeysFinite == IsFiniteSet(Keys)
<1> DEFINE A == {t \div Hour : t \in Times}
           B == Macs \cup {NoMac}
           C == Ips \cup {NoIp}
           AB == A \X B
           tuple == [p \in AB \X C |-> <<p[1][1], p[1][2], p[2]>>]
<1>1. IsFiniteSet(A)
  <2>1. [t \in Times |-> t \div Hour] \in Surjection(Times, A)
    BY DEF Surjection
  <2> QED
    BY <2>1, ActivityAssumption, FS_Surjection DEF ActivityAssumption
<1>2. IsFiniteSet(B) /\ IsFiniteSet(C)
  BY ActivityAssumption, FS_AddElement DEF ActivityAssumption
<1> HIDE DEF A, B, C
<1>3. IsFiniteSet(AB)
  BY <1>1, <1>2, FS_Product
<1>4. IsFiniteSet(AB \X C)
  <2> HIDE DEF AB
  <2> QED
    BY <1>2, <1>3, FS_Product
<1>5. Keys = A \X B \X C
  BY DEF Keys, A, B, C
<1>6. tuple \in [AB \X C -> Keys]
  BY <1>5
<1>7. \A k \in Keys : \E p \in AB \X C : tuple[p] = k
  <2> SUFFICES ASSUME NEW k \in Keys PROVE \E p \in AB \X C : tuple[p] = k
    OBVIOUS
  <2>1. PICK x \in A, y \in B, z \in C : k = <<x, y, z>>
    BY <1>5
  <2>2. <<<<x, y>>, z>> \in AB \X C /\ tuple[<<<<x, y>>, z>>] = <<x, y, z>>
    OBVIOUS
  <2> QED
    BY <2>1, <2>2
<1>8. tuple \in Surjection(AB \X C, Keys)
  <2> HIDE DEF tuple, AB
  <2> QED
    BY <1>6, <1>7 DEF Surjection
<1> HIDE DEF tuple
<1> QED
  BY <1>4, <1>8, FS_Surjection

\* A row is counted under its hour and its actor.
LEMMA RowKeyIs ==
    ASSUME NEW r \in Rows(Nat), NEW a \in Actors \cup {Network}
    PROVE  /\ RowKey(r) \in Keys /\ RowKey(r)[1] = r.ts \div Hour
           /\ Of(a, [mac |-> RowKey(r)[2], ip |-> RowKey(r)[3]]) <=> Of(a, r)
           /\ r.ts \in Nat
<1>1. /\ r.ts \in Times /\ r.mac \in Macs \cup {NoMac} /\ r.ip \in Ips
  BY DEF Rows
<1>2. /\ RowKey(r)[1] = r.ts \div Hour /\ RowKey(r)[2] = r.mac /\ RowKey(r)[3] = SourceKey(r)
  BY DEF RowKey, Bucket
<1>3. SourceKey(r) \in Ips \cup {NoIp} /\ (r.mac = NoMac => SourceKey(r) = r.ip)
  BY <1>1 DEF SourceKey
<1>4. RowKey(r) \in Keys
  BY <1>1, <1>3 DEF RowKey, Keys, Bucket
<1>5. CASE a = Network
  BY <1>5, <1>1, <1>2, <1>4, StoreAssumption DEF Of, Network, StoreAssumption
<1>6. CASE \E m \in Macs : a = Device(m)
  <2>1. Of(a, [mac |-> RowKey(r)[2], ip |-> RowKey(r)[3]]) <=> Of(a, r)
    BY <1>6, <1>2 DEF Of, Device
  <2> QED
    BY <1>1, <1>2, <1>4, <2>1, StoreAssumption DEF StoreAssumption
<1>7. CASE \E i \in Ips : a = Source(i)
  <2>1. Of(a, [mac |-> RowKey(r)[2], ip |-> RowKey(r)[3]]) <=> Of(a, r)
    BY <1>7, <1>2, <1>3 DEF Of, Source
  <2> QED
    BY <1>1, <1>2, <1>4, <2>1, StoreAssumption DEF StoreAssumption
<1> QED
  BY <1>5, <1>6, <1>7 DEF Actors

\* What a chart sums up in some hours is what the log has in them.
LEMMA CountedIs ==
    ASSUME NEW T, IsFiniteSet(T), T \subseteq Rows(Nat), NEW count,
           \A k \in Keys : count[k] = GroupCount(T, k),
           NEW a \in Actors \cup {Network}, NEW buckets
    PROVE  Counted(count, a, buckets) = Cardinality({r \in T : Of(a, r) /\ r.ts \div Hour \in buckets})
<1> DEFINE D == {k \in Keys : k[1] \in buckets /\ Of(a, [mac |-> k[2], ip |-> k[3]])}
<1>1. IsFiniteSet(D) /\ D \subseteq Keys
  BY KeysFinite, FS_Subset
<1>2. {r \in T : RowKey(r) \in D} = {r \in T : Of(a, r) /\ r.ts \div Hour \in buckets}
  <2>1. ASSUME NEW r \in T PROVE RowKey(r) \in D <=> Of(a, r) /\ r.ts \div Hour \in buckets
    <3>1. /\ RowKey(r) \in Keys /\ RowKey(r)[1] = r.ts \div Hour
          /\ Of(a, [mac |-> RowKey(r)[2], ip |-> RowKey(r)[3]]) <=> Of(a, r)
      BY RowKeyIs
    <3> QED
      BY <3>1
  <2> HIDE DEF D
  <2> QED
    BY <2>1
<1>3. MapThenSumSet(LAMBDA k : count[k], D) = Cardinality({r \in T : RowKey(r) \in D})
  <2>1. \A k \in D : count[k] = GroupCount(T, k)
    BY <1>1
  <2> HIDE DEF D
  <2> QED
    BY <1>1, <2>1, SumIs
<1>4. Counted(count, a, buckets) = MapThenSumSet(LAMBDA k : count[k], D)
  BY DEF Counted
<1> HIDE DEF D
<1> QED
  BY <1>2, <1>3, <1>4

\* The charts of hours and of days, from counts that are those of the rows T.
LEMMA ChartsAre ==
    ASSUME NEW T, IsFiniteSet(T), T \subseteq Rows(Nat), NEW count,
           \A k \in Keys : count[k] = GroupCount(T, k),
           NEW a \in Actors \cup {Network}, clock \in Nat
    PROVE  /\ \A i \in 1..Day \div Hour :
                HourChart(count, a)[i]
                  = Cardinality({r \in T : Of(a, r) /\ clock \div Hour - r.ts \div Hour = Day \div Hour - i})
           /\ \A i \in 1..DayBuckets :
                DayChart(count, a)[i]
                  = Cardinality({r \in T : Of(a, r) /\ clock \div Day - r.ts \div Day = DayBuckets - i})
<1>0. /\ Hour \in Nat \ {0} /\ Day \in Nat \ {0} /\ DayBuckets \in Nat /\ Day \div Hour \in Nat
      /\ clock \div Hour \in Nat /\ clock \div Day \in Nat
  BY StoreAssumption, ActivityAssumption DEF StoreAssumption, ActivityAssumption
<1>1. \A r \in T : /\ r.ts \in Nat /\ RowKey(r) \in Keys /\ RowKey(r)[1] = r.ts \div Hour
                   /\ r.ts \div Hour \in Nat /\ r.ts \div Day \in Nat
                   /\ ((r.ts \div Hour) * Hour) \div Day = r.ts \div Day
  BY RowKeyIs, DayOfHour
<1>2. ASSUME NEW i \in 1..Day \div Hour
      PROVE  HourChart(count, a)[i]
               = Cardinality({r \in T : Of(a, r) /\ clock \div Hour - r.ts \div Hour = Day \div Hour - i})
  <2> DEFINE b == clock \div Hour - OldestHour + i - 1
  <2>1. HourChart(count, a)[i] = Counted(count, a, {b})
    BY DEF HourChart
  <2>2. b = clock \div Hour - (Day \div Hour - i)
    BY <1>0 DEF OldestHour
  <2>3. \A r \in T : r.ts \div Hour \in {b} <=> clock \div Hour - r.ts \div Hour = Day \div Hour - i
    BY <1>0, <1>1, <2>2
  <2> HIDE DEF b
  <2>4. {r \in T : Of(a, r) /\ r.ts \div Hour \in {b}}
          = {r \in T : Of(a, r) /\ clock \div Hour - r.ts \div Hour = Day \div Hour - i}
    BY <2>3
  <2> QED
    BY <2>1, <2>4, CountedIs
<1>3. ASSUME NEW i \in 1..DayBuckets
      PROVE  DayChart(count, a)[i]
               = Cardinality({r \in T : Of(a, r) /\ clock \div Day - r.ts \div Day = DayBuckets - i})
  <2> DEFINE B == {b \in {k[1] : k \in Keys} : (b * Hour) \div Day = clock \div Day - DayBuckets + i}
  <2>1. DayChart(count, a)[i] = Counted(count, a, B)
    BY DEF DayChart
  <2>2. ASSUME NEW r \in T
        PROVE  r.ts \div Hour \in B <=> clock \div Day - r.ts \div Day = DayBuckets - i
    <3>1. r.ts \div Hour \in {k[1] : k \in Keys}
      BY <1>1
    <3>2. ((r.ts \div Hour) * Hour) \div Day = r.ts \div Day /\ r.ts \div Day \in Nat
      BY <1>1
    <3>3. r.ts \div Day = clock \div Day - DayBuckets + i <=> clock \div Day - r.ts \div Day = DayBuckets - i
      BY <1>0, <3>2
    <3> QED
      BY <3>1, <3>2, <3>3
  <2> HIDE DEF B
  <2>4. {r \in T : Of(a, r) /\ r.ts \div Hour \in B}
          = {r \in T : Of(a, r) /\ clock \div Day - r.ts \div Day = DayBuckets - i}
    BY <2>2
  <2>5. Counted(count, a, B) = Cardinality({r \in T : Of(a, r) /\ r.ts \div Hour \in B})
    BY CountedIs
  <2> QED
    BY <2>1, <2>4, <2>5
<1> QED
  BY <1>2, <1>3

\* The charts show the log, every row in the bucket of its hour and of its day, for
\* every device, every source and the network, at any time.
THEOREM ChartsAgreeWithLog == ActivitySpec => []ChartsShowTheLog
<1>1. StoreInv /\ ActivityInv => ChartsShowTheLog
  <2> SUFFICES ASSUME StoreInv, ActivityInv, opened, NEW a \in Actors \cup {Network}
               PROVE  LET S == {r \in queries : Of(a, r)}
                          Hours(T, i) == Cardinality({r \in T : clock \div Hour - r.ts \div Hour = Day \div Hour - i})
                          Days(T, i) == Cardinality({r \in T : clock \div Day - r.ts \div Day = DayBuckets - i})
                      IN /\ \A i \in 1..Day \div Hour : /\ HourChart(total, a)[i] = Hours(S, i)
                                                        /\ HourChart(tracker, a)[i] = Hours(Tracking(S), i)
                         /\ \A i \in 1..DayBuckets : /\ DayChart(total, a)[i] = Days(S, i)
                                                     /\ DayChart(tracker, a)[i] = Days(Tracking(S), i)
    BY DEF ChartsShowTheLog
  <2>1. /\ \A k \in Keys : total[k] = GroupCount(queries, k)
        /\ \A k \in Keys : tracker[k] = GroupCount(Tracking(queries), k)
        /\ IsFiniteSet(queries) /\ queries \subseteq Rows(Nat) /\ clock \in Nat
    BY DEF StoreInv, CountsInv, Counts, LogInv, ActivityInv
  <2>2. IsFiniteSet(Tracking(queries)) /\ Tracking(queries) \subseteq Rows(Nat)
    BY <2>1, RowsAreFinite DEF Tracking
  <2> DEFINE InHour(r, i) == clock \div Hour - r.ts \div Hour = Day \div Hour - i
             InDay(r, i) == clock \div Day - r.ts \div Day = DayBuckets - i
             S == {r \in queries : Of(a, r)}
  <2>3. /\ \A i \in 1..Day \div Hour : HourChart(total, a)[i] = Cardinality({r \in queries : Of(a, r) /\ InHour(r, i)})
        /\ \A i \in 1..DayBuckets : DayChart(total, a)[i] = Cardinality({r \in queries : Of(a, r) /\ InDay(r, i)})
    BY <2>1, ChartsAre
  <2>4. /\ \A i \in 1..Day \div Hour :
             HourChart(tracker, a)[i] = Cardinality({r \in Tracking(queries) : Of(a, r) /\ InHour(r, i)})
        /\ \A i \in 1..DayBuckets :
             DayChart(tracker, a)[i] = Cardinality({r \in Tracking(queries) : Of(a, r) /\ InDay(r, i)})
    BY <2>1, <2>2, ChartsAre
  <2> HIDE DEF InHour, InDay
  <2>5. \A i : /\ {r \in queries : Of(a, r) /\ InHour(r, i)} = {r \in S : InHour(r, i)}
               /\ {r \in queries : Of(a, r) /\ InDay(r, i)} = {r \in S : InDay(r, i)}
               /\ {r \in Tracking(queries) : Of(a, r) /\ InHour(r, i)} = {r \in Tracking(S) : InHour(r, i)}
               /\ {r \in Tracking(queries) : Of(a, r) /\ InDay(r, i)} = {r \in Tracking(S) : InDay(r, i)}
    BY DEF Tracking
  <2> HIDE DEF S
  <2>6. /\ \A i \in 1..Day \div Hour : /\ HourChart(total, a)[i] = Cardinality({r \in S : InHour(r, i)})
                                       /\ HourChart(tracker, a)[i] = Cardinality({r \in Tracking(S) : InHour(r, i)})
        /\ \A i \in 1..DayBuckets : /\ DayChart(total, a)[i] = Cardinality({r \in S : InDay(r, i)})
                                    /\ DayChart(tracker, a)[i] = Cardinality({r \in Tracking(S) : InDay(r, i)})
    BY <2>3, <2>4, <2>5
  <2> QED
    BY <2>6 DEF InHour, InDay, S
<1> QED
  BY <1>1, StoreInvariant, ActivityInvariant, PTL

-----------------------------------------------------------------------------
\* The page of domains

\* s is the ORDER BY of some of the domains.
IsOrdered(S, W, s) ==
    /\ s \in [1..Cardinality(W) -> W]
    /\ \A i, j \in 1..Cardinality(W) : i < j => Before(S, s[i], s[j])

LEMMA CountsOfDomains ==
    ASSUME NEW S, IsFiniteSet(S), NEW d
    PROVE  CountOf(S, d) \in Nat /\ CountOf(S, d) <= Cardinality(S) /\ Cardinality(S) \in Nat
BY FS_Subset, FS_CardinalityType DEF CountOf

\* Of any domains one comes first.
LEMMA FirstDomain ==
    ASSUME NEW S, IsFiniteSet(S), NEW W \in SUBSET Nat, W # {}
    PROVE  \E m \in W : \A d \in W \ {m} : Before(S, m, d)
<1> DEFINE a == [d \in W |-> CountOf(S, d)]
           b == [d \in W |-> 0]
           c == [d \in W |-> d]
<1>1. \A d \in W : CountOf(S, d) \in Nat /\ CountOf(S, d) <= Cardinality(S) /\ Cardinality(S) \in Nat
  BY CountsOfDomains
<1>2. Cardinality(S) \in Nat
  BY FS_CardinalityType
<1>3. a \in [W -> Nat] /\ b \in [W -> Nat] /\ c \in [W -> Nat]
  BY <1>1
<1>4. AtMost(a, W, Cardinality(S)) /\ AtMost(b, W, Cardinality(S))
  BY <1>1, <1>2 DEF AtMost
<1>5. \A g, h \in W : a[g] = CountOf(S, g) /\ a[h] = CountOf(S, h) /\ b[g] = b[h] /\ c[g] = g /\ c[h] = h
                      /\ b[g] = 0
  OBVIOUS
<1> HIDE DEF a, b, c
<1>6. PICK g \in W : \A h \in W : Ahead(a, b, c, g, h)
  BY <1>2, <1>3, <1>4, LeaderExists
<1>7. \A h \in W \ {g} : Before(S, g, h)
  <2> SUFFICES ASSUME NEW h \in W, h # g PROVE Before(S, g, h)
    OBVIOUS
  <2>1. Ahead(a, b, c, g, h)
    BY <1>6
  <2>2. CountOf(S, g) > CountOf(S, h) \/ (CountOf(S, g) = CountOf(S, h) /\ g <= h)
    BY <1>5, <2>1 DEF Ahead
  <2> QED
    BY <2>2 DEF Before
<1> QED
  BY <1>7

\* So the ORDER BY of a finite set exists: the first, and the others in their order.
LEMMA OrderExists ==
    ASSUME NEW S, IsFiniteSet(S), NEW D \in SUBSET Nat, IsFiniteSet(D)
    PROVE  \E s : IsOrdered(S, D, s)
<1> DEFINE Bad == {W \in FiniteSubsetsOf(D) : ~ \E s : IsOrdered(S, W, s)}
<1>1. Bad = {}
  <2> SUFFICES ASSUME Bad # {} PROVE FALSE
    OBVIOUS
  <2>1. Bad \subseteq FiniteSubsetsOf(D)
    OBVIOUS
  <2>2. PICK W \in Bad : \A J \in Bad : ~ (<<J, W>> \in StrictSubsetOrdering(D))
    <3> HIDE DEF Bad
    <3> QED
      BY <2>1, FS_StrictSubsetOrderingWellFounded, WFMin
  <2>3. W \subseteq D /\ IsFiniteSet(W) /\ ~ \E s : IsOrdered(S, W, s)
    BY DEF FiniteSubsetsOf
  <2>4. W # {}
    <3> SUFFICES ASSUME W = {} PROVE FALSE
      OBVIOUS
    <3>1. Cardinality(W) = 0
      BY FS_EmptySet
    <3>2. IsOrdered(S, W, [i \in 1..Cardinality(W) |-> i])
      BY <3>1 DEF IsOrdered
    <3> QED
      BY <2>3, <3>2
  <2>5. PICK m \in W : \A d \in W \ {m} : Before(S, m, d)
    BY <2>3, <2>4, FirstDomain
  <2> DEFINE J == W \ {m}
             n == Cardinality(W)
  <2>6. J \subseteq D /\ IsFiniteSet(J) /\ J \subseteq W /\ J # W /\ n \in Nat \ {0} /\ Cardinality(J) = n - 1
    <3>1. IsFiniteSet(J) /\ Cardinality(J) = n - 1 /\ n \in Nat /\ Cardinality(J) \in Nat
      BY <2>3, <2>5, FS_RemoveElement, FS_CardinalityType
    <3> QED
      BY <2>3, <2>5, <3>1
  <2>7. J \notin Bad
    <3>1. <<J, W>> \in StrictSubsetOrdering(D)
      BY <2>3, <2>6 DEF StrictSubsetOrdering
    <3> HIDE DEF Bad, J
    <3> QED
      BY <2>2, <3>1
  <2>8. PICK s : IsOrdered(S, J, s)
    BY <2>6, <2>7 DEF FiniteSubsetsOf
  <2> DEFINE t == [i \in 1..n |-> IF i = 1 THEN m ELSE s[i - 1]]
  <2>9. s \in [1..(n - 1) -> J] /\ \A i, j \in 1..(n - 1) : i < j => Before(S, s[i], s[j])
    BY <2>6, <2>8 DEF IsOrdered
  <2>10. \A i \in 1..n : i # 1 => i - 1 \in 1..(n - 1) /\ s[i - 1] \in J
    BY <2>6, <2>9
  <2>11. t \in [1..n -> W]
    BY <2>10
  <2>12. ASSUME NEW i \in 1..n, NEW j \in 1..n, i < j PROVE Before(S, t[i], t[j])
    <3>1. t[j] = s[j - 1] /\ j - 1 \in 1..(n - 1) /\ s[j - 1] \in J
      BY <2>6, <2>10, <2>12
    <3>2. CASE i = 1
      BY <2>5, <3>1, <3>2
    <3>3. CASE i # 1
      <4>1. t[i] = s[i - 1] /\ i - 1 \in 1..(n - 1) /\ i - 1 < j - 1
        BY <2>6, <2>10, <2>12, <3>3
      <4> QED
        BY <2>9, <3>1, <4>1
    <3> QED
      BY <3>2, <3>3
  <2>13. IsOrdered(S, W, t)
    <3> HIDE DEF t
    <3> QED
      BY <2>11, <2>12 DEF IsOrdered
  <2> QED
    BY <2>3, <2>13
<1>2. D \in FiniteSubsetsOf(D)
  BY DEF FiniteSubsetsOf
<1> QED
  BY <1>1, <1>2

DomainsFinite(S) == IsFiniteSet(S) /\ DomainsOf(S) \subseteq Nat

LEMMA DomainsAre ==
    ASSUME NEW S, DomainsFinite(S)
    PROVE  /\ IsFiniteSet(DomainsOf(S)) /\ Cardinality(DomainsOf(S)) \in Nat
           /\ Ordered(S) \in [1..Cardinality(DomainsOf(S)) -> DomainsOf(S)]
           /\ \A i, j \in 1..Cardinality(DomainsOf(S)) : i < j => Before(S, Ordered(S)[i], Ordered(S)[j])
<1> DEFINE D == DomainsOf(S)
<1>1. [r \in S |-> r.domain] \in Surjection(S, D)
  BY DEF Surjection, DomainsOf
<1> HIDE DEF D
<1>2. IsFiniteSet(D) /\ Cardinality(D) \in Nat
  BY <1>1, FS_Surjection, FS_CardinalityType DEF DomainsFinite
<1>3. PICK s : IsOrdered(S, D, s)
  BY <1>2, OrderExists DEF DomainsFinite, D
<1>4. s \in [1..Cardinality(D) -> D] /\ \A i, j \in DOMAIN s : i < j => Before(S, s[i], s[j])
  BY <1>3 DEF IsOrdered
<1>5. /\ Ordered(S) \in [1..Cardinality(D) -> D]
      /\ \A i, j \in DOMAIN Ordered(S) : i < j => Before(S, Ordered(S)[i], Ordered(S)[j])
  BY <1>4 DEF Ordered, D
<1> QED
  BY <1>2, <1>5 DEF D

RankOf(S, d) == 1 + Cardinality({e \in DomainsOf(S) : Before(S, e, d)})

\* Each domain is at the place of its rank.
LEMMA PlaceIsRank ==
    ASSUME NEW S, DomainsFinite(S)
    PROVE  /\ \A d \in DomainsOf(S) : \E i \in 1..Cardinality(DomainsOf(S)) : Ordered(S)[i] = d
           /\ \A i \in 1..Cardinality(DomainsOf(S)) : RankOf(S, Ordered(S)[i]) = i
<1> DEFINE D == DomainsOf(S)
           n == Cardinality(D)
           s == Ordered(S)
<1>1. /\ IsFiniteSet(D) /\ n \in Nat /\ s \in [1..n -> D]
      /\ \A i, j \in 1..n : i < j => Before(S, s[i], s[j])
  BY DomainsAre
<1>2. \A d, e : d \in D /\ e \in D /\ Before(S, d, e) => ~ Before(S, e, d) /\ d # e
  <2> SUFFICES ASSUME NEW d \in D, NEW e \in D, Before(S, d, e) PROVE ~ Before(S, e, d) /\ d # e
    OBVIOUS
  <2>1. d \in Nat /\ e \in Nat /\ CountOf(S, d) \in Nat /\ CountOf(S, e) \in Nat
    BY CountsOfDomains DEF DomainsFinite
  <2> QED
    BY <2>1 DEF Before
<1> HIDE DEF D, n, s
<1>3. \A i, j \in 1..n : Before(S, s[i], s[j]) <=> i < j
  <2> SUFFICES ASSUME NEW i \in 1..n, NEW j \in 1..n, Before(S, s[i], s[j]) PROVE i < j
    BY <1>1
  <2>1. s[i] \in D /\ s[j] \in D
    BY <1>1
  <2>2. ~ (j < i) /\ i # j
    BY <1>1, <1>2, <2>1
  <2> QED
    BY <2>2
<1>4. s \in Injection(1..n, D)
  <2> SUFFICES ASSUME NEW i \in 1..n, NEW j \in 1..n, s[i] = s[j] PROVE i = j
    BY <1>1 DEF Injection, IsInjective
  <2>1. s[i] \in D /\ s[j] \in D
    BY <1>1
  <2>2. ~ (j < i) /\ ~ (i < j)
    BY <1>1, <1>2, <2>1
  <2> QED
    BY <2>2
<1>5. s \in Surjection(1..n, D)
  <2>1. Cardinality(1..n) = n
    BY <1>1, FS_Interval
  <2> QED
    BY <1>1, <1>4, <2>1, FS_Injection DEF n
<1>6. \A d \in D : \E i \in 1..n : s[i] = d
  BY <1>5 DEF Surjection
<1>7. ASSUME NEW i \in 1..n PROVE Cardinality({e \in D : Before(S, e, s[i])}) = i - 1
  <2> DEFINE A == 1 .. (i - 1)
             E == {e \in D : Before(S, e, s[i])}
             f == [j \in A |-> s[j]]
  <2>1. A \subseteq 1..n /\ IsFiniteSet(A) /\ Cardinality(A) = i - 1
    <3>1. i - 1 \in Int /\ 1 \in Int /\ (1 > i - 1 => i - 1 = 0)
      BY <1>1
    <3>2. IsFiniteSet(1 .. (i - 1)) /\ Cardinality(1 .. (i - 1)) = IF 1 > i - 1 THEN 0 ELSE (i - 1) - 1 + 1
      BY <3>1, FS_Interval
    <3> QED
      BY <1>1, <3>1, <3>2
  <2>2. f \in [A -> E]
    <3> SUFFICES ASSUME NEW j \in A PROVE s[j] \in E
      OBVIOUS
    <3> QED
      BY <1>1, <1>3, <2>1
  <2>3. \A e \in E : \E j \in A : f[j] = e
    <3> SUFFICES ASSUME NEW e \in E PROVE \E j \in A : f[j] = e
      OBVIOUS
    <3>1. PICK j \in 1..n : s[j] = e
      BY <1>6
    <3>2. j < i /\ j \in A
      BY <1>3, <3>1
    <3> QED
      BY <3>1, <3>2
  <2>4. f \in Surjection(A, E)
    BY <2>2, <2>3 DEF Surjection
  <2>5. f \in Injection(A, E)
    BY <1>4, <2>1, <2>2 DEF Injection, IsInjective
  <2> HIDE DEF A, f, E
  <2>6. Cardinality(E) = Cardinality(A)
    BY <2>1, <2>4, <2>5, FS_Surjection
  <2> QED
    BY <2>1, <2>6 DEF E
<1>8. ASSUME NEW i \in 1..n PROVE RankOf(S, s[i]) = i
  BY <1>7 DEF RankOf, D
<1> QED
  BY <1>6, <1>8 DEF D, n, s

IsPage(S, lo, hi, rows) ==
    /\ rows \in Seq(DomainsOf(S)) /\ Len(Ordered(S)) = Cardinality(DomainsOf(S))
    /\ Len(rows) = IF lo <= hi THEN hi - lo + 1 ELSE 0
    /\ {rows[i] : i \in 1..Len(rows)} = {d \in DomainsOf(S) : RankOf(S, d) \in lo..hi}

\* The statement of a page returns the domains of these ranks.
LEMMA PageIs ==
    ASSUME NEW S, DomainsFinite(S), NEW lo \in Nat \ {0}, NEW hi \in Nat, hi <= Cardinality(DomainsOf(S))
    PROVE  IsPage(S, lo, hi, SubSeq(Ordered(S), lo, hi))
<1> DEFINE D == DomainsOf(S)
           n == Cardinality(D)
           s == Ordered(S)
           rows == SubSeq(s, lo, hi)
<1>1. n \in Nat /\ s \in [1..n -> D]
  BY DomainsAre
<1>2. \A d \in D : \E i \in 1..n : s[i] = d
  BY PlaceIsRank
<1>3. \A i \in 1..n : RankOf(S, s[i]) = i
  BY PlaceIsRank
<1>4. hi <= n
  OBVIOUS
<1> HIDE DEF D, n, s
<1>5. s \in Seq(D) /\ Len(s) = n
  BY <1>1
<1>6. rows = [i \in 1..(IF lo <= hi THEN hi - lo + 1 ELSE 0) |-> s[lo + i - 1]]
  BY <1>1, <1>4, <1>5
<1>7. \A i \in 1..(IF lo <= hi THEN hi - lo + 1 ELSE 0) : lo + i - 1 \in 1..n /\ lo + i - 1 \in lo..hi
  BY <1>1, <1>4
<1> HIDE DEF rows
<1>8. rows \in [1..(IF lo <= hi THEN hi - lo + 1 ELSE 0) -> D]
  BY <1>1, <1>6, <1>7
<1>9. rows \in Seq(D) /\ Len(rows) = IF lo <= hi THEN hi - lo + 1 ELSE 0
  BY <1>8
<1>10. ASSUME NEW d \in D, RankOf(S, d) \in lo..hi PROVE d \in {rows[i] : i \in 1..Len(rows)}
  <2>1. PICK j \in 1..n : s[j] = d
    BY <1>2
  <2>2. j \in lo..hi
    BY <1>3, <1>10, <2>1
  <2>3. j - lo + 1 \in 1..Len(rows) /\ rows[j - lo + 1] = d
    BY <1>6, <1>9, <2>1, <2>2
  <2> QED
    BY <2>3
<1>11. ASSUME NEW i \in 1..Len(rows) PROVE rows[i] \in D /\ RankOf(S, rows[i]) \in lo..hi
  <2>1. rows[i] = s[lo + i - 1] /\ lo + i - 1 \in 1..n /\ lo + i - 1 \in lo..hi
    BY <1>6, <1>7, <1>9
  <2> QED
    BY <1>1, <1>3, <2>1
<1> QED
  <2>1. {rows[i] : i \in 1..Len(rows)} = {d \in D : RankOf(S, d) \in lo..hi}
    BY <1>10, <1>11
  <2> QED
    BY <1>5, <1>9, <2>1 DEF D, n, s, rows, IsPage

\* makeDetailDomainPagination: the page that is shown exists, and its caption is where
\* the statement begins and ends if there are as many domains as were counted.
LEMMA PaginationIs ==
    ASSUME NEW q \in Nat \ {0}, NEW n \in Nat
    PROVE  LET p == Pagination(q, n)
           IN /\ Offset(p) \in Nat
              /\ p \in [page : Nat \ {0}, first : Nat, last : Nat]
              /\ n = 0 => p.first = 0 /\ p.last = 0
              /\ n > 0 => /\ p.first = Offset(p) + 1
                          /\ p.last = IF Offset(p) + PageSize > n THEN n ELSE Offset(p) + PageSize
<1> DEFINE pageCount == IF n > 0 THEN (n + PageSize - 1) \div PageSize ELSE 1
           page == IF q > pageCount THEN pageCount ELSE q
<1>1. PageSize \in Nat \ {0}
  BY ActivityAssumption DEF ActivityAssumption
<1>2. pageCount \in Nat \ {0}
  <2>1. CASE n > 0
    <3> DEFINE a == n + PageSize - 1
               e == a \div PageSize
               u == a % PageSize
    <3>1. a \in Nat /\ a >= PageSize
      BY <1>1, <2>1
    <3>2. a = PageSize * e + u /\ u \in Nat /\ u < PageSize /\ e \in Nat
      BY <1>1, <3>1
    <3> HIDE DEF a, e, u
    <3>3. e # 0
      BY <1>1, <3>1, <3>2
    <3> QED
      BY <2>1, <3>2, <3>3 DEF e, a
  <2> QED
    BY <2>1
<1> HIDE DEF pageCount
<1>3. page \in Nat \ {0}
  BY <1>2
<1> HIDE DEF page
<1>4. /\ Pagination(q, n).page = page
      /\ Pagination(q, n).first = IF n > 0 THEN (page - 1) * PageSize + 1 ELSE 0
      /\ Pagination(q, n).last = IF n = 0 THEN 0 ELSE IF page * PageSize > n THEN n ELSE page * PageSize
  BY DEF Pagination, pageCount, page
<1>5. PICK k \in Nat : page = k + 1
  <2>1. page - 1 \in Nat /\ page = (page - 1) + 1
    BY <1>3
  <2> QED
    BY <2>1
<1>6. k * PageSize \in Nat /\ (k + 1) * PageSize = k * PageSize + PageSize /\ page - 1 = k
  BY <1>1, <1>5
<1>7. Offset(Pagination(q, n)) = k * PageSize
  BY <1>4, <1>6 DEF Offset
<1>8. Pagination(q, n) \in [page : Nat \ {0}, first : Nat, last : Nat]
  <2>1. (page - 1) * PageSize \in Nat /\ page * PageSize \in Nat
    BY <1>1, <1>5, <1>6
  <2>2. /\ Pagination(q, n).first \in Nat /\ Pagination(q, n).last \in Nat
        /\ Pagination(q, n).page \in Nat \ {0}
    BY <1>3, <1>4, <2>1
  <2>3. Pagination(q, n) = [page |-> Pagination(q, n).page, first |-> Pagination(q, n).first,
                            last |-> Pagination(q, n).last]
    BY DEF Pagination
  <2> HIDE DEF page
  <2> QED
    BY <2>2, <2>3, Zenon
<1> QED
  BY <1>4, <1>5, <1>6, <1>7, <1>8

Requested == {r \in Since(clock) : Of(req.actor, r)}

LEMMA RequestedFinite ==
    ASSUME StoreInv
    PROVE  DomainsFinite(Requested)
<1>1. Requested \subseteq queries
  BY DEF Requested, Since
<1>2. \A r \in queries : r.domain \in Nat
  BY ActivityAssumption DEF StoreInv, LogInv, Rows, ActivityAssumption
<1> QED
  BY <1>1, <1>2, RowsAreFinite DEF DomainsFinite, DomainsOf

LEMMA MoreDomains ==
    ASSUME NEW T, DomainsFinite(T), NEW S \in SUBSET T
    PROVE  /\ Cardinality(DomainsOf(S)) \in Nat /\ Cardinality(DomainsOf(T)) \in Nat
           /\ Cardinality(DomainsOf(S)) <= Cardinality(DomainsOf(T))
<1>1. IsFiniteSet(DomainsOf(T)) /\ Cardinality(DomainsOf(T)) \in Nat
  BY DomainsAre
<1>2. DomainsOf(S) \subseteq DomainsOf(T)
  BY DEF DomainsOf
<1> QED
  BY <1>1, <1>2, FS_Subset, FS_CardinalityType

\* While nothing is gone, what the request could see at its "now" it can see still.
StillThere == ~ req.gone => Since(req.now) \subseteq Since(clock)

\* The caption is that of a number of domains which only got larger.
CaptionIs ==
    \E n \in Nat :
        /\ req.shown = Pagination(req.asked, n)
        /\ ~ req.gone => n <= Cardinality(DomainsOf(Requested))
        /\ req.calm => n = Cardinality(DomainsOf(Requested))

RowsInv ==
    /\ req # Idle => StillThere
    /\ req.at = "page" \/ (req.at = "counts" /\ req.actor # Network) => CaptionIs
    /\ PageHasItsRows

LEMMA StillThereStays ==
    ASSUME StoreInv, StoreInv', ActivityInv, RequestInv, Meanwhile, StoreStep \/ SaveDevice \/ Tick, StillThere
    PROVE  StillThere'
<1> SUFFICES ASSUME ~ req'.gone, NEW r \in Since(req.now)' PROVE r \in Since(clock)'
  BY DEF StillThere
<1>1. req'.now = req.now /\ ~ req.gone
  BY RowsStay DEF Meanwhile, Fields
<1>2. r \in queries' /\ r.ts + Day >= req.now /\ r.ts \in Nat /\ Day \in Nat /\ clock' \in Nat
  BY <1>1, OthersKeep, StoreAssumption, ActivityAssumption
     DEF Since, StoreInv, LogInv, Rows, StoreAssumption, ActivityAssumption
<1>3. CASE r \in queries
  <2>1. r \in Since(req.now)
    BY <1>2, <1>3 DEF Since
  <2>2. ~ (r.ts + Day < clock')
    BY <2>1, RowsStay
  <2> QED
    BY <1>2, <2>2 DEF Since
<1>4. CASE r \notin queries
  <2>1. r \in batch /\ clock' = clock
    BY <1>2, <1>4 DEF StoreStep, SaveDevice, Tick, vars, Next, Open, WriteBegin, WriteCommit, WriteFails,
         OtherCommit, PurgeBegin, Purge, PurgeSelect, PurgeDelete, PurgeCommit, PurgeFails, Crash
  <2> QED
    BY <1>2, <2>1 DEF ActivityInv, Since
<1> QED
  BY <1>3, <1>4

LEMMA RowsMeanwhile ==
    ASSUME StoreInv, StoreInv', ActivityInv, RequestInv, Meanwhile, StoreStep \/ SaveDevice \/ Tick, RowsInv
    PROVE  RowsInv'
<1>1. /\ req'.at = req.at /\ req'.actor = req.actor /\ req'.shown = req.shown /\ req'.asked = req.asked
      /\ req'.at # "done" /\ req'.now = req.now
  BY DEF Meanwhile, Fields
<1>2. req # Idle /\ Network' = Network
  BY DEF Idle, RequestInv, PageSteps, ListSteps, Network
<1>3. StillThere'
  BY <1>2, StillThereStays DEF RowsInv
<1>4. ASSUME CaptionIs PROVE CaptionIs'
  <2>1. PICK n \in Nat : /\ req.shown = Pagination(req.asked, n)
                         /\ ~ req.gone => n <= Cardinality(DomainsOf(Requested))
                         /\ req.calm => n = Cardinality(DomainsOf(Requested))
    BY <1>4 DEF CaptionIs
  <2>2. ~ req'.gone => ~ req.gone /\ Requested \subseteq Requested'
    <3> SUFFICES ASSUME ~ req'.gone, NEW r \in Requested PROVE r \in Requested'
      BY RowsStay
    <3>1. r \in queries /\ r.ts + Day >= clock /\ Of(req.actor, r) /\ r.ts \in Nat /\ Day \in Nat
          /\ clock \in Nat /\ req.now \in Nat /\ req.now <= clock
      BY StoreAssumption, ActivityAssumption
         DEF Requested, Since, StoreInv, LogInv, Rows, StoreAssumption, ActivityAssumption, ActivityInv, RequestInv
    <3>2. r \in Since(req.now)
      BY <3>1 DEF Since
    <3>3. r \in queries' /\ ~ (r.ts + Day < clock')
      BY <3>2, RowsStay
    <3>4. clock' \in Nat /\ Of(req'.actor, r) = Of(req.actor, r)
      BY <1>1, OthersKeep
    <3>5. r \in Since(clock)'
      BY <3>1, <3>3, <3>4 DEF Since
    <3> QED
      BY <3>1, <3>4, <3>5 DEF Requested
  <2>3. DomainsFinite(Requested')
    <3>1. Requested' \subseteq queries'
      BY DEF Requested, Since
    <3>2. IsFiniteSet(queries') /\ \A r \in queries' : r.domain \in Nat
      BY ActivityAssumption DEF StoreInv, LogInv, Rows, ActivityAssumption
    <3>3. IsFiniteSet(Requested')
      BY <3>1, <3>2, FS_Subset
    <3> QED
      BY <3>1, <3>2, <3>3 DEF DomainsFinite, DomainsOf
  <2>4. ~ req'.gone => n <= Cardinality(DomainsOf(Requested'))
    <3> SUFFICES ASSUME ~ req'.gone PROVE n <= Cardinality(DomainsOf(Requested'))
      OBVIOUS
    <3>1. /\ Cardinality(DomainsOf(Requested)) \in Nat /\ Cardinality(DomainsOf(Requested')) \in Nat
          /\ Cardinality(DomainsOf(Requested)) <= Cardinality(DomainsOf(Requested'))
      BY <2>2, <2>3, MoreDomains
    <3> QED
      BY <2>1, <2>2, <3>1
  <2>5. req'.calm => n = Cardinality(DomainsOf(Requested'))
    <3> SUFFICES ASSUME req'.calm PROVE n = Cardinality(DomainsOf(Requested'))
      OBVIOUS
    <3>1. req.calm /\ UNCHANGED <<queries, clock>>
      BY RowsStay
    <3>2. Requested' = Requested
      BY <1>1, <3>1 DEF Requested, Since, Of
    <3> QED
      BY <2>1, <3>1, <3>2
  <2>6. DomainsOf(Requested)' = DomainsOf(Requested')
    BY DEF DomainsOf
  <2>7. req'.shown = Pagination(req'.asked, n)
    BY <1>1, <2>1
  <2> QED
    BY <2>4, <2>5, <2>6, <2>7 DEF CaptionIs, Pagination
<1>5. PageHasItsRows'
  BY <1>1 DEF PageHasItsRows, PageDone
<1> QED
  BY <1>1, <1>2, <1>3, <1>4, <1>5 DEF RowsInv

\* The count of domains gives the caption ...
LEMMA CaptionCounted ==
    ASSUME StoreInv, ActivityInv, RequestInv, RowsInv, ReadSummary
    PROVE  req'.at = "counts" /\ CaptionIs'
<1> DEFINE S == {r \in Since(req.now) : Of(req.actor, r)}
           n == Cardinality(DomainsOf(S))
<1>1. /\ req'.at = "counts" /\ req'.shown = Pagination(req.asked, n) /\ req'.asked = req.asked
      /\ req'.gone = req.gone /\ req'.calm = req.calm /\ req'.actor = req.actor
  BY DEF ReadSummary, RequestInv, Fields
<1>2. UNCHANGED <<vars, clock, devices>>
  BY DEF ReadSummary, Get
<1>3. Requested' = Requested
  BY <1>1, <1>2 DEF Requested, Since, Of, vars
<1>4. DomainsFinite(Requested) /\ DomainsFinite(S)
  <2>1. S \subseteq queries
    BY DEF Since
  <2>2. \A r \in queries : r.domain \in Nat
    BY ActivityAssumption DEF StoreInv, LogInv, Rows, ActivityAssumption
  <2> QED
    BY <2>1, <2>2, RowsAreFinite, RequestedFinite DEF DomainsFinite, DomainsOf
<1>5. n \in Nat
  BY <1>4, DomainsAre
<1>6. ~ req.gone => S \subseteq Requested
  <2>1. req # Idle
    BY DEF Idle, RequestInv, PageSteps, ListSteps
  <2> QED
    BY <2>1 DEF RowsInv, StillThere, Requested
<1>7. req.calm => S = Requested
  BY DEF RequestInv, Requested
<1> HIDE DEF S
<1>8. ~ req.gone => n <= Cardinality(DomainsOf(Requested))
  BY <1>4, <1>6, MoreDomains
<1>9. req.calm => n = Cardinality(DomainsOf(Requested))
  BY <1>7
<1>10. DomainsOf(Requested)' = DomainsOf(Requested)
  BY <1>3 DEF DomainsOf
<1> HIDE DEF n
<1>11. req'.shown = Pagination(req'.asked, n)
  BY <1>1
<1> QED
  BY <1>1, <1>5, <1>8, <1>9, <1>10, <1>11 DEF CaptionIs, Pagination

\* ... and the list gives its rows.
LEMMA PageShown ==
    ASSUME StoreInv, ActivityInv, RequestInv, RowsInv, ReadPage
    PROVE  PageHasItsRows'
<1> DEFINE S == {r \in Since(req.now) : Of(req.actor, r)}
           D == DomainsOf(Requested)
           k == Offset(req.shown)
           hi == IF k + PageSize < Cardinality(D) THEN k + PageSize ELSE Cardinality(D)
           rows == SubSeq(Ordered(Requested), k + 1, hi)
<1>1. /\ req'.at = "done" /\ req'.rows = DomainsPage(req.actor, req.shown) /\ req'.shown = req.shown
      /\ req'.gone = req.gone /\ req'.calm = req.calm /\ req'.actor = req.actor /\ req'.now = req.now
      /\ req.asked \in Nat \ {0}
  BY DEF ReadPage, RequestInv, Fields, PageSteps
<1>2. UNCHANGED <<vars, clock, devices>>
  BY DEF ReadPage, Get
<1>3. DomainsFinite(Requested)
  BY RequestedFinite
<1>4. Cardinality(D) \in Nat /\ IsFiniteSet(D)
  BY <1>3, DomainsAre
<1>5. PICK n \in Nat : /\ req.shown = Pagination(req.asked, n)
                       /\ ~ req.gone => n <= Cardinality(D)
                       /\ req.calm => n = Cardinality(D)
  BY DEF RowsInv, ReadPage, CaptionIs
<1>6. /\ k \in Nat
      /\ n = 0 => req.shown.first = 0 /\ req.shown.last = 0
      /\ n > 0 => /\ req.shown.first = k + 1
                  /\ req.shown.last = IF k + PageSize > n THEN n ELSE k + PageSize
  <2> DEFINE p == Pagination(req.asked, n)
  <2>1. /\ Offset(p) \in Nat
        /\ n = 0 => p.first = 0 /\ p.last = 0
        /\ n > 0 => /\ p.first = Offset(p) + 1
                    /\ p.last = IF Offset(p) + PageSize > n THEN n ELSE Offset(p) + PageSize
    BY <1>1, <1>5, PaginationIs
  <2>2. req.shown = p
    BY <1>5
  <2> HIDE DEF p
  <2> QED
    BY <2>1, <2>2
<1>7. PageSize \in Nat \ {0}
  BY ActivityAssumption DEF ActivityAssumption
<1>8. hi \in Nat /\ hi <= Cardinality(D) /\ k + 1 \in Nat \ {0}
  BY <1>4, <1>6, <1>7
<1>9. /\ rows \in Seq(D) /\ Len(Ordered(Requested)) = Cardinality(D)
      /\ Len(rows) = IF k + 1 <= hi THEN hi - (k + 1) + 1 ELSE 0
      /\ {rows[i] : i \in 1..Len(rows)} = {d \in D : RankOf(Requested, d) \in (k + 1) .. hi}
  <2> DEFINE lo == k + 1
  <2>1. lo \in Nat \ {0} /\ hi \in Nat /\ hi <= Cardinality(DomainsOf(Requested))
    BY <1>8
  <2> HIDE DEF k, hi, lo
  <2>2. IsPage(Requested, lo, hi, SubSeq(Ordered(Requested), lo, hi))
    BY <1>3, <2>1, PageIs
  <2> QED
    BY <2>2 DEF lo, IsPage
<1>10. req'.rows = rows
  BY <1>1, <1>9 DEF DomainsPage, Requested
<1> HIDE DEF rows, k
<1>11. ~ req.gone /\ req.shown.last > 0 => Len(req'.rows) > req'.shown.last - req'.shown.first
  <2> SUFFICES ASSUME ~ req.gone, req.shown.last > 0
               PROVE  Len(rows) > req.shown.last - req.shown.first
    BY <1>1, <1>10
  <2>1. n > 0 /\ n <= Cardinality(D)
    BY <1>5, <1>6
  <2>2. Len(rows) = IF k + 1 <= hi THEN hi - (k + 1) + 1 ELSE 0
    BY <1>9
  <2> DEFINE c == Cardinality(D)
  <2>3. hi = (IF k + PageSize < c THEN k + PageSize ELSE c) /\ n <= c /\ c \in Nat
    BY <1>4, <2>1
  <2>4. req.shown.first = k + 1 /\ req.shown.last = IF k + PageSize > n THEN n ELSE k + PageSize
    BY <1>6, <2>1
  <2> HIDE DEF D, c, hi
  <2>5. req.shown.last <= hi /\ req.shown.last \in Nat /\ hi \in Nat
    BY <1>6, <1>7, <2>3, <2>4
  <2> QED
    BY <1>6, <2>2, <2>4, <2>5
<1>12. req.calm => {rows[i] : i \in 1..Len(rows)} = {d \in D : RankOf(Requested, d) \in req.shown.first .. req.shown.last}
  <2> SUFFICES ASSUME req.calm
               PROVE  {d \in D : RankOf(Requested, d) \in (k + 1) .. hi}
                        = {d \in D : RankOf(Requested, d) \in req.shown.first .. req.shown.last}
    BY <1>9
  <2>1. n = Cardinality(D)
    BY <1>5
  <2>2. CASE n = 0
    <3>1. D = {}
      BY <1>4, <2>1, <2>2, FS_EmptySet
    <3> QED
      BY <3>1
  <2>3. CASE n > 0
    <3> HIDE DEF D
    <3>1. req.shown.first = k + 1 /\ req.shown.last = hi
      BY <1>4, <1>6, <1>7, <2>1, <2>3
    <3> QED
      BY <3>1
  <2> QED
    BY <2>2, <2>3
<1>13. /\ {r \in Since(req.now) : Of(req.actor, r)}' = S
       /\ req.calm => S = Requested
  BY <1>1, <1>2 DEF Since, Of, vars, Requested, RequestInv
<1>14. req'.calm =>
         {req'.rows[i] : i \in 1..Len(req'.rows)}
           = {d \in DomainsOf(S) : 1 + Cardinality({e \in DomainsOf(S) : Before(S, e, d)})
                                     \in req'.shown.first .. req'.shown.last}
  <2> SUFFICES ASSUME req.calm
               PROVE  {rows[i] : i \in 1..Len(rows)}
                        = {d \in DomainsOf(S) : 1 + Cardinality({e \in DomainsOf(S) : Before(S, e, d)})
                                                  \in req.shown.first .. req.shown.last}
    <3> HIDE DEF S
    <3> QED
      BY <1>1, <1>10
  <2>1. S = Requested
    BY <1>13
  <2> HIDE DEF S
  <2>2. {rows[i] : i \in 1..Len(rows)} = {d \in DomainsOf(S) : RankOf(S, d) \in req.shown.first .. req.shown.last}
    BY <1>12, <2>1
  <2> QED
    BY <2>2 DEF RankOf
<1> HIDE DEF S
<1> QED
  BY <1>1, <1>11, <1>13, <1>14 DEF PageHasItsRows, DomainsOf, Before, CountOf

LEMMA RowsRead ==
    ASSUME StoreInv, ActivityInv, RowsInv, Answer
    PROVE  RowsInv'
<1>1. RequestInv /\ UNCHANGED <<vars, clock, devices>> /\ clock \in Nat
  BY AnswerGoesOn, AnswerReads DEF ActivityInv
<1>2. CASE req' = Idle
  BY <1>2 DEF Idle, RowsInv, PageHasItsRows, PageDone
<1>3. ASSUME req' # Idle PROVE RowsInv'
  <2>1. /\ RequestInv' /\ req'.actor = req.actor /\ req'.asked = req.asked /\ req'.gone = req.gone
        /\ req.at # "anomalies" => req'.now = req.now
    BY <1>3, AnswerGoesOn
  <2>2. StillThere'
    <3>1. CASE req.at # "anomalies"
      <4>1. req # Idle
        BY <1>1 DEF Idle, RequestInv, PageSteps, ListSteps
      <4> QED
        BY <1>1, <2>1, <3>1, <4>1 DEF RowsInv, StillThere, Since, vars
    <3>2. CASE req.at = "anomalies"
      <4>1. req'.now = clock
        BY <1>1, <3>2 DEF Answer, ReadSpikes, NameSpike, ReadDevices, ReadSources, ReadTotal, ReadSummary,
             ReadCounts, ReadPage, ReadReach, ReadDomains, RequestInv, Fields
      <4> QED
        BY <1>1, <4>1 DEF StillThere, Since, vars
    <3> QED
      BY <3>1, <3>2
  <2>3. ASSUME req'.at \in {"sources", "total", "summary", "reach", "api2", "spikes"}
               \/ (req'.at = "counts" /\ req'.actor = Network)
               \/ (req'.at = "done" /\ (req'.asked = 0 \/ req'.actor = Network))
        PROVE  RowsInv'
    BY <2>2, <2>3 DEF RowsInv, PageHasItsRows, PageDone, Network
  <2>4. CASE ReadDevices \/ ReadSources \/ ReadTotal
    <3>1. req'.at \in {"sources", "total", "summary"} \/ (req'.at = "counts" /\ req'.actor = Network)
      BY <1>1, <1>3, <2>1, <2>4 DEF ReadDevices, ReadSources, ReadTotal, RequestInv, Fields
    <3> QED
      BY <2>3, <3>1
  <2>5. CASE ReadSummary
    BY <1>1, <2>2, <2>5, CaptionCounted DEF RowsInv, PageHasItsRows, PageDone
  <2>6. CASE ReadCounts
    <3>1. /\ req'.at = (IF req.actor = Network THEN "reach" ELSE "page")
          /\ req'.shown = req.shown /\ req'.calm = req.calm /\ req.at = "counts"
      BY <1>1, <2>6 DEF ReadCounts, RequestInv, Fields
    <3>2. CASE req.actor = Network
      BY <2>3, <3>1, <3>2
    <3>3. CASE req.actor # Network
      <4>1. CaptionIs
        BY <3>1, <3>3 DEF RowsInv
      <4>2. DomainsOf(Requested)' = DomainsOf(Requested)
        BY <1>1, <2>1 DEF DomainsOf, Requested, Since, Of, vars
      <4>3. CaptionIs'
        BY <2>1, <3>1, <4>1, <4>2 DEF CaptionIs, Pagination
      <4> QED
        BY <2>2, <3>1, <3>3, <4>3 DEF RowsInv, PageHasItsRows, PageDone
    <3> QED
      BY <3>2, <3>3
  <2>7. CASE ReadPage
    <3>1. req'.at = "done"
      BY <1>1, <2>7 DEF ReadPage, RequestInv, Fields
    <3> QED
      BY <1>1, <2>2, <2>7, <3>1, PageShown DEF RowsInv
  <2>8. CASE ReadReach
    <3>1. req'.at = "done" /\ req'.actor = Network
      BY <1>1, <2>1, <2>8 DEF ReadReach, RequestInv, Fields
    <3> QED
      BY <2>3, <3>1
  <2>9. CASE ReadDomains \/ ReadSpikes \/ NameSpike
    <3>1. req'.at \in {"api2", "spikes", "done"}
      BY <1>1, <2>9, SpikeSteps DEF ReadDomains, RequestInv, Fields
    <3>2. req'.asked = 0
      BY <1>1, <2>1, <2>9 DEF ReadDomains, ReadSpikes, NameSpike, RequestInv, ListSteps
    <3> QED
      BY <2>3, <3>1, <3>2
  <2> QED
    BY <2>4, <2>5, <2>6, <2>7, <2>8, <2>9 DEF Answer
<1> QED
  BY <1>2, <1>3

LEMMA RowsInvariant == ActivitySpec => []RowsInv
<1>1. ActivityInit => RowsInv
  BY DEF ActivityInit, Idle, RowsInv, PageHasItsRows, PageDone
<1>2. StoreInv /\ StoreInv' /\ ActivityInv /\ RowsInv /\ [ActivityNext]_allVars => RowsInv'
  <2> SUFFICES ASSUME StoreInv, StoreInv', ActivityInv, RowsInv, [ActivityNext]_allVars
               PROVE  RowsInv'
    OBVIOUS
  <2>1. CASE UNCHANGED allVars
    <3>1. Requested' = Requested
      BY <2>1 DEF allVars, vars, Requested, Since, Of
    <3>2. StillThere' = StillThere /\ (req # Idle)' = (req # Idle) /\ Network' = Network
      BY <2>1 DEF allVars, vars, StillThere, Since, Idle, Network
    <3>3. CaptionIs' = CaptionIs
      BY <2>1, <3>1 DEF allVars, CaptionIs, Pagination, DomainsOf
    <3>4. PageHasItsRows' = PageHasItsRows
      BY <2>1 DEF allVars, vars, PageHasItsRows, PageDone, Since, Of, Network, DomainsOf, Before, CountOf
    <3> QED
      BY <2>1, <3>2, <3>3, <3>4 DEF allVars, RowsInv
  <2>2. CASE Begin
    <3>1. \/ \E a, p : req' = NewRequest(a, p, "devices")
          \/ \E at \in {"api", "anomalies"} : req' = NewRequest(Network, 0, at)
      BY <2>2 DEF Begin
    <3>2. req'.now = clock /\ UNCHANGED <<vars, clock>> /\ req'.at \in {"devices", "api", "anomalies"}
      BY <2>2, <3>1 DEF NewRequest, Begin, Get
    <3> QED
      BY <3>2 DEF RowsInv, PageHasItsRows, PageDone, StillThere, Since, vars
  <2>3. CASE Answer
    BY <2>3, RowsRead
  <2>4. CASE (StoreStep \/ SaveDevice \/ Tick) /\ Watch
    <3>1. CASE req' = Idle
      BY <3>1 DEF Idle, RowsInv, PageHasItsRows, PageDone
    <3>2. CASE RequestInv /\ Meanwhile
      BY <2>4, <3>2, RowsMeanwhile
    <3> QED
      BY <2>4, <3>1, <3>2, OthersWork
  <2> QED
    BY <2>1, <2>2, <2>3, <2>4 DEF ActivityNext
<1> QED
  BY <1>1, <1>2, StoreInvariant, ActivityInvariant, PTL DEF ActivitySpec

\* The page of domains has the rows that its caption announces, whatever was logged
\* between the count and the list; on a calm page they are the domains of those ranks:
\* the ORDER BY exists, and puts every domain at the place of its rank.
THEOREM PagesHaveTheirRows == ActivitySpec => []PageHasItsRows
BY RowsInvariant, PTL DEF RowsInv

-----------------------------------------------------------------------------
\* Types

\* The numbers of the rows are used once each, those of a batch follow, and as many
\* rows have been stored as numbers have been given: no count exceeds them.
NumbersInv ==
    /\ Cardinality(queries) < nextID
    /\ nextID + Cardinality(batch) <= Cardinality(Old) + MaxNew + 1
    /\ Cardinality(batch) <= BatchSize
    /\ \A r, s \in queries \cup batch : r.id = s.id => r = s

\* Where the writer and the purge are, and how far within their bounds.
StepsInv ==
    /\ lock \in {"free", "writer", "purge"} /\ stale \in BOOLEAN
    /\ purging \in {"off", "select", "delete", "rebuild"}
    /\ Cardinality(chunk) <= ChunkSize
    /\ purges \in 0..MaxPurges /\ crashes \in 0..MaxCrashes
    /\ outcome \in {"none", "done", "failed"}

LEMMA NumbersInit == Init => NumbersInv /\ StepsInv
<1> SUFFICES ASSUME Init PROVE NumbersInv /\ StepsInv
  OBVIOUS
<1>1. IsFiniteSet(Old) /\ Cardinality(Old) \in Nat /\ Cardinality({}) = 0
  BY StoreAssumption, FS_EmptySet, FS_CardinalityType DEF StoreAssumption
<1>2. \A r, s \in Old : r.id = s.id => r = s
  BY StoreAssumption DEF StoreAssumption
<1>3. NumbersInv
  <2>1. MaxNew \in Nat /\ BatchSize \in Nat
    BY StoreAssumption DEF StoreAssumption
  <2>2. queries \in {{}, Old} /\ nextID = Cardinality(Old) + 1 /\ batch = {}
    BY DEF Init
  <2>3. Cardinality(queries) < nextID
    BY <1>1, <2>2
  <2>4. /\ nextID + Cardinality(batch) <= Cardinality(Old) + MaxNew + 1
        /\ Cardinality(batch) <= BatchSize
    BY <1>1, <2>1, <2>2
  <2> QED
    BY <1>2, <2>2, <2>3, <2>4 DEF NumbersInv
<1>4. StepsInv
  <2>1. ChunkSize \in Nat /\ MaxPurges \in Nat /\ MaxCrashes \in Nat
    BY StoreAssumption DEF StoreAssumption
  <2>2. 0 \in 0..MaxPurges /\ 0 \in 0..MaxCrashes /\ Cardinality({}) <= ChunkSize
    BY <1>1, <2>1
  <2> QED
    BY <2>2 DEF Init, StepsInv
<1> QED
  BY <1>3, <1>4

\* A batch begins with the next number, and all of its numbers are then used.
LEMMA WriterNumbers ==
    ASSUME StoreInv, NumbersInv, WriteBegin \/ WriteCommit
    PROVE  NumbersInv'
<1>1. /\ IsFiniteSet(queries) /\ IsFiniteSet(batch) /\ nextID \in Nat
      /\ \A r \in queries : r.id \in Nat /\ r.id < nextID
      /\ \A r \in batch : r.id \in Nat /\ nextID <= r.id
  BY DEF StoreInv, LogInv, Rows
<1>2. Cardinality(queries) \in Nat /\ Cardinality(batch) \in Nat /\ Cardinality({}) = 0
      /\ Cardinality(Old) \in Nat /\ MaxNew \in Nat /\ BatchSize \in Nat
  BY <1>1, StoreAssumption, FS_EmptySet, FS_CardinalityType DEF StoreAssumption
<1>3. CASE WriteBegin
  <2>1. /\ \A r \in batch' : r.id \in Nat /\ nextID <= r.id
        /\ \A r, s \in batch' : r.id = s.id => r = s
        /\ Cardinality(batch') <= BatchSize
        /\ nextID + Cardinality(batch') <= Cardinality(Old) + MaxNew + 1
    BY <1>3, NewBatch DEF Rows
  <2>2. UNCHANGED <<queries, nextID>>
    BY <1>3 DEF WriteBegin
  <2>3. \A r, s \in queries \cup batch' : r.id = s.id => r = s
    <3> SUFFICES ASSUME NEW r \in queries \cup batch', NEW s \in queries \cup batch', r.id = s.id
                 PROVE  r = s
      OBVIOUS
    <3>1. (r \in queries /\ s \in queries) \/ (r \in batch' /\ s \in batch')
      BY <1>1, <2>1
    <3> QED
      BY <2>1, <3>1 DEF NumbersInv
  <2> QED
    BY <2>1, <2>2, <2>3 DEF NumbersInv
<1>4. CASE WriteCommit
  <2>1. queries' = queries \cup batch /\ batch' = {} /\ nextID' = nextID + Cardinality(batch)
    BY <1>4 DEF WriteCommit
  <2>2. queries \cap batch = {}
    BY <1>1
  <2>3. Cardinality(queries') = Cardinality(queries) + Cardinality(batch)
    BY <1>1, <2>1, <2>2, DisjointUnion
  <2>4. Cardinality(queries') < nextID'
    BY <1>1, <1>2, <2>1, <2>3 DEF NumbersInv
  <2>5. /\ nextID' + Cardinality(batch') <= Cardinality(Old) + MaxNew + 1
        /\ Cardinality(batch') <= BatchSize
    BY <1>1, <1>2, <2>1 DEF NumbersInv
  <2> QED
    BY <2>1, <2>4, <2>5 DEF NumbersInv
<1> QED
  BY <1>3, <1>4

\* Nobody else uses a number; rows only go away.
LEMMA OthersNumbers ==
    ASSUME StoreInv, NumbersInv, queries' \subseteq queries, nextID' = nextID, batch' \in {batch, {}}
    PROVE  NumbersInv'
<1>1. IsFiniteSet(queries) /\ IsFiniteSet(batch) /\ nextID \in Nat
  BY DEF StoreInv, LogInv
<1>2. /\ Cardinality(queries) \in Nat /\ Cardinality(queries') \in Nat
      /\ Cardinality(queries') <= Cardinality(queries)
  BY <1>1, FS_Subset, FS_CardinalityType
<1>3. Cardinality(batch) \in Nat /\ Cardinality({}) = 0 /\ BatchSize \in Nat
      /\ Cardinality(Old) \in Nat /\ MaxNew \in Nat
  BY <1>1, StoreAssumption, FS_EmptySet, FS_CardinalityType DEF StoreAssumption
<1>4. Cardinality(queries') < nextID'
  BY <1>1, <1>2 DEF NumbersInv
<1>5. /\ nextID' + Cardinality(batch') <= Cardinality(Old) + MaxNew + 1
      /\ Cardinality(batch') <= BatchSize
  <2>1. Cardinality(batch') \in Nat /\ Cardinality(batch') <= Cardinality(batch)
    <3>1. CASE batch' = batch
      BY <1>3, <3>1
    <3>2. CASE batch' = {}
      BY <1>3, <3>2
    <3> QED
      BY <3>1, <3>2
  <2>2. /\ nextID + Cardinality(batch) <= Cardinality(Old) + MaxNew + 1
        /\ Cardinality(batch) <= BatchSize
    BY DEF NumbersInv
  <2> QED
    BY <1>1, <1>3, <2>1, <2>2
<1>6. \A r, s \in queries' \cup batch' : r.id = s.id => r = s
  BY DEF NumbersInv
<1> QED
  BY <1>4, <1>5, <1>6 DEF NumbersInv

\* A chunk is no larger than its LIMIT.
LEMMA ChunkFits ==
    ASSUME StoreInv, NEW S \in Chunks
    PROVE  Cardinality(S) <= ChunkSize
<1>1. Cardinality(Expired) \in Nat
  BY RowsAreFinite DEF Expired
<1> QED
  BY <1>1, StoreAssumption DEF Chunks, StoreAssumption

LEMMA StepsKeep ==
    ASSUME StoreInv, StepsInv, [Next]_vars \/ SaveDevice
    PROVE  StepsInv'
<1>1. Cardinality({}) <= ChunkSize
  BY StoreAssumption, FS_EmptySet DEF StoreAssumption
<1>2. CASE PurgeSelect
  BY <1>2, ChunkFits DEF PurgeSelect, StepsInv
<1>3. CASE PurgeBegin
  BY <1>3, StoreAssumption DEF PurgeBegin, StepsInv, StoreAssumption
<1>4. CASE Crash
  <2>1. crashes' \in 0..MaxCrashes
    BY <1>4, StoreAssumption DEF Crash, StepsInv, StoreAssumption
  <2>2. /\ lock' = "free" /\ stale' = FALSE /\ purging' = "off" /\ chunk' = {} /\ purges' = purges
        /\ outcome' = "none"
    BY <1>4 DEF Crash
  <2> QED
    BY <1>1, <2>1, <2>2 DEF StepsInv
<1>5. CASE PurgeDelete \/ PurgeCommit \/ PurgeFails
  BY <1>1, <1>5 DEF PurgeDelete, PurgeCommit, PurgeFails, StepsInv
<1>6. CASE Open \/ WriteBegin \/ WriteFails \/ WriteCommit
  BY <1>6 DEF Open, WriteBegin, WriteFails, WriteCommit, purgeVars, StepsInv
<1>7. CASE OtherCommit \/ SaveDevice \/ UNCHANGED vars
  BY <1>7 DEF OtherCommit, SaveDevice, vars, StepsInv
<1> QED
  BY <1>2, <1>3, <1>4, <1>5, <1>6, <1>7 DEF Next, Purge

LEMMA NumbersKeep ==
    ASSUME StoreInv, NumbersInv, [Next]_vars \/ SaveDevice
    PROVE  NumbersInv'
<1>1. CASE WriteBegin \/ WriteCommit
  BY <1>1, WriterNumbers
<1>2. CASE ~ (WriteBegin \/ WriteCommit)
  <2>1. queries' \subseteq queries /\ nextID' = nextID /\ batch' \in {batch, {}}
    BY <1>2 DEF Next, Purge, Open, WriteFails, OtherCommit, PurgeBegin, PurgeSelect, PurgeDelete,
                PurgeCommit, PurgeFails, Crash, SaveDevice, vars
  <2> QED
    BY <2>1, OthersNumbers
<1> QED
  BY <1>1, <1>2

LEMMA NumbersInvariant == ActivitySpec => [](NumbersInv /\ StepsInv)
<1>1. ActivityInit => NumbersInv /\ StepsInv
  BY NumbersInit DEF ActivityInit
<1>2. StoreInv /\ NumbersInv /\ StepsInv /\ [ActivityNext]_allVars => (NumbersInv /\ StepsInv)'
  BY StoreSteps, NumbersKeep, StepsKeep
<1> QED
  BY <1>1, <1>2, StoreInvariant, PTL DEF ActivitySpec

\* A count is one of the rows, and there are no more rows than numbers.
LEMMA CountsFit ==
    ASSUME StoreInv, NumbersInv, NEW S \in SUBSET queries, NEW k
    PROVE  GroupCount(S, k) \in 0..nextID
<1> DEFINE G == {r \in S : <<Bucket(r), r.mac, SourceKey(r)>> = k}
<1>1. G \subseteq queries /\ GroupCount(S, k) = Cardinality(G)
  BY DEF GroupCount
<1> HIDE DEF G
<1>2. IsFiniteSet(queries) /\ nextID \in Nat
  BY DEF StoreInv, LogInv
<1>3. /\ Cardinality(G) \in Nat /\ Cardinality(queries) \in Nat
      /\ Cardinality(G) <= Cardinality(queries)
  BY <1>1, <1>2, FS_Subset, FS_CardinalityType
<1> QED
  BY <1>1, <1>2, <1>3 DEF NumbersInv

LEMMA StoreTypes == ASSUME StoreInv, NumbersInv, StepsInv PROVE TypeOK
<1>1. nextID \in Nat /\ cutoff \in Cutoffs \cup {0} /\ opened \in BOOLEAN
  BY DEF StoreInv, LogInv, PlaceInv
<1>2. \A r \in queries \cup chunk : r \in Rows({r.id}) /\ r.id < nextID
  BY DEF StoreInv, LogInv, PlaceInv, Rows
<1>3. Cardinality(queries) \in Nat /\ Cardinality(batch) \in Nat
      /\ Cardinality(Old) \in Nat /\ MaxNew \in Nat /\ BatchSize \in Nat
  BY StoreAssumption, FS_CardinalityType DEF StoreInv, LogInv, StoreAssumption
<1>4. nextID \in 1 .. Cardinality(Old) + MaxNew + 1
  BY <1>1, <1>3 DEF NumbersInv
<1>5. \A r \in batch : r \in Rows({r.id}) /\ r.id \in nextID .. nextID + BatchSize - 1
  <2> SUFFICES ASSUME NEW r \in batch
               PROVE  r \in Rows({r.id}) /\ r.id \in nextID .. nextID + BatchSize - 1
    OBVIOUS
  <2>1. /\ r \in Rows(Nat) /\ r.id \in Nat
        /\ nextID <= r.id /\ r.id < nextID + Cardinality(batch)
    BY DEF StoreInv, LogInv, Rows
  <2>2. r \in Rows({r.id})
    BY <2>1 DEF Rows
  <2> QED
    BY <1>1, <1>3, <2>1, <2>2 DEF NumbersInv
<1>6. total \in [Keys -> 0..nextID] /\ tracker \in [Keys -> 0..nextID]
  <2>1. CASE Counts(queries)
    <3>1. Tracking(queries) \in SUBSET queries
      BY DEF Tracking
    <3>2. \A k \in Keys : GroupCount(queries, k) \in 0..nextID /\ GroupCount(Tracking(queries), k) \in 0..nextID
      BY <3>1, CountsFit
    <3> QED
      BY <2>1, <3>2 DEF Counts
  <2>2. CASE NothingCounted
    <3>1. 0 \in 0..nextID
      BY <1>1
    <3> QED
      BY <2>2, <3>1 DEF NothingCounted
  <2> QED
    BY <2>1, <2>2 DEF StoreInv, CountsInv
<1> QED
  BY <1>1, <1>2, <1>4, <1>5, <1>6 DEF NumbersInv, StepsInv, TypeOK

\* What the fields of a request hold.
Form(q) ==
    /\ q.now \in Times /\ q.known \subseteq Macs /\ q.sources \subseteq Ips
    /\ q.roster \in Nat /\ q.total \in Nat /\ q.identities \in Nat /\ q.reach \in Nat /\ q.matched \in Nat
    /\ q.spikes \subseteq Spikes /\ q.named \subseteq Spikes \X (Nat \X (Categories \cup {""}))
    /\ q.shown \in [page : Nat \ {0}, first : Nat, last : Nat]
    /\ q.rows \in Seq(Domains)

FormInv == clock \in Times /\ (req # Idle => Form(req))

LEMMA BeginForm == ASSUME FormInv, Begin PROVE FormInv'
<1>1. clock' = clock /\ \E a, p, at : req' = NewRequest(a, p, at)
  BY DEF Begin, Get
<1>2. PICK a, p, at : req' = NewRequest(a, p, at)
  BY <1>1
<1>3. /\ req'.now = clock /\ req'.known = {} /\ req'.sources = {} /\ req'.roster = 0 /\ req'.total = 0
      /\ req'.identities = 0 /\ req'.reach = 0 /\ req'.matched = 0 /\ req'.spikes = {} /\ req'.named = {}
      /\ req'.shown = [page |-> 1, first |-> 0, last |-> 0] /\ req'.rows = <<>>
  BY <1>2 DEF NewRequest
<1>4. <<>> \in Seq(Domains)
  OBVIOUS
<1>5. [page |-> 1, first |-> 0, last |-> 0] \in [page : Nat \ {0}, first : Nat, last : Nat]
  OBVIOUS
<1>6. clock \in Times
  BY DEF FormInv
<1>7. /\ req'.known \subseteq Macs /\ req'.sources \subseteq Ips /\ req'.spikes \subseteq Spikes
      /\ req'.named \subseteq Spikes \X (Nat \X (Categories \cup {""}))
  BY <1>3
<1>8. Form(req')
  BY <1>3, <1>4, <1>5, <1>6, <1>7 DEF Form
<1> QED
  BY <1>1, <1>6, <1>8 DEF FormInv, Form, Spikes

\* The domains of a page, whatever the log holds by now.
LEMMA PageForm ==
    ASSUME StoreInv, NEW p \in [page : Nat \ {0}, first : Nat, last : Nat], NEW a
    PROVE  DomainsPage(a, p) \in Seq(Domains)
<1> DEFINE S == {r \in Since(clock) : Of(a, r)}
           n == Cardinality(DomainsOf(S))
           hi == IF Offset(p) + PageSize < n THEN Offset(p) + PageSize ELSE n
<1>1. S \subseteq queries /\ \A r \in S : r.domain \in Domains
  BY DEF Since, StoreInv, LogInv, Rows
<1>2. DomainsOf(S) \subseteq Domains
  BY <1>1 DEF DomainsOf
<1>3. DomainsFinite(S)
  BY <1>1, <1>2, RowsAreFinite, ActivityAssumption DEF DomainsFinite, DomainsOf, ActivityAssumption
<1> HIDE DEF S
<1>4. n \in Nat /\ Ordered(S) \in [1..n -> DomainsOf(S)]
  BY <1>3, DomainsAre
<1>5. Len(Ordered(S)) = n
  BY <1>4
<1>6. Offset(p) \in Nat
  <2>1. PICK k \in Nat : p.page = k + 1
    <3>1. p.page - 1 \in Nat /\ p.page = (p.page - 1) + 1
      OBVIOUS
    <3> QED
      BY <3>1
  <2>2. p.page - 1 = k
    BY <2>1
  <2>3. k * PageSize \in Nat
    BY <2>1, ActivityAssumption DEF ActivityAssumption
  <2> QED
    BY <2>2, <2>3 DEF Offset
<1>7. Offset(p) + 1 \in Nat \ {0} /\ hi \in Nat /\ hi <= Cardinality(DomainsOf(S))
  BY <1>4, <1>6, ActivityAssumption DEF ActivityAssumption
<1>8. DomainsPage(a, p) = SubSeq(Ordered(S), Offset(p) + 1, hi)
  BY <1>5 DEF DomainsPage, S
<1> HIDE DEF hi, n
<1>9. IsPage(S, Offset(p) + 1, hi, SubSeq(Ordered(S), Offset(p) + 1, hi))
  BY <1>3, <1>7, PageIs
<1> QED
  BY <1>2, <1>8, <1>9 DEF IsPage

\* A spike that leads or not, the domain that is named is one of the log's, or none.
LEMMA NamedForm ==
    ASSUME StoreInv, NEW m, NEW now
    PROVE  /\ TopTracker(m, now) \subseteq Nat \X Categories
           /\ TopRisen(m, now) \subseteq Nat \X Categories
<1>1. /\ Tracking(Recent(m, now)) \subseteq queries
      /\ Recent(m, now) \cup Prior(m, now) \subseteq queries
  BY DEF Tracking, Recent, Prior, Within, Since
<1>2. \A r \in queries : <<r.domain, r.cat>> \in Nat \X Categories
  BY ActivityAssumption DEF StoreInv, LogInv, Rows, ActivityAssumption
<1>3. \A S \in SUBSET queries : Groups(S) \subseteq Nat \X Categories
  BY <1>2 DEF Groups
<1>4. TopTracker(m, now) \subseteq Groups(Tracking(Recent(m, now)))
  BY DEF TopTracker, SpikeRows
<1>5. TopRisen(m, now) \subseteq Groups(Recent(m, now) \cup Prior(m, now))
  BY DEF TopRisen
<1> QED
  BY <1>1, <1>3, <1>4, <1>5

\* What a read puts into the request.
LEMMA AnswerForm ==
    ASSUME StoreInv, ActivityInv, FormInv, Answer
    PROVE  req' # Idle => Form(req')
<1> SUFFICES ASSUME req' # Idle PROVE Form(req')
  OBVIOUS
<1>1. RequestInv
  BY AnswerGoesOn
<1>2. Form(req) /\ clock \in Times
  BY <1>1 DEF FormInv, Idle, RequestInv, PageSteps, ListSteps
<1>3. \A S \in SUBSET queries : Cardinality(S) \in Nat
  BY RowsAreFinite
<1>4. /\ Since(req.now) \subseteq queries /\ Within(req.now) \subseteq queries
      /\ \A r \in queries : r.ip \in Ips
  BY DEF Since, Within, StoreInv, LogInv, Rows
<1>5. CASE ReadDevices
  <2> DEFINE seen == {r \in Within(req.now) : r.mac \in devices}
  <2>1. Cardinality(seen) \in Nat
    BY <1>3, <1>4
  <2>2. /\ req'.known = devices /\ req'.roster = Cardinality(seen)
        /\ \A f \in Fields \ {"at", "known", "roster"} : req'[f] = req[f]
    BY <1>1, <1>5 DEF ReadDevices, RequestInv, Fields
  <2> HIDE DEF seen
  <2> QED
    BY <1>2, <2>1, <2>2 DEF Form, Fields, ActivityInv
<1>6. CASE ReadSources
  <2> DEFINE found == {r \in Within(req.now) : Unattributed(r)}
  <2>1. Cardinality(found) \in Nat /\ {r.ip : r \in found} \subseteq Ips
    BY <1>3, <1>4
  <2>2. /\ req'.sources = {r.ip : r \in found} /\ req'.roster = req.roster + Cardinality(found)
        /\ \A f \in Fields \ {"at", "sources", "roster"} : req'[f] = req[f]
    BY <1>1, <1>6 DEF ReadSources, RequestInv, Fields
  <2> HIDE DEF found
  <2>3. req'.sources \subseteq Ips /\ req'.roster \in Nat
    <3>1. req'.sources \subseteq Ips
      BY <2>1, <2>2
    <3>2. req.roster \in Nat /\ req'.roster = req.roster + Cardinality(found)
      BY <1>2, <2>2 DEF Form
    <3> QED
      BY <2>1, <3>1, <3>2
  <2>4. /\ req'.now = req.now /\ req'.known = req.known /\ req'.total = req.total
        /\ req'.identities = req.identities /\ req'.reach = req.reach /\ req'.matched = req.matched
        /\ req'.spikes = req.spikes /\ req'.named = req.named /\ req'.shown = req.shown
        /\ req'.rows = req.rows
    BY <2>2 DEF Fields
  <2> QED
    BY <1>2, <2>3, <2>4 DEF Form
<1>7. CASE ReadTotal
  <2>1. /\ req'.total = Cardinality(Since(req.now))
        /\ \A f \in Fields \ {"at", "total"} : req'[f] = req[f]
    BY <1>1, <1>7 DEF ReadTotal, RequestInv, Fields
  <2>2. req'.total \in Nat
    BY <1>3, <1>4, <2>1
  <2> QED
    BY <1>2, <2>1, <2>2 DEF Form, Fields
<1>8. CASE ReadSummary
  <2> DEFINE S == {r \in Since(req.now) : Of(req.actor, r)}
  <2>1. /\ req'.shown = Pagination(req.asked, Cardinality(DomainsOf(S)))
        /\ \A f \in Fields \ {"at", "shown"} : req'[f] = req[f]
    BY <1>1, <1>8 DEF ReadSummary, RequestInv, Fields
  <2>2. S \subseteq queries /\ \A r \in queries : r.domain \in Nat
    BY <1>4, ActivityAssumption DEF StoreInv, LogInv, Rows, ActivityAssumption
  <2>3. DomainsFinite(S)
    BY <2>2, RowsAreFinite DEF DomainsFinite, DomainsOf
  <2> HIDE DEF S
  <2>4. Cardinality(DomainsOf(S)) \in Nat
    BY <2>3, DomainsAre
  <2>5. req.asked \in Nat \ {0}
    BY <1>1, <1>8 DEF ReadSummary, RequestInv, PageSteps
  <2>6. req'.shown \in [page : Nat \ {0}, first : Nat, last : Nat]
    BY <2>1, <2>4, <2>5, PaginationIs
  <2> QED
    BY <1>2, <2>1, <2>6 DEF Form, Fields
<1>9. CASE ReadCounts
  <2> DEFINE S == {r \in Within(req.now) : Of(req.actor, r)}
  <2>1. Cardinality(S) \in Nat
    BY <1>3, <1>4
  <2>2. /\ req'.matched = Cardinality(S)
        /\ \A f \in Fields \ {"at", "matched"} : req'[f] = req[f]
    BY <1>1, <1>9 DEF ReadCounts, RequestInv, Fields
  <2> HIDE DEF S
  <2> QED
    BY <1>2, <2>1, <2>2 DEF Form, Fields
<1>10. CASE ReadPage
  <2>1. /\ req'.rows = DomainsPage(req.actor, req.shown)
        /\ \A f \in Fields \ {"at", "rows"} : req'[f] = req[f]
    BY <1>1, <1>10 DEF ReadPage, RequestInv, Fields
  <2>2. req'.rows \in Seq(Domains)
    BY <1>2, <2>1, PageForm DEF Form
  <2> QED
    BY <1>2, <2>1, <2>2 DEF Form, Fields
<1>11. CASE ReadReach
  <2>1. /\ req'.reach = LargestReach(clock)
        /\ \A f \in Fields \ {"at", "reach"} : req'[f] = req[f]
    BY <1>1, <1>11 DEF ReadReach, RequestInv, Fields
  <2>2. LargestReach(clock) \in Nat
    BY ReachOfAll
  <2> QED
    BY <1>2, <2>1, <2>2 DEF Form, Fields
<1>12. CASE ReadDomains
  <2>1. /\ req'.reach \in {req.reach, LargestReach(clock)}
        /\ req'.identities \in {req.identities, Identities(Since(clock))}
        /\ \A f \in Fields \ {"at", "reach", "identities"} : req'[f] = req[f]
    BY <1>1, <1>12 DEF ReadDomains, RequestInv, Fields
  <2>2. LargestReach(clock) \in Nat
    BY ReachOfAll
  <2>3. Since(clock) \subseteq queries /\ IsFiniteSet(queries)
    BY DEF Since, StoreInv, LogInv
  <2>4. Identities(Since(clock)) \in Nat
    BY <2>3, IdentitiesGrow
  <2> QED
    BY <1>2, <2>1, <2>2, <2>4 DEF Form, Fields
<1>13. CASE ReadSpikes
  <2>1. /\ req'.now = clock /\ req'.spikes \subseteq Spikes
        /\ \A f \in Fields \ {"at", "now", "spikes"} : req'[f] = req[f]
    BY <1>1, <1>13 DEF ReadSpikes, RequestInv, Fields
  <2> QED
    BY <1>2, <2>1 DEF Form, Fields
<1>14. CASE NameSpike
  <2>1. PICK s \in req.spikes :
          LET top == IF s.kind = "tracker" THEN TopTracker(s.mac, req.now) ELSE TopRisen(s.mac, req.now)
          IN \E g \in IF top = {} THEN {<<0, "">>} ELSE top :
               req' = [req EXCEPT !.at = IF req.spikes = {s} THEN "done" ELSE @,
                                  !.spikes = @ \ {s}, !.named = @ \cup {<<s, g>>}]
    BY <1>14 DEF NameSpike
  <2>2. PICK g \in Nat \X (Categories \cup {""}) :
          req' = [req EXCEPT !.at = IF req.spikes = {s} THEN "done" ELSE @,
                             !.spikes = @ \ {s}, !.named = @ \cup {<<s, g>>}]
    <3>1. /\ TopTracker(s.mac, req.now) \subseteq Nat \X (Categories \cup {""})
          /\ TopRisen(s.mac, req.now) \subseteq Nat \X (Categories \cup {""})
      <4>1. Nat \X Categories \subseteq Nat \X (Categories \cup {""})
        OBVIOUS
      <4> QED
        BY <4>1, NamedForm, Zenon
    <3>2. <<0, "">> \in Nat \X (Categories \cup {""})
      OBVIOUS
    <3> QED
      BY <2>1, <3>1, <3>2
  <2>3. /\ req'.spikes = req.spikes \ {s} /\ req'.named = req.named \cup {<<s, g>>}
        /\ \A f \in Fields \ {"at", "spikes", "named"} : req'[f] = req[f]
    BY <1>1, <2>2 DEF RequestInv, Fields
  <2>4. <<s, g>> \in Spikes \X (Nat \X (Categories \cup {""}))
    BY <1>2 DEF Form
  <2> QED
    BY <1>2, <2>3, <2>4 DEF Form, Fields
<1> QED
  BY <1>5, <1>6, <1>7, <1>8, <1>9, <1>10, <1>11, <1>12, <1>13, <1>14 DEF Answer

LEMMA FormInvariant == ActivitySpec => []FormInv
<1>1. ActivityInit => FormInv
  BY ActivityAssumption DEF ActivityInit, FormInv, ActivityAssumption
<1>2. StoreInv /\ ActivityInv /\ FormInv /\ [ActivityNext]_allVars => FormInv'
  <2> SUFFICES ASSUME StoreInv, ActivityInv, FormInv, [ActivityNext]_allVars PROVE FormInv'
    OBVIOUS
  <2>0. \A q : Form(q)' = Form(q)
    BY DEF Form, Spikes
  <2>1. CASE UNCHANGED allVars
    BY <2>1 DEF allVars, FormInv, Form, Idle, Spikes
  <2>2. CASE Begin
    BY <2>2, BeginForm
  <2>3. CASE Answer
    <3>1. clock' = clock /\ (req' # Idle => Form(req'))
      BY <2>3, AnswerReads, AnswerForm
    <3> QED
      BY <3>1 DEF FormInv, Form, Idle, Spikes
  <2>4. CASE (StoreStep \/ SaveDevice \/ Tick) /\ Watch
    <3>1. clock' \in Times
      BY <2>4 DEF StoreStep, SaveDevice, Tick, FormInv
    <3>2. CASE req' = Idle
      BY <3>1, <3>2 DEF FormInv, Idle
    <3>3. CASE RequestInv /\ Meanwhile
      <4>1. Form(req)
        BY <3>3 DEF FormInv, RequestInv, Idle, PageSteps, ListSteps
      <4>2. Form(req')
        BY <3>3, <4>1 DEF Meanwhile, Form, Fields
      <4> QED
        BY <3>1, <4>2 DEF FormInv, Form, Idle, Spikes
    <3> QED
      BY <2>4, <3>2, <3>3, OthersWork
  <2> QED
    BY <2>1, <2>2, <2>3, <2>4 DEF ActivityNext
<1> QED
  BY <1>1, <1>2, StoreInvariant, ActivityInvariant, PTL DEF ActivitySpec

\* The store and the requests keep their shape for any log, batch and chunk: numbers
\* are given once, no count exceeds the rows ever stored, no chunk its LIMIT, and every
\* field of an answer, at whatever step the request is, holds what it should.
THEOREM ActivityTypeCorrect == ActivitySpec => []ActivityTypeOK
<1>1. StoreInv /\ ActivityInv /\ NumbersInv /\ StepsInv /\ FormInv => ActivityTypeOK
  <2> SUFFICES ASSUME StoreInv, ActivityInv, NumbersInv, StepsInv, FormInv PROVE ActivityTypeOK
    OBVIOUS
  <2>1. TypeOK
    BY StoreTypes
  <2>2. CASE req # Idle
    <3>1. RequestInv /\ Form(req)
      BY <2>2 DEF ActivityInv, FormInv
    <3>2. req.at \in {"devices", "sources", "total", "summary", "counts", "page", "reach", "api", "api2",
                      "anomalies", "spikes", "done"}
      BY <3>1 DEF RequestInv, PageSteps, ListSteps
    <3>3. req = [at |-> req.at, spikes |-> req.spikes, named |-> req.named, actor |-> req.actor,
                 asked |-> req.asked, now |-> req.now, calm |-> req.calm, gone |-> req.gone,
                 known |-> req.known, roster |-> req.roster, sources |-> req.sources, total |-> req.total,
                 identities |-> req.identities, reach |-> req.reach, matched |-> req.matched,
                 shown |-> req.shown, rows |-> req.rows]
      BY <3>1 DEF RequestInv, Fields
    <3>4. req \in Answered
      <4>1. /\ req.actor \in Actors \cup {Network} /\ req.asked \in Nat
            /\ req.calm \in BOOLEAN /\ req.gone \in BOOLEAN
        BY <3>1 DEF RequestInv
      <4> QED
        BY <3>1, <3>2, <3>3, <4>1 DEF Form, Answered
    <3> QED
      BY <2>1, <3>4 DEF ActivityTypeOK, ActivityInv, FormInv
  <2>3. CASE req = Idle
    BY <2>1, <2>3 DEF ActivityTypeOK, ActivityInv, FormInv
  <2> QED
    BY <2>2, <2>3
<1> QED
  BY <1>1, StoreInvariant, ActivityInvariant, NumbersInvariant, FormInvariant, PTL

-----------------------------------------------------------------------------
\* The pool of connections, with any size and any number of goroutines

CONSTANTS Callers, Nested, PoolSize, MaxSpikes
VARIABLES inCall, found

Pool == INSTANCE ConnPool WITH at <- inCall, spikes <- found

\* ConnPool counts with the same operators.
LEMMA PoolSets == \A S : /\ Pool!IsFiniteSet(S) = IsFiniteSet(S)
                        /\ Pool!Cardinality(S) = Cardinality(S)
BY DEF Pool!IsFiniteSet, IsFiniteSet, Pool!Cardinality, Cardinality

HoldingOne == {"reading", "waitingInner", "inner"}

\* Sets of callers are finite, and moving one caller moves one element.
LEMMA CallersFinite ==
    ASSUME Pool!PoolAssumption, NEW places
    PROVE  /\ IsFiniteSet(Pool!At(places)) /\ Cardinality(Pool!At(places)) \in Nat
           /\ Pool!At(places) \subseteq Callers
<1>1. Pool!At(places) \subseteq Callers
  BY DEF Pool!At
<1> QED
  BY PoolSets, <1>1, Pool!PoolAssumption, FS_Subset, FS_CardinalityType DEF Pool!PoolAssumption

\* A caller that comes to a place it was not in adds one to its cardinality.
LEMMA Enter ==
    ASSUME NEW S, NEW T, NEW c, IsFiniteSet(S), c \notin S, T = S \cup {c}
    PROVE  Cardinality(T) = Cardinality(S) + 1
BY FS_AddElement

\* The part of Pool!TypeOK that says where the goroutines are.
PoolShape ==
    /\ inCall \in [Callers -> Pool!Places]
    /\ found \in [Callers -> 0..MaxSpikes]
    /\ Pool!At({"waitingInner", "inner"}) \subseteq Nested

LEMMA PoolShapeInvariant ==
    ASSUME Pool!PoolAssumption
    PROVE  Pool!Spec => []PoolShape
<1>1. Pool!Init => PoolShape
  BY Pool!PoolAssumption DEF Pool!Init, PoolShape, Pool!At, Pool!Places, Pool!PoolAssumption
<1>2. PoolShape /\ [Pool!Next]_(Pool!vars) => PoolShape'
  <2> SUFFICES ASSUME PoolShape, [Pool!Next]_(Pool!vars) PROVE PoolShape'
    OBVIOUS
  <2>1. CASE UNCHANGED Pool!vars
    BY <2>1 DEF PoolShape, Pool!vars, Pool!At
  <2>2. CASE Pool!Next
    <3> PICK c \in Callers : \/ Pool!Call(c) \/ Pool!Connect(c) \/ Pool!Spike(c)
                             \/ Pool!ConnectInner(c) \/ Pool!InnerReturns(c) \/ Pool!Return(c)
      BY <2>2 DEF Pool!Next
    <3>1. inCall' \in [Callers -> Pool!Places] /\ found' \in [Callers -> 0..MaxSpikes]
      BY Pool!PoolAssumption DEF Pool!PoolAssumption, PoolShape, Pool!Places, Pool!Call, Pool!Connect, Pool!Spike, Pool!ConnectInner,
                            Pool!InnerReturns, Pool!Return
    <3>2. ASSUME NEW d \in Callers, inCall'[d] \in {"waitingInner", "inner"} PROVE d \in Nested
      BY <3>2 DEF PoolShape, Pool!Places, Pool!At, Pool!Call, Pool!Connect, Pool!Spike, Pool!ConnectInner, Pool!InnerReturns, Pool!Return
    <3> QED
      BY <3>1, <3>2 DEF PoolShape, Pool!At
  <2> QED
    BY <2>1, <2>2 DEF Pool!vars
<1> QED
  BY <1>1, <1>2, PTL DEF Pool!Spec

\* No step takes more connections than are free.
LEMMA PoolBounded ==
    ASSUME Pool!PoolAssumption, PoolShape, Pool!InUse <= PoolSize, [Pool!Next]_(Pool!vars)
    PROVE  Pool!InUse' <= PoolSize
<1> DEFINE H == Pool!At(HoldingOne) 
           I == Pool!At({"inner"})
<1>1. /\ IsFiniteSet(H) /\ Cardinality(H) \in Nat /\ IsFiniteSet(H') /\ Cardinality(H') \in Nat
      /\ IsFiniteSet(I) /\ Cardinality(I) \in Nat /\ IsFiniteSet(I') /\ Cardinality(I') \in Nat
  <2>1. IsFiniteSet(H) /\ Cardinality(H) \in Nat /\ IsFiniteSet(I) /\ Cardinality(I) \in Nat
    BY CallersFinite
  <2>2. H' \subseteq Callers /\ I' \subseteq Callers
    BY DEF Pool!At
  <2> QED
    BY <2>1, <2>2, PoolSets, Pool!PoolAssumption, FS_Subset, FS_CardinalityType DEF Pool!PoolAssumption
<1>2. Pool!InUse = Cardinality(H) + Cardinality(I) /\ Pool!InUse' = Cardinality(H') + Cardinality(I')
  BY PoolSets DEF Pool!InUse, HoldingOne
<1>3. PoolSize \in Nat
  BY Pool!PoolAssumption DEF Pool!PoolAssumption
<1>4. CASE UNCHANGED Pool!vars
  <2>1. H' = H /\ I' = I
    BY <1>4 DEF Pool!vars, Pool!At
  <2> QED
    BY <2>1, <1>2
<1>5. CASE Pool!Next
  <2> PICK c \in Callers : \/ Pool!Call(c) \/ Pool!Connect(c) \/ Pool!Spike(c)
                           \/ Pool!ConnectInner(c) \/ Pool!InnerReturns(c) \/ Pool!Return(c)
    BY <1>5 DEF Pool!Next
  <2> USE DEF PoolShape, Pool!Places
  <2>1. CASE Pool!Call(c) \/ Pool!Spike(c)
    <3>1. H' = H /\ I' = I
      BY <2>1 DEF Pool!Call, Pool!Spike, Pool!At, HoldingOne
    <3> QED
      BY <3>1, <1>2
  <2>2. CASE Pool!Connect(c)
    <3>1. c \notin H /\ H' = H \cup {c} /\ I' = I
      BY <2>2 DEF Pool!Connect, Pool!At, HoldingOne
    <3>2. Cardinality(H') = Cardinality(H) + 1
      BY <3>1, <1>1, Enter
    <3>3. Pool!InUse < PoolSize
      BY <2>2 DEF Pool!Connect, Pool!Free
    <3> QED
      BY <3>1, <3>2, <3>3, <1>1, <1>2, <1>3
  <2>3. CASE Pool!ConnectInner(c)
    <3>1. c \notin I /\ I' = I \cup {c} /\ H' = H
      BY <2>3 DEF Pool!ConnectInner, Pool!At, HoldingOne
    <3>2. Cardinality(I') = Cardinality(I) + 1
      BY <3>1, <1>1, Enter
    <3>3. Pool!InUse < PoolSize
      BY <2>3 DEF Pool!ConnectInner, Pool!Free
    <3> QED
      BY <3>1, <3>2, <3>3, <1>1, <1>2, <1>3
  <2>4. CASE Pool!InnerReturns(c) \/ Pool!Return(c)
    <3>1. H' \subseteq H /\ I' \subseteq I
      BY <2>4 DEF Pool!InnerReturns, Pool!Return, Pool!At, HoldingOne
    <3>2. Cardinality(H') <= Cardinality(H) /\ Cardinality(I') <= Cardinality(I)
      BY <3>1, <1>1, FS_Subset
    <3> QED
      BY <3>2, <1>1, <1>2, <1>3
  <2> QED
    BY <2>1, <2>2, <2>3, <2>4
<1> QED
  BY <1>4, <1>5 DEF Pool!vars

\* SetMaxOpenConns holds: whoever connects, the connections in use are at most
\* PoolSize, and only DeviceAnomalies ever waits with one in hand.
THEOREM PoolTypeCorrect ==
    ASSUME Pool!PoolAssumption
    PROVE  Pool!Spec => []Pool!TypeOK
<1>1. Pool!Init => Pool!InUse <= PoolSize
  <2> SUFFICES ASSUME Pool!Init PROVE Pool!InUse <= PoolSize
    OBVIOUS
  <2>1. Pool!At({"reading", "waitingInner", "inner"}) = {} /\ Pool!At({"inner"}) = {}
    BY DEF Pool!Init, Pool!At
  <2> QED
    BY <2>1, FS_EmptySet, PoolSets, Pool!PoolAssumption DEF Pool!InUse, Pool!PoolAssumption
<1>2. PoolShape /\ Pool!InUse <= PoolSize /\ [Pool!Next]_(Pool!vars) => (Pool!InUse <= PoolSize)'
  BY PoolBounded
<1>3. PoolShape /\ Pool!InUse <= PoolSize => Pool!TypeOK
  BY DEF PoolShape, Pool!TypeOK
<1> QED
  BY <1>1, <1>2, <1>3, PoolShapeInvariant, PTL DEF Pool!Spec

\* While fewer goroutines call DeviceAnomalies than there are connections, nobody
\* waits for ever: those that hold connections cannot all be waiting for another.
\* With two connections that is one caller; a second can block every user of the
\* database, the writer included.
THEOREM PoolNeverStuck ==
    ASSUME Pool!PoolAssumption, Cardinality(Nested) < PoolSize
    PROVE  Pool!Spec => []Pool!NotStuck
<1>1. PoolShape => Pool!NotStuck
  <2> SUFFICES ASSUME PoolShape, Pool!At({"reading", "inner"}) = {} PROVE Pool!Free
    BY DEF Pool!NotStuck
  <2>1. Pool!At({"reading", "waitingInner", "inner"}) \subseteq Nested /\ Pool!At({"inner"}) = {}
    BY DEF PoolShape, Pool!At
  <2>2. IsFiniteSet(Nested)
    BY PoolSets, Pool!PoolAssumption, FS_Subset DEF Pool!PoolAssumption
  <2>3. Cardinality(Pool!At({"reading", "waitingInner", "inner"})) <= Cardinality(Nested)
    BY <2>1, <2>2, FS_Subset
  <2>4. Cardinality(Pool!At({"inner"})) = 0
    BY <2>1, FS_EmptySet
  <2>5. /\ Cardinality(Nested) \in Nat
        /\ Cardinality(Pool!At({"reading", "waitingInner", "inner"})) \in Nat
    BY <2>2, CallersFinite, FS_CardinalityType
  <2> QED
    BY PoolSets, <2>3, <2>4, <2>5, Pool!PoolAssumption DEF Pool!Free, Pool!InUse, Pool!PoolAssumption
<1> QED
  BY <1>1, PoolShapeInvariant, PTL
=============================================================================
