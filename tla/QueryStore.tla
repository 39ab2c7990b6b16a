----------------------------- MODULE QueryStore -----------------------------
(***************************************************************************)
(* The table of queries and the hourly counts kept beside it               *)
(* (internal/store/db.go): the writer inserts batches and adds them to the *)
(* counts, the daily purge (runPurge in cmd/umberrelay/main.go) deletes    *)
(* what is older than the retention in transactions of a chunk each and    *)
(* counts the hours it has touched again, and Open fills the counts of a   *)
(* database that has none.                                                 *)
(*                                                                         *)
(* SQLite in WAL mode is external: one connection at a time holds the      *)
(* write lock; a transaction sees the database as it was at its first      *)
(* read, and cannot write once somebody else has committed after that      *)
(* (SQLITE_BUSY_SNAPSHOT, which busy_timeout does not retry).              *)
(***************************************************************************)
EXTENDS Naturals, FiniteSets

CONSTANTS Old,        \* rows that may be there from before
          New,        \* what may be logged: rows, apart from their ids
          Macs, NoMac, Ips, NoIp,
          Domains, Categories,
          Times,      \* timestamps, numbers
          Hour,       \* how many of them make an hour
          Cutoffs,    \* what now - retention may be
          ChunkSize,  \* purgeChunkSize (900)
          BatchSize,  \* of the writer
          MaxNew,     \* bound: rows inserted
          MaxPurges,  \* bound: calls of PurgeQueriesOlderThan
          MaxCrashes  \* bound: crashes

\* A row: id, device_mac, source_ip, timestamp, domain and category.
Rows(Ids) == [id : Ids, mac : Macs \cup {NoMac}, ip : Ips, ts : Times, domain : Domains,
              cat : Categories]
WithId(q, i) == [id |-> i, mac |-> q.mac, ip |-> q.ip, ts |-> q.ts, domain |-> q.domain,
                 cat |-> q.cat]

ASSUME StoreAssumption ==
    /\ Times \subseteq Nat /\ Hour \in Nat \ {0} /\ Cutoffs \subseteq Nat
    /\ IsFiniteSet(Old) /\ \A r \in Old : r.id \in 1..Cardinality(Old)
    /\ Old \subseteq Rows(Nat)
    /\ \A r, s \in Old : r.id = s.id => r = s
    \* what is logged now is not about to expire
    /\ \A q \in New : WithId(q, 1) \in Rows({1}) /\ \A c \in Cutoffs : q.ts >= c
    /\ ChunkSize \in Nat \ {0} /\ BatchSize \in Nat \ {0}
    /\ MaxNew \in Nat /\ MaxPurges \in Nat /\ MaxCrashes \in Nat
    /\ NoMac \notin Macs /\ NoIp \notin Ips

VARIABLES
    queries,         \* committed rows of queries
    nextID,          \* AUTOINCREMENT
    total, tracker,  \* committed rows of query_rollups_hourly; 0 where there is none
    opened,          \* Open has returned
    lock,            \* who holds SQLite's write lock
    batch,           \* the rows that the writer's transaction inserts
    purging,         \* where PurgeQueriesOlderThan is
    cutoff,          \* its argument
    chunk,           \* the rows that the chunk's SELECT found
    stale,           \* somebody has committed since that SELECT
    purges, crashes, \* bounds
    outcome          \* how the latest purge ended

vars == <<queries, nextID, total, tracker, opened, lock, batch, purging, cutoff, chunk, stale,
          purges, crashes, outcome>>
purgeVars == <<purging, cutoff, chunk, stale, purges, outcome>>

Bucket(r) == r.ts \div Hour
Keys == {t \div Hour : t \in Times} \X (Macs \cup {NoMac}) \X (Ips \cup {NoIp})

\* Mutant: a device's rows are spread over the addresses it has used.
RollupKeyByAddress(r) == <<Bucket(r), r.mac, r.ip>>

\* rollupKey: source_ip matters only where no device is known.
RollupKey(r) == <<Bucket(r), r.mac, IF r.mac = NoMac THEN r.ip ELSE NoIp>>

\* What SELECT ... GROUP BY bucket, device_mac, source_key counts in the rows S.
SourceKey(r) == IF r.mac = NoMac THEN r.ip ELSE NoIp
GroupCount(S, k) == Cardinality({r \in S : <<Bucket(r), r.mac, SourceKey(r)>> = k})
\* isTrackingCategory and trackingCategorySQL.
Tracking(S) == {r \in S : r.cat \in {"tracking", "advertising", "malware"}}

Init ==
    /\ queries \in {{}, Old} /\ nextID = Cardinality(Old) + 1
    /\ total = [k \in Keys |-> 0] /\ tracker = [k \in Keys |-> 0]
    /\ opened = FALSE
    /\ lock = "free" /\ batch = {}
    /\ purging = "off" /\ cutoff = 0 /\ chunk = {} /\ stale = FALSE
    /\ purges = 0 /\ crashes = 0 /\ outcome = "none"

\* Open: backfillHourlyRollups counts everything if the table of counts is empty.
Open ==
    /\ ~ opened
    /\ opened' = TRUE
    /\ IF \A k \in Keys : total[k] = 0
       THEN /\ total' = [k \in Keys |-> GroupCount(queries, k)]
            /\ tracker' = [k \in Keys |-> GroupCount(Tracking(queries), k)]
       ELSE UNCHANGED <<total, tracker>>
    /\ UNCHANGED <<queries, nextID, lock, batch, crashes, purgeVars>>

-----------------------------------------------------------------------------
\* WriteQueries.  Its first statement is an INSERT, which waits for the lock.
WriteBegin ==
    /\ opened /\ lock = "free"
    /\ \E n \in 1..BatchSize :
         /\ nextID + n - 1 <= Cardinality(Old) + MaxNew
         /\ \E q \in [nextID .. nextID + n - 1 -> New] :
              batch' = {WithId(q[i], i) : i \in nextID .. nextID + n - 1}
    /\ lock' = "writer"
    /\ UNCHANGED <<queries, nextID, total, tracker, opened, crashes, purgeVars>>

\* The rows and the sums of their counts, in one transaction.
WriteCommit ==
    /\ lock = "writer"
    /\ queries' = queries \cup batch
    /\ nextID' = nextID + Cardinality(batch)
    /\ total' = [k \in Keys |-> total[k] + Cardinality({r \in batch : RollupKey(r) = k})]
    /\ tracker' = [k \in Keys |-> tracker[k] + Cardinality({r \in Tracking(batch) : RollupKey(r) = k})]
    /\ lock' = "free" /\ batch' = {}
    /\ stale' = TRUE
    /\ UNCHANGED <<opened, purging, cutoff, chunk, purges, crashes, outcome>>

\* Any statement may fail; the deferred Rollback ends the transaction.
WriteFails ==
    /\ lock = "writer"
    /\ lock' = "free" /\ batch' = {}
    /\ UNCHANGED <<queries, nextID, total, tracker, opened, crashes, purgeVars>>

\* The other tables are written too: devices, lists, settings.
OtherCommit ==
    /\ opened /\ lock = "free" /\ chunk # {}
    /\ stale' = TRUE
    /\ UNCHANGED <<queries, nextID, total, tracker, opened, lock, batch, purging, cutoff, chunk,
                   purges, crashes, outcome>>

-----------------------------------------------------------------------------
\* runPurge: at the start and once a day.
PurgeBegin ==
    /\ opened /\ purging = "off"
    /\ purges < MaxPurges
    /\ purges' = purges + 1
    /\ cutoff' \in Cutoffs
    /\ purging' = "select"
    /\ outcome' = "none"
    /\ UNCHANGED <<queries, nextID, total, tracker, opened, lock, batch, chunk, stale, crashes>>

Expired == {r \in queries : r.ts < cutoff}

\* SELECT ... ORDER BY timestamp LIMIT ?: rows of the same time come in any order.
Chunks ==
    {S \in SUBSET Expired :
        /\ Cardinality(S) = IF Cardinality(Expired) < ChunkSize THEN Cardinality(Expired) ELSE ChunkSize
        /\ \A r \in S, s \in Expired \ S : r.ts <= s.ts}

\* The first read of purgeChunkOlderThan.  When nothing is found the purge is done.
PurgeSelect ==
    /\ purging = "select"
    /\ chunk' \in Chunks
    /\ stale' = FALSE
    /\ IF chunk' = {} THEN purging' = "off" /\ outcome' = "done"
                      ELSE purging' = "delete" /\ UNCHANGED outcome
    /\ UNCHANGED <<queries, nextID, total, tracker, opened, lock, batch, cutoff, purges, crashes>>

\* The DELETE takes the lock, unless the snapshot is old or the lock is not free
\* in time: then the whole purge returns the error.
PurgeDelete ==
    /\ purging = "delete"
    /\ \/ /\ lock = "free" /\ ~ stale
          /\ lock' = "purge" /\ purging' = "rebuild"
          /\ UNCHANGED <<chunk, outcome>>
       \/ /\ stale \/ lock # "free"
          /\ purging' = "off" /\ chunk' = {} /\ outcome' = "failed"
          /\ UNCHANGED lock
    /\ UNCHANGED <<queries, nextID, total, tracker, opened, batch, cutoff, stale, purges, crashes>>

Touched(left) == {Bucket(r) : r \in chunk}

\* Mutant: one chunk is all of a day's purge.
PurgeCommitOnce ==
    /\ purging = "rebuild"
    /\ queries' = queries \ chunk
    /\ total' = [k \in Keys |-> GroupCount(queries \ chunk, k)]
    /\ tracker' = [k \in Keys |-> GroupCount(Tracking(queries \ chunk), k)]
    /\ lock' = "free" /\ purging' = "off" /\ chunk' = {} /\ outcome' = "done"
    /\ UNCHANGED <<nextID, opened, batch, cutoff, stale, purges, crashes>>

\* rebuildHourlyRollupBucketTx for each hour touched, and the commit.
PurgeCommit ==
    /\ purging = "rebuild"
    /\ LET left == queries \ chunk
           again(k) == k[1] \in Touched(left)
       IN /\ queries' = left
          /\ total' = [k \in Keys |-> IF again(k) THEN GroupCount(left, k) ELSE total[k]]
          /\ tracker' = [k \in Keys |-> IF again(k) THEN GroupCount(Tracking(left), k) ELSE tracker[k]]
    /\ lock' = "free" /\ purging' = "select" /\ chunk' = {}
    /\ UNCHANGED <<nextID, opened, batch, cutoff, stale, purges, crashes, outcome>>

\* Any statement may fail, and the commit: what the transaction did is rolled back,
\* and the whole purge returns the error.
PurgeFails ==
    /\ purging # "off"
    /\ lock' = IF purging = "rebuild" THEN "free" ELSE lock
    /\ purging' = "off" /\ chunk' = {} /\ outcome' = "failed"
    /\ UNCHANGED <<queries, nextID, total, tracker, opened, batch, cutoff, stale, purges, crashes>>

Purge == PurgeSelect \/ PurgeDelete \/ PurgeCommit \/ PurgeFails

\* A crash: what is not committed is gone.
Crash ==
    /\ opened /\ crashes < MaxCrashes
    /\ crashes' = crashes + 1
    /\ opened' = FALSE
    /\ lock' = "free" /\ batch' = {}
    /\ purging' = "off" /\ chunk' = {} /\ stale' = FALSE /\ outcome' = "none"
    /\ UNCHANGED <<queries, nextID, total, tracker, cutoff, purges>>

Next ==
    \/ Open
    \/ WriteBegin \/ WriteCommit \/ WriteFails \/ OtherCommit
    \/ PurgeBegin \/ Purge
    \/ Crash

Spec == Init /\ [][Next]_vars

-----------------------------------------------------------------------------
TypeOK ==
    /\ \A r \in queries \cup chunk : r \in Rows({r.id}) /\ r.id < nextID
    /\ nextID \in 1 .. Cardinality(Old) + MaxNew + 1
    /\ \A r, s \in queries \cup batch : r.id = s.id => r = s
    /\ total \in [Keys -> 0..nextID] /\ tracker \in [Keys -> 0..nextID]
    /\ opened \in BOOLEAN /\ lock \in {"free", "writer", "purge"}
    /\ \A r \in batch : r \in Rows({r.id}) /\ r.id \in nextID .. nextID + BatchSize - 1
    /\ purging \in {"off", "select", "delete", "rebuild"}
    /\ cutoff \in Cutoffs \cup {0} /\ Cardinality(chunk) <= ChunkSize
    /\ stale \in BOOLEAN
    /\ purges \in 0..MaxPurges /\ crashes \in 0..MaxCrashes
    /\ outcome \in {"none", "done", "failed"}

\* The charts, read from the hourly counts, agree with the log: each count is the
\* number of rows of its hour and actor, after any interleaving of the writer's
\* increments, the purge's recounts, failures and crashes.
RollupsAgree ==
    opened => \A k \in Keys : /\ total[k] = GroupCount(queries, k)
                              /\ tracker[k] = GroupCount(Tracking(queries), k)

\* A purge that ends without an error has left nothing older than its cutoff.
DoneMeansAll == outcome = "done" => Expired = {}
=============================================================================
