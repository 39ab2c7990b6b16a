------------------------------ MODULE ConnPool ------------------------------
(***************************************************************************)
(* The database connections: Open lets database/sql open two of them       *)
(* (SetMaxOpenConns in internal/store/db.go), and whoever finds none free  *)
(* waits.  A call reads rows or runs a transaction on one connection, and  *)
(* gives it back at its end.  DeviceAnomalies (GET /api/anomalies and the  *)
(* Activity page) keeps its connection while it asks for a second one, for *)
(* each device with a spike.                                               *)
(*                                                                         *)
(* The pool itself is external.                                            *)
(***************************************************************************)
EXTENDS Naturals, FiniteSets

CONSTANTS Callers,    \* goroutines that use the database
          Nested,     \* those that call DeviceAnomalies
          PoolSize,   \* SetMaxOpenConns (2)
          MaxSpikes   \* bound: spikes that one call finds

\* What the theorems assume of the constants.
PoolAssumption ==
    /\ IsFiniteSet(Callers) /\ Nested \subseteq Callers
    /\ PoolSize \in Nat \ {0} /\ MaxSpikes \in Nat

VARIABLES at,     \* where each goroutine is
          spikes  \* spikes found by its current call of DeviceAnomalies

vars == <<at, spikes>>

At(places) == {c \in Callers : at[c] \in places}

\* A goroutine in the inner query holds two connections.
InUse == Cardinality(At({"reading", "waitingInner", "inner"})) + Cardinality(At({"inner"}))

Free == InUse < PoolSize

Init ==
    /\ at = [c \in Callers |-> "idle"]
    /\ spikes = [c \in Callers |-> 0]

\* Query, Exec or Begin: the goroutine needs a connection.
Call(c) ==
    /\ at[c] = "idle"
    /\ at' = [at EXCEPT ![c] = "waiting"]
    /\ spikes' = [spikes EXCEPT ![c] = 0]

\* It gets one.
Connect(c) ==
    /\ at[c] = "waiting" /\ Free
    /\ at' = [at EXCEPT ![c] = "reading"]
    /\ UNCHANGED spikes

\* DeviceAnomalies comes to a row with a spike: deviceTopTrackerDomain or
\* deviceTopVolumeSpikeDomain needs another while rows is open.
Spike(c) ==
    /\ c \in Nested
    /\ at[c] = "reading" /\ spikes[c] < MaxSpikes
    /\ at' = [at EXCEPT ![c] = "waitingInner"]
    /\ spikes' = [spikes EXCEPT ![c] = @ + 1]

ConnectInner(c) ==
    /\ at[c] = "waitingInner" /\ Free
    /\ at' = [at EXCEPT ![c] = "inner"]
    /\ UNCHANGED spikes

InnerReturns(c) ==
    /\ at[c] = "inner"
    /\ at' = [at EXCEPT ![c] = "reading"]
    /\ UNCHANGED spikes

\* The deferred rows.Close, or the end of the transaction.
Return(c) ==
    /\ at[c] = "reading"
    /\ at' = [at EXCEPT ![c] = "idle"]
    /\ UNCHANGED spikes

Next == \E c \in Callers :
    Call(c) \/ Connect(c) \/ Spike(c) \/ ConnectInner(c) \/ InnerReturns(c) \/ Return(c)

Spec == Init /\ [][Next]_vars

\* Queries end, and a connection that is given back goes to one of those that wait,
\* to each of them at some time.
Fairness == \A c \in Callers :
    /\ WF_vars(InnerReturns(c)) /\ WF_vars(Return(c))
    /\ SF_vars(Connect(c)) /\ SF_vars(ConnectInner(c))
FairSpec == Spec /\ Fairness

-----------------------------------------------------------------------------
Places == {"idle", "waiting", "reading", "waitingInner", "inner"}

TypeOK ==
    /\ at \in [Callers -> Places]
    /\ spikes \in [Callers -> 0..MaxSpikes]
    /\ InUse <= PoolSize
    /\ At({"waitingInner", "inner"}) \subseteq Nested

\* Nobody waits for ever: while some goroutine waits, a connection is free, or one
\* of those that hold them is at work and will give its own back.
NotStuck ==
    At({"waiting", "waitingInner"}) # {} => Free \/ At({"reading", "inner"}) # {}
=============================================================================
