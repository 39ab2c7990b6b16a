------------------------------ MODULE QueryLog ------------------------------
(***************************************************************************)
(* What the query pipeline promises, whatever its goroutines, channel,     *)
(* batches and shutdown look like: the answered queries it accepts form a  *)
(* queue; from its front, whole batches are either committed to the log in *)
(* order or lost together.  Module Pipeline is shown to implement it.      *)
(***************************************************************************)
EXTENDS Naturals, Sequences

CONSTANT Queries

VARIABLES accepted,  \* queries ever accepted
          pending,   \* accepted queries whose fate is open, oldest first
          log,       \* committed queries, in commit order
          closed     \* the process has exited

vars == <<accepted, pending, log, closed>>

Init == accepted = {} /\ pending = <<>> /\ log = <<>> /\ closed = FALSE

\* Accepted at most once.
Accept(q) ==
    /\ ~ closed
    /\ q \notin accepted
    /\ accepted' = accepted \cup {q}
    /\ pending' = Append(pending, q)
    /\ UNCHANGED <<log, closed>>

\* A transaction writes a batch whole ...
Commit(n) ==
    /\ ~ closed
    /\ log' = log \o SubSeq(pending, 1, n)
    /\ pending' = SubSeq(pending, n + 1, Len(pending))
    /\ UNCHANGED <<accepted, closed>>

\* ... or not at all.
Lose(n) ==
    /\ ~ closed
    /\ pending' = SubSeq(pending, n + 1, Len(pending))
    /\ UNCHANGED <<accepted, log, closed>>

Close == ~ closed /\ closed' = TRUE /\ UNCHANGED <<accepted, pending, log>>

Settle == \E n \in 1..Len(pending) : Commit(n) \/ Lose(n)

Next == (\E q \in Queries : Accept(q)) \/ Settle \/ Close

Spec == Init /\ [][Next]_vars
=============================================================================
