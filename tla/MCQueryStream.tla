-------------------------- MODULE MCQueryStream --------------------------
\* Small instances of QueryStream for TLC.
EXTENDS QueryStream

CONSTANTS c1, c2

\* One client without a filter, and one whose filter hides a query in the middle.
MCWanted == [c \in Conns |-> IF c = c1 THEN 1..MaxRows ELSE (1..MaxRows) \ {2}]
=============================================================================
