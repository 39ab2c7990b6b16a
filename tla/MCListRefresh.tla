-------------------------- MODULE MCListRefresh --------------------------
\* Small instances of ListRefresh for TLC: two lists that share a domain.  The URL of
\* the first may drop it; their names differ, or are equal.
EXTENDS ListRefresh

CONSTANTS l1, l2, d1, d2

MCVersions == [l \in Lists |-> IF l = l1 THEN {{d1, d2}, {d1}} ELSE {{d2}}]
MCOneVersion == [l \in Lists |-> IF l = l1 THEN {{d1, d2}} ELSE {{d2}}]
MCName == [l \in Lists |-> IF l = l1 THEN 1 ELSE 2]
MCSameName == [l \in Lists |-> 1]
=============================================================================
