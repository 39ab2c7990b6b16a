---------------------------- MODULE MCConnPool ----------------------------
\* Small instances of ConnPool for TLC.
EXTENDS ConnPool

\* README: GET /api/anomalies answers with an array.  When each of two requests has
\* a connection and wants another, neither is answered.
AnomaliesAnswered == \A c \in Nested : at[c] # "idle" ~> at[c] = "idle"
=============================================================================
