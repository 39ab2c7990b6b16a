-------------------------- MODULE MCRateLimiter --------------------------
\* Small instances of RateLimiter for TLC.
EXTENDS RateLimiter, TLC

\* Goroutines are interchangeable, and so are source IPs.
Symmetric == Permutations(Handlers) \cup Permutations(Sources)
=============================================================================
