--------------------------- MODULE MCLifecycle ---------------------------
\* Small instances of Lifecycle for TLC: one of the four workers that do nothing
\* but end when ctx is done.
EXTENDS Lifecycle

MCWorkers == <<"listener", "writer", "web">>
=============================================================================
