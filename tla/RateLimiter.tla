---------------------------- MODULE RateLimiter ----------------------------
(***************************************************************************)
(* The per-source DNS rate limiter (internal/dns/ratelimit.go) and the     *)
(* part of Listener.handleQuery that calls it.                             *)
(*                                                                         *)
(* Each query runs on a goroutine of its own: it reads the clock FIRST     *)
(* (time.Now() is an argument of Allow) and takes the limiter's mutex      *)
(* SECOND, so Allow may run with a `now' older than one it has already     *)
(* seen.  Reading the clock and running Allow are therefore two actions.   *)
(*                                                                         *)
(* Time is counted in ticks, TicksPerSecond of them to a second.           *)
(***************************************************************************)
EXTENDS Naturals, FiniteSets

CONSTANTS Handlers,        \* goroutines that may run handleQuery at one time
          Sources,         \* source IPs
          Limit,           \* QueriesPerSecondPerSource
          TicksPerSecond,  \* resolution of the clock
          KeptFor,         \* refusalsKeptFor, in ticks
          MaxClock,        \* bound: last tick of the clock
          MaxQueries       \* bound: queries that arrive

ASSUME LimiterAssumption ==
    /\ Limit \in Nat
    /\ TicksPerSecond \in Nat \ {0}
    /\ KeptFor \in Nat
    /\ MaxClock \in Nat
    /\ MaxQueries \in Nat

VARIABLES
    clock,        \* the wall clock, in ticks
    arrivals,     \* number of queries that have arrived
    handler,      \* what each goroutine is doing
    windowStart,  \* RateLimiter.windowStart, in seconds plus one; 0 is time.Time{}
    counts,       \* RateLimiter.counts: absent keys are 0
    refusals,     \* RateLimiter.refusals: a function on the sources refused
    \* What the properties remember of the past:
    admitted,     \* admitted[s][w]: queries of s, stamped in window w, that passed
    opened,       \* opened[w]: how often windowStart has been set to w
    reversals,    \* how often windowStart has been set to an earlier window
    lastRefused,  \* newest stamp of a refused query of each source, or NoStamp
    disordered    \* sources refused with a stamp older than an earlier refusal's

impl == <<clock, arrivals, handler, windowStart, counts, refusals>>
vars == <<clock, arrivals, handler, windowStart, counts, refusals,
          admitted, opened, reversals, lastRefused, disordered>>

Stamps  == 0..MaxClock
\* now.Truncate(time.Second).  The zero time is before every real second.
Window(now) == (now \div TicksPerSecond) + 1
Windows == {Window(now) : now \in Stamps}
NoStamp == MaxClock + 1

Idle == [at |-> "idle"]
HandlerState == {Idle} \cup [at : {"stamped"}, source : Sources, now : Stamps]

\* now.Sub(r.Last) >= refusalsKeptFor; Sub may be negative.
Expired(r, now) == now >= r.last + KeptFor

\* RateLimiter.Refusals(now): the records the web pages show.
Refusals(now) == {s \in DOMAIN refusals : ~ Expired(refusals[s], now)}

-----------------------------------------------------------------------------
Init ==
    /\ clock = 0
    /\ arrivals = 0
    /\ handler = [h \in Handlers |-> Idle]
    /\ windowStart = 0
    /\ counts = [s \in Sources |-> 0]
    /\ refusals = [s \in {} |-> [count |-> 0, first |-> 0, last |-> 0]]
    /\ admitted = [s \in Sources |-> [w \in Windows |-> 0]]
    /\ opened = [w \in Windows |-> 0]
    /\ reversals = 0
    /\ lastRefused = [s \in Sources |-> NoStamp]
    /\ disordered = {}

Tick ==
    /\ clock < MaxClock
    /\ clock' = clock + 1
    /\ UNCHANGED <<arrivals, handler, windowStart, counts, refusals,
                   admitted, opened, reversals, lastRefused, disordered>>

\* A query of source s reaches handleQuery, which evaluates time.Now().
Stamp(h, s) ==
    /\ handler[h] = Idle
    /\ arrivals < MaxQueries
    /\ arrivals' = arrivals + 1
    /\ handler' = [handler EXCEPT ![h] = [at |-> "stamped", source |-> s, now |-> clock]]
    /\ UNCHANGED <<clock, windowStart, counts, refusals,
                   admitted, opened, reversals, lastRefused, disordered>>

\* Mutant: the counts are not reset when the window moves.
CountsNeverReset(w) == counts
\* The counts after the window check of Allow.
CountsIn(w) == IF w = windowStart THEN counts ELSE [s \in Sources |-> 0]

\* Mutant: records are pruned by the age of their first refusal.
PrunedByFirst(w, now) ==
    IF w = windowStart THEN DOMAIN refusals
    ELSE {s \in DOMAIN refusals : now < refusals[s].first + KeptFor}
\* The sources whose refusal records survive the window check of Allow.
KeptRefusals(w, now) ==
    IF w = windowStart THEN DOMAIN refusals
    ELSE {s \in DOMAIN refusals : ~ Expired(refusals[s], now)}

\* Mutant: off by one.
WithinLimitInclusive(s, w) == CountsIn(w)[s] <= Limit
\* counts[sourceIP] < QueriesPerSecondPerSource
WithinLimit(s, w) == CountsIn(w)[s] < Limit

\* Every effect of the window check that is not on counts or refusals.
EnterWindow(w) ==
    /\ windowStart' = w
    /\ opened' = IF w = windowStart THEN opened ELSE [opened EXCEPT ![w] = @ + 1]
    /\ reversals' = IF w < windowStart THEN reversals + 1 ELSE reversals

\* The Refusal that Allow stores for a refused query.
NextRefusal(kept, s, now) ==
    IF s \in kept
    THEN [count |-> refusals[s].count + 1, first |-> refusals[s].first, last |-> now]
    ELSE [count |-> 1, first |-> now, last |-> now]

\* Allow returns true: handleQuery goes on to the upstream (module Pipeline).
Admit(h) ==
    /\ handler[h].at = "stamped"
    /\ LET s == handler[h].source
           now == handler[h].now
           w == Window(now)
       IN /\ WithinLimit(s, w)
          /\ EnterWindow(w)
          /\ counts' = [CountsIn(w) EXCEPT ![s] = @ + 1]
          /\ refusals' = [t \in KeptRefusals(w, now) |-> refusals[t]]
          /\ admitted' = [admitted EXCEPT ![s][w] = @ + 1]
    /\ handler' = [handler EXCEPT ![h] = Idle]
    /\ UNCHANGED <<clock, arrivals, lastRefused, disordered>>

\* Allow returns false: the refusal is recorded and the client told REFUSED.
Refuse(h) ==
    /\ handler[h].at = "stamped"
    /\ LET s == handler[h].source
           now == handler[h].now
           w == Window(now)
           kept == KeptRefusals(w, now)
       IN /\ ~ WithinLimit(s, w)
          /\ EnterWindow(w)
          /\ counts' = CountsIn(w)
          /\ refusals' = [t \in kept \cup {s} |->
                            IF t = s THEN NextRefusal(kept, s, now) ELSE refusals[t]]
          /\ disordered' = IF lastRefused[s] # NoStamp /\ now < lastRefused[s]
                            THEN disordered \cup {s} ELSE disordered
          /\ lastRefused' = [lastRefused EXCEPT ![s] =
                               IF @ = NoStamp \/ @ < now THEN now ELSE @]
    /\ handler' = [handler EXCEPT ![h] = Idle]
    /\ UNCHANGED <<clock, arrivals, admitted>>

Next ==
    \/ Tick
    \/ \E h \in Handlers :
          \/ \E s \in Sources : Stamp(h, s)
          \/ Admit(h)
          \/ Refuse(h)

Spec == Init /\ [][Next]_vars

-----------------------------------------------------------------------------
RefusalRecord == [count : Nat, first : Stamps, last : Stamps]

TypeOK ==
    /\ clock \in Stamps
    /\ arrivals \in Nat
    /\ handler \in [Handlers -> HandlerState]
    /\ windowStart \in {0} \cup Windows
    /\ counts \in [Sources -> Nat]
    /\ DOMAIN refusals \subseteq Sources
    /\ \A s \in DOMAIN refusals : refusals[s] \in RefusalRecord
    /\ admitted \in [Sources -> [Windows -> Nat]]
    /\ opened \in [Windows -> Nat]
    /\ reversals \in Nat
    /\ lastRefused \in [Sources -> Stamps \cup {NoStamp}]
    /\ disordered \subseteq Sources

\* However the goroutines interleave, a source passes at most Limit queries of
\* one second for the first use of that second's window and Limit more for each
\* time Allow moved the window back: the counts that a reversal throws away are
\* the only way past the limit (Allow resets counts on every change of window).
AdmittedBounded ==
    \A s \in Sources : \A w \in Windows : admitted[s][w] <= Limit * (1 + reversals)

\* What makes AdmittedBounded inductive: the current window has used counts[s]
\* of the allowance of its latest opening ...
AllowanceUsed ==
    \A s \in Sources : \A w \in Windows :
        IF w = windowStart
        THEN /\ opened[w] > 0
             /\ counts[s] <= Limit
             /\ counts[s] <= admitted[s][w]
             /\ admitted[s][w] + Limit <= Limit * opened[w] + counts[s]
        ELSE admitted[s][w] <= Limit * opened[w]

\* ... and between two openings of a window lies a reversal.
OpenedBounded ==
    \A w \in Windows :
        opened[w] <= reversals + (IF w <= windowStart THEN 1 ELSE 0)

\* A query is refused only when its own source has had its Limit of queries
\* stamped in that same second: neither another source's traffic nor a count
\* carried over from another second ever costs a source a query.
NoEarlyRefusal ==
    [][\A h \in Handlers : Refuse(h) =>
          admitted[handler[h].source][Window(handler[h].now)] >= Limit]_vars

\* Refusals(now), which the web pages read, never shows a source longer than
\* KeptFor after its newest refusal, and shows every source refused within
\* KeptFor, whatever was pruned in between.  Only a source whose refusals Allow
\* recorded out of the order of their stamps may be dropped too early.
RefusedWithin(now) ==
    {s \in Sources : lastRefused[s] # NoStamp /\ now < lastRefused[s] + KeptFor}
RefusalsReported ==
    /\ Refusals(clock) \subseteq RefusedWithin(clock)
    /\ RefusedWithin(clock) \subseteq Refusals(clock) \cup disordered

\* What makes RefusalsReported inductive.
RefusalsTracked ==
    /\ \A h \in Handlers : handler[h].at = "stamped" => handler[h].now <= clock
    /\ \A s \in DOMAIN refusals :
          lastRefused[s] # NoStamp /\ refusals[s].last <= lastRefused[s]
    /\ \A s \in Sources \ disordered : lastRefused[s] # NoStamp =>
          IF s \in DOMAIN refusals
          THEN refusals[s].last = lastRefused[s]
          ELSE lastRefused[s] + KeptFor <= clock

IInv == TypeOK /\ AllowanceUsed /\ OpenedBounded /\ RefusalsTracked
=============================================================================
