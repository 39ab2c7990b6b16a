------------------------- MODULE RateLimiterProofs -------------------------
(***************************************************************************)
(* What RateLimiter guarantees for every number of goroutines and sources, *)
(* every limit, every clock resolution and every interleaving.             *)
(***************************************************************************)
EXTENDS RateLimiter, TLAPS

\* A second is a positive number: windowStart = 0 is before every window.
LEMMA WindowNat == \A now \in Stamps : Window(now) \in Nat /\ Window(now) > 0
  <1>1. SUFFICES ASSUME NEW now \in Stamps
                 PROVE  now \div TicksPerSecond \in Nat
        BY DEF Window
  <1> QED BY LimiterAssumption DEF Stamps

LEMMA WindowsNat == \A w \in Windows : w \in Nat /\ w > 0
  BY WindowNat DEF Windows

LEMMA WindowInWindows == \A now \in Stamps : Window(now) \in Windows
  BY DEF Windows

\* One more use of the allowance, and one more opening of a window.
LEMMA TimesSucc == \A a, b \in Nat : /\ a * b \in Nat
                                     /\ a * (b + 1) = a * b + a
  OBVIOUS

LEMMA TimesMonotone == \A a, b, c \in Nat : b <= c => a * b <= a * c
  OBVIOUS

-----------------------------------------------------------------------------
\* What the two outcomes of Allow share: handler h runs Allow with stamp now of
\* source s, in window w.
LEMMA AllowTypes ==
  ASSUME TypeOK, NEW h \in Handlers, handler[h].at = "stamped"
  PROVE  /\ handler[h].source \in Sources
         /\ handler[h].now \in Stamps
         /\ Window(handler[h].now) \in Windows
         /\ CountsIn(Window(handler[h].now)) \in [Sources -> Nat]
  <1>1. handler[h] \in [at : {"stamped"}, source : Sources, now : Stamps]
        BY DEF TypeOK, HandlerState, Idle
  <1>2. CountsIn(Window(handler[h].now)) \in [Sources -> Nat]
        BY DEF TypeOK, CountsIn
  <1> QED BY <1>1, <1>2, WindowInWindows

\* The window check keeps the types of everything it sets.
LEMMA EnterWindowTypes ==
  ASSUME TypeOK, NEW w \in Windows, EnterWindow(w)
  PROVE  /\ windowStart' \in {0} \cup Windows
         /\ opened' \in [Windows -> Nat]
         /\ reversals' \in Nat
  BY DEF TypeOK, EnterWindow

LEMMA KeptSubset ==
  ASSUME NEW w, NEW now
  PROVE  KeptRefusals(w, now) \subseteq DOMAIN refusals
  BY DEF KeptRefusals

\* The limiter's state stays within its types: in particular Allow only ever
\* looks up sources and windows it knows.
THEOREM TypeCorrect == Spec => []TypeOK
  <1>1. Init => TypeOK
    BY LimiterAssumption, WindowsNat DEF Init, TypeOK, Stamps, HandlerState, Idle
  <1>2. TypeOK /\ [Next]_vars => TypeOK'
    <2> SUFFICES ASSUME TypeOK, [Next]_vars PROVE TypeOK'
        OBVIOUS
    <2>1. CASE Tick
      BY <2>1, LimiterAssumption DEF Tick, TypeOK, Stamps, HandlerState, Idle, RefusalRecord
    <2>2. ASSUME NEW h \in Handlers, NEW s \in Sources, Stamp(h, s) PROVE TypeOK'
      <3>1. [at |-> "stamped", source |-> s, now |-> clock] \in HandlerState
            BY DEF HandlerState, TypeOK
      <3>2. handler' \in [Handlers -> HandlerState]
            BY <2>2, <3>1 DEF Stamp, TypeOK
      <3> QED BY <2>2, <3>2 DEF Stamp, TypeOK
    <2>3. ASSUME NEW h \in Handlers, Admit(h) PROVE TypeOK'
      <3> DEFINE s == handler[h].source
                 now == handler[h].now
                 w == Window(now)
      <3>1. s \in Sources /\ now \in Stamps /\ w \in Windows /\ CountsIn(w) \in [Sources -> Nat]
            BY <2>3, AllowTypes DEF Admit
      <3>2. /\ windowStart' \in {0} \cup Windows /\ opened' \in [Windows -> Nat]
            /\ reversals' \in Nat
            BY <2>3, <3>1, EnterWindowTypes DEF Admit
      <3>3. handler' \in [Handlers -> HandlerState]
            BY <2>3 DEF Admit, TypeOK, HandlerState
      <3>4. counts' \in [Sources -> Nat]
            BY <2>3, <3>1 DEF Admit
      <3>5. /\ DOMAIN refusals' \subseteq Sources
            /\ \A t \in DOMAIN refusals' : refusals'[t] \in RefusalRecord
            BY <2>3, KeptSubset DEF Admit, TypeOK
      <3>6. admitted' \in [Sources -> [Windows -> Nat]]
            BY <2>3, <3>1 DEF Admit, TypeOK
      <3> QED BY <2>3, <3>2, <3>3, <3>4, <3>5, <3>6 DEF Admit, TypeOK
    <2>4. ASSUME NEW h \in Handlers, Refuse(h) PROVE TypeOK'
      <3> DEFINE s == handler[h].source
                 now == handler[h].now
                 w == Window(now)
                 kept == KeptRefusals(w, now)
      <3>1. s \in Sources /\ now \in Stamps /\ w \in Windows /\ CountsIn(w) \in [Sources -> Nat]
            BY <2>4, AllowTypes DEF Refuse
      <3>2. /\ windowStart' \in {0} \cup Windows /\ opened' \in [Windows -> Nat]
            /\ reversals' \in Nat
            BY <2>4, <3>1, EnterWindowTypes DEF Refuse
      <3>3. handler' \in [Handlers -> HandlerState]
            BY <2>4 DEF Refuse, TypeOK, HandlerState
      <3>4. counts' \in [Sources -> Nat]
            BY <2>4, <3>1 DEF Refuse
      <3>5. NextRefusal(kept, s, now) \in RefusalRecord
        <4>1. kept \subseteq DOMAIN refusals
              BY KeptSubset
        <4> HIDE DEF kept, w
        <4>2. CASE s \in kept
              BY <4>1, <4>2, <3>1 DEF NextRefusal, TypeOK, RefusalRecord
        <4>3. CASE s \notin kept
              BY <4>3, <3>1 DEF NextRefusal, RefusalRecord
        <4> QED BY <4>2, <4>3
      <3>6. /\ DOMAIN refusals' \subseteq Sources
            /\ \A t \in DOMAIN refusals' : refusals'[t] \in RefusalRecord
            BY <2>4, <3>1, <3>5, KeptSubset DEF Refuse, TypeOK
      <3>7. lastRefused' \in [Sources -> Stamps \cup {NoStamp}]
            BY <2>4, <3>1 DEF Refuse, TypeOK
      <3>8. disordered' \subseteq Sources
            BY <2>4, <3>1 DEF Refuse, TypeOK
      <3> QED BY <2>4, <3>2, <3>3, <3>4, <3>6, <3>7, <3>8 DEF Refuse, TypeOK
    <2>5. CASE UNCHANGED vars
      BY <2>5 DEF vars, TypeOK
    <2> QED BY <2>1, <2>2, <2>3, <2>4, <2>5 DEF Next
  <1> QED BY <1>1, <1>2, PTL DEF Spec

-----------------------------------------------------------------------------
\* The window check alone keeps the allowance in order: what a change of window
\* throws away is paid for by one more opening.
LEMMA AllowanceAfterCheck ==
  ASSUME TypeOK, AllowanceUsed, NEW w \in Windows, EnterWindow(w),
         NEW s \in Sources, NEW v \in Windows
  PROVE  IF v = w
         THEN /\ opened'[v] > 0
              /\ CountsIn(w)[s] <= Limit
              /\ CountsIn(w)[s] <= admitted[s][v]
              /\ admitted[s][v] + Limit <= Limit * opened'[v] + CountsIn(w)[s]
         ELSE admitted[s][v] <= Limit * opened'[v]
  <1> DEFINE o == opened[v]
             a == admitted[s][v]
             c == counts[s]
  <1>1. o \in Nat /\ a \in Nat /\ c \in Nat /\ Limit \in Nat
        BY LimiterAssumption DEF TypeOK
  <1>2. Limit * o \in Nat /\ Limit * (o + 1) = Limit * o + Limit
        BY <1>1, TimesSucc
  <1>3. IF v = windowStart
        THEN /\ o > 0 /\ c <= Limit /\ c <= a /\ a + Limit <= Limit * o + c
        ELSE a <= Limit * o
        BY DEF AllowanceUsed
  <1>4. opened'[v] = IF v = w /\ w # windowStart THEN o + 1 ELSE o
        BY DEF EnterWindow, TypeOK
  <1>5. CountsIn(w)[s] = IF w = windowStart THEN c ELSE 0
        BY DEF CountsIn
  <1> HIDE DEF o, a, c
  <1> DEFINE p == Limit * o
  <1>6. p \in Nat /\ p = Limit * o /\ Limit * (o + 1) = p + Limit
        BY <1>2
  <1>7. a = admitted[s][v]
        BY DEF a
  <1> HIDE DEF p
  <1>8. CASE v = w /\ w = windowStart
        BY <1>1, <1>3, <1>4, <1>5, <1>6, <1>7, <1>8
  <1>9. CASE v = w /\ w # windowStart
        BY <1>1, <1>3, <1>4, <1>5, <1>6, <1>7, <1>9
  <1>10. CASE v # w
        BY <1>1, <1>3, <1>4, <1>6, <1>7, <1>10
  <1> QED BY <1>8, <1>9, <1>10

\* Between two openings of a window lies a reversal.
LEMMA OpenedAfterCheck ==
  ASSUME TypeOK, OpenedBounded, NEW w \in Windows, EnterWindow(w)
  PROVE  OpenedBounded'
  <1> SUFFICES ASSUME NEW v \in Windows
               PROVE  opened'[v] <= reversals' + (IF v <= windowStart' THEN 1 ELSE 0)
      BY DEF OpenedBounded
  <1>1. v \in Nat /\ w \in Nat /\ windowStart \in Nat /\ opened[v] \in Nat /\ reversals \in Nat
        BY WindowsNat DEF TypeOK
  <1>2. opened[v] <= reversals + (IF v <= windowStart THEN 1 ELSE 0)
        BY DEF OpenedBounded
  <1>3. opened'[v] = IF v = w /\ w # windowStart THEN opened[v] + 1 ELSE opened[v]
        BY DEF EnterWindow, TypeOK
  <1> QED BY <1>1, <1>2, <1>3 DEF EnterWindow

LEMMA AllowanceInductive == TypeOK /\ AllowanceUsed /\ [Next]_vars => AllowanceUsed'
  <1> SUFFICES ASSUME TypeOK, AllowanceUsed, [Next]_vars PROVE AllowanceUsed'
      OBVIOUS
  <1>1. ASSUME UNCHANGED <<windowStart, opened, counts, admitted>> PROVE AllowanceUsed'
        BY <1>1 DEF AllowanceUsed
  <1>2. ASSUME NEW h \in Handlers, Admit(h) PROVE AllowanceUsed'
    <2> DEFINE s == handler[h].source
               w == Window(handler[h].now)
    <2>1. s \in Sources /\ w \in Windows /\ CountsIn(w) \in [Sources -> Nat]
          BY <1>2, AllowTypes DEF Admit
    <2>2. /\ EnterWindow(w) /\ windowStart' = w
          /\ CountsIn(w)[s] < Limit
          /\ counts' = [CountsIn(w) EXCEPT ![s] = @ + 1]
          /\ admitted' = [admitted EXCEPT ![s][w] = @ + 1]
          BY <1>2 DEF Admit, WithinLimit, EnterWindow
    <2>3. opened' \in [Windows -> Nat]
          BY <2>1, <2>2, EnterWindowTypes
    <2> HIDE DEF s, w
    <2> SUFFICES ASSUME NEW t \in Sources, NEW v \in Windows
                 PROVE  IF v = windowStart'
                        THEN /\ opened'[v] > 0
                             /\ counts'[t] <= Limit
                             /\ counts'[t] <= admitted'[t][v]
                             /\ admitted'[t][v] + Limit <= Limit * opened'[v] + counts'[t]
                        ELSE admitted'[t][v] <= Limit * opened'[v]
        BY DEF AllowanceUsed
    <2>4. IF v = w
          THEN /\ opened'[v] > 0
               /\ CountsIn(w)[t] <= Limit
               /\ CountsIn(w)[t] <= admitted[t][v]
               /\ admitted[t][v] + Limit <= Limit * opened'[v] + CountsIn(w)[t]
          ELSE admitted[t][v] <= Limit * opened'[v]
          BY <2>1, <2>2, AllowanceAfterCheck
    <2>5. counts'[t] = IF t = s THEN CountsIn(w)[t] + 1 ELSE CountsIn(w)[t]
          BY <2>1, <2>2
    <2>6. admitted'[t][v] = IF t = s /\ v = w THEN admitted[t][v] + 1 ELSE admitted[t][v]
          BY <2>1, <2>2 DEF TypeOK
    <2>7. /\ admitted[t][v] \in Nat /\ CountsIn(w)[t] \in Nat /\ Limit \in Nat
          /\ opened'[v] \in Nat /\ Limit * opened'[v] \in Nat
          BY <2>1, <2>3, LimiterAssumption, TimesSucc DEF TypeOK
    <2> QED BY <2>2, <2>4, <2>5, <2>6, <2>7
  <1>3. ASSUME NEW h \in Handlers, Refuse(h) PROVE AllowanceUsed'
    <2> DEFINE w == Window(handler[h].now)
    <2>1. w \in Windows
          BY <1>3, AllowTypes DEF Refuse
    <2>2. EnterWindow(w) /\ windowStart' = w /\ counts' = CountsIn(w) /\ admitted' = admitted
          BY <1>3 DEF Refuse, EnterWindow
    <2> QED BY <2>1, <2>2, AllowanceAfterCheck DEF AllowanceUsed
  <1> QED BY <1>1, <1>2, <1>3 DEF Next, Tick, Stamp, vars

LEMMA OpenedInductive == TypeOK /\ OpenedBounded /\ [Next]_vars => OpenedBounded'
  <1> SUFFICES ASSUME TypeOK, OpenedBounded, [Next]_vars PROVE OpenedBounded'
      OBVIOUS
  <1>1. ASSUME UNCHANGED <<windowStart, opened, reversals>> PROVE OpenedBounded'
        BY <1>1 DEF OpenedBounded
  <1>2. ASSUME NEW h \in Handlers, Admit(h) PROVE OpenedBounded'
        BY <1>2, AllowTypes, OpenedAfterCheck DEF Admit
  <1>3. ASSUME NEW h \in Handlers, Refuse(h) PROVE OpenedBounded'
        BY <1>3, AllowTypes, OpenedAfterCheck DEF Refuse
  <1> QED BY <1>1, <1>2, <1>3 DEF Next, Tick, Stamp, vars

\* The counting part of the inductive invariant.
THEOREM AllowanceCorrect == Spec => [](TypeOK /\ AllowanceUsed /\ OpenedBounded)
  <1>1. Init => AllowanceUsed /\ OpenedBounded
    <2> SUFFICES ASSUME Init PROVE AllowanceUsed /\ OpenedBounded
        OBVIOUS
    <2>1. AllowanceUsed
          BY WindowsNat, LimiterAssumption, TimesSucc DEF Init, AllowanceUsed
    <2>2. OpenedBounded
          BY WindowsNat DEF Init, OpenedBounded
    <2> QED BY <2>1, <2>2
  <1> QED BY <1>1, TypeCorrect, AllowanceInductive, OpenedInductive, PTL DEF Spec

\* However many goroutines race, a source passes at most Limit queries of a
\* second, and Limit more for each time the window was moved back.
THEOREM AdmittedBoundedAlways == Spec => []AdmittedBounded
  <1>1. TypeOK /\ AllowanceUsed /\ OpenedBounded => AdmittedBounded
    <2> SUFFICES ASSUME TypeOK, AllowanceUsed, OpenedBounded,
                        NEW s \in Sources, NEW w \in Windows
                 PROVE  admitted[s][w] <= Limit * (1 + reversals)
        BY DEF AdmittedBounded
    <2>1. /\ opened[w] \in Nat /\ reversals \in Nat /\ Limit \in Nat
          /\ admitted[s][w] \in Nat /\ counts[s] \in Nat
          BY LimiterAssumption DEF TypeOK
    <2>2. opened[w] <= 1 + reversals
          BY <2>1 DEF OpenedBounded
    <2>3. Limit * opened[w] <= Limit * (1 + reversals)
          BY <2>1, <2>2, TimesMonotone
    <2>4. /\ Limit * opened[w] \in Nat /\ Limit * (1 + reversals) \in Nat
          BY <2>1, TimesSucc
    <2>5. IF w = windowStart
          THEN counts[s] <= Limit /\ admitted[s][w] + Limit <= Limit * opened[w] + counts[s]
          ELSE admitted[s][w] <= Limit * opened[w]
          BY DEF AllowanceUsed
    <2> QED BY <2>1, <2>3, <2>4, <2>5
  <1> QED BY <1>1, AllowanceCorrect, PTL

\* A query is refused only after Limit queries of the same source and second.
THEOREM NoEarlyRefusalAlways == Spec => NoEarlyRefusal
  <1>1. TypeOK /\ AllowanceUsed /\ [Next]_vars =>
          [\A h \in Handlers : Refuse(h) =>
             admitted[handler[h].source][Window(handler[h].now)] >= Limit]_vars
    <2> SUFFICES ASSUME TypeOK, AllowanceUsed, NEW h \in Handlers, Refuse(h)
                 PROVE  admitted[handler[h].source][Window(handler[h].now)] >= Limit
        OBVIOUS
    <2> DEFINE s == handler[h].source
               w == Window(handler[h].now)
    <2>1. s \in Sources /\ w \in Windows
          BY AllowTypes DEF Refuse
    <2>2. ~ (CountsIn(w)[s] < Limit)
          BY DEF Refuse, WithinLimit
    <2>3. admitted[s][w] \in Nat /\ counts[s] \in Nat /\ Limit \in Nat
          BY <2>1, LimiterAssumption DEF TypeOK
    <2>4. CASE w = windowStart
          BY <2>1, <2>2, <2>3, <2>4 DEF CountsIn, AllowanceUsed
    <2>5. CASE w # windowStart
          BY <2>1, <2>2, <2>3, <2>5 DEF CountsIn
    <2> QED BY <2>4, <2>5
  <1> QED BY <1>1, AllowanceCorrect, PTL DEF Spec, NoEarlyRefusal

-----------------------------------------------------------------------------
\* Pruning by a stamp that is not in the future only forgets refusals that are
\* KeptFor old: what KeptRefusals drops has expired.
LEMMA PrunedExpired ==
  ASSUME TypeOK, RefusalsTracked, NEW now \in Stamps, now <= clock,
         NEW t \in Sources \ disordered, lastRefused[t] # NoStamp,
         t \notin KeptRefusals(Window(now), now)
  PROVE  lastRefused[t] + KeptFor <= clock
  <1>1. lastRefused[t] \in Nat /\ clock \in Nat /\ now \in Nat /\ KeptFor \in Nat
        BY LimiterAssumption DEF TypeOK, Stamps, NoStamp
  <1>2. CASE t \notin DOMAIN refusals
        BY <1>2 DEF RefusalsTracked
  <1>3. CASE t \in DOMAIN refusals
    <2>1. refusals[t].last = lastRefused[t]
          BY <1>3 DEF RefusalsTracked
    <2>2. now >= refusals[t].last + KeptFor
          BY <1>3 DEF KeptRefusals, Expired
    <2> QED BY <1>1, <2>1, <2>2
  <1> QED BY <1>2, <1>3

LEMMA TrackedInductive == TypeOK /\ RefusalsTracked /\ [Next]_vars => RefusalsTracked'
  <1> SUFFICES ASSUME TypeOK, RefusalsTracked, [Next]_vars PROVE RefusalsTracked'
      OBVIOUS
  <1> USE LimiterAssumption DEF Stamps, NoStamp
  <1>1. clock \in Nat /\ KeptFor \in Nat /\ \A s \in Sources : lastRefused[s] \in Nat
        BY DEF TypeOK
  <1>2. CASE Tick
    <2>1. \A h \in Handlers : handler[h].at = "stamped" => handler[h].now \in Nat
          BY AllowTypes
    <2> QED BY <1>1, <1>2, <2>1 DEF Tick, RefusalsTracked
  <1>3. ASSUME NEW h \in Handlers, NEW s \in Sources, Stamp(h, s) PROVE RefusalsTracked'
    <2>1. \A g \in Handlers : handler'[g].at = "stamped" => handler'[g].now <= clock'
          BY <1>1, <1>3 DEF Stamp, TypeOK, RefusalsTracked
    <2> QED BY <1>3, <2>1 DEF Stamp, RefusalsTracked
  <1>4. ASSUME NEW h \in Handlers, Admit(h) PROVE RefusalsTracked'
    <2> DEFINE now == handler[h].now
               kept == KeptRefusals(Window(now), now)
    <2>1. now \in Stamps /\ now <= clock
          BY <1>4, AllowTypes DEF Admit, RefusalsTracked
    <2>2. /\ handler' = [handler EXCEPT ![h] = Idle]
          /\ refusals' = [t \in kept |-> refusals[t]]
          /\ UNCHANGED <<clock, lastRefused, disordered>>
          BY <1>4 DEF Admit
    <2>3. kept \subseteq DOMAIN refusals
          BY KeptSubset
    <2> HIDE DEF kept
    <2>4. \A g \in Handlers : handler'[g].at = "stamped" => handler'[g].now <= clock'
          BY <2>2 DEF TypeOK, RefusalsTracked, Idle
    <2>5. \A t \in DOMAIN refusals' :
             lastRefused'[t] # NoStamp /\ refusals'[t].last <= lastRefused'[t]
          BY <2>2, <2>3 DEF RefusalsTracked
    <2>6. ASSUME NEW t \in Sources \ disordered, lastRefused[t] # NoStamp
          PROVE  IF t \in DOMAIN refusals'
                 THEN refusals'[t].last = lastRefused[t]
                 ELSE lastRefused[t] + KeptFor <= clock
      <3>1. CASE t \in kept
            BY <3>1, <2>2, <2>3, <2>6 DEF RefusalsTracked
      <3>2. CASE t \notin kept
            BY <3>2, <2>1, <2>2, <2>6, PrunedExpired DEF kept
      <3> QED BY <3>1, <3>2
    <2> QED BY <2>2, <2>4, <2>5, <2>6 DEF RefusalsTracked
  <1>5. ASSUME NEW h \in Handlers, Refuse(h) PROVE RefusalsTracked'
    <2> DEFINE s == handler[h].source
               now == handler[h].now
               kept == KeptRefusals(Window(now), now)
    <2>1. s \in Sources /\ now \in Stamps /\ now <= clock
          BY <1>5, AllowTypes DEF Refuse, RefusalsTracked
    <2>2. /\ handler' = [handler EXCEPT ![h] = Idle]
          /\ refusals' = [t \in kept \cup {s} |->
                            IF t = s THEN NextRefusal(kept, s, now) ELSE refusals[t]]
          /\ lastRefused' = [lastRefused EXCEPT ![s] =
                               IF @ = NoStamp \/ @ < now THEN now ELSE @]
          /\ disordered' = IF lastRefused[s] # NoStamp /\ now < lastRefused[s]
                           THEN disordered \cup {s} ELSE disordered
          /\ clock' = clock
          BY <1>5 DEF Refuse
    <2>3. kept \subseteq DOMAIN refusals /\ DOMAIN refusals \subseteq Sources
          BY KeptSubset DEF TypeOK
    <2>4. NextRefusal(kept, s, now).last = now
          BY DEF NextRefusal
    <2>5. /\ lastRefused'[s] = IF lastRefused[s] = NoStamp \/ lastRefused[s] < now
                               THEN now ELSE lastRefused[s]
          /\ \A t \in Sources \ {s} : lastRefused'[t] = lastRefused[t]
          BY <2>1, <2>2 DEF TypeOK
    <2>6. /\ DOMAIN refusals' = kept \cup {s}
          /\ refusals'[s].last = now
          /\ \A t \in kept \ {s} : refusals'[t] = refusals[t]
          BY <2>2, <2>4
    <2> HIDE DEF kept, s, now
    <2>7. \A g \in Handlers : handler'[g].at = "stamped" => handler'[g].now <= clock'
          BY <2>2 DEF TypeOK, RefusalsTracked, Idle
    <2>8. \A t \in DOMAIN refusals' :
             lastRefused'[t] # NoStamp /\ refusals'[t].last <= lastRefused'[t]
      <3>1. lastRefused'[s] # NoStamp /\ refusals'[s].last <= lastRefused'[s]
            BY <1>1, <2>1, <2>5, <2>6
      <3>2. \A t \in kept \ {s} :
               lastRefused'[t] # NoStamp /\ refusals'[t].last <= lastRefused'[t]
            BY <2>3, <2>5, <2>6 DEF RefusalsTracked
      <3> QED BY <2>6, <3>1, <3>2
    <2>9. ASSUME NEW t \in Sources \ disordered', lastRefused'[t] # NoStamp
          PROVE  IF t \in DOMAIN refusals'
                 THEN refusals'[t].last = lastRefused'[t]
                 ELSE lastRefused'[t] + KeptFor <= clock
      <3>1. CASE t = s
            BY <3>1, <1>1, <2>1, <2>2, <2>5, <2>6
      <3>2. CASE t # s /\ t \in kept
            BY <3>2, <2>2, <2>3, <2>5, <2>6, <2>9 DEF RefusalsTracked
      <3>3. CASE t # s /\ t \notin kept
            BY <3>3, <2>1, <2>2, <2>5, <2>6, <2>9, PrunedExpired DEF kept
      <3> QED BY <3>1, <3>2, <3>3
    <2> QED BY <2>2, <2>7, <2>8, <2>9 DEF RefusalsTracked
  <1>6. CASE UNCHANGED vars
        BY <1>6 DEF vars, RefusalsTracked
  <1> QED BY <1>2, <1>3, <1>4, <1>5, <1>6 DEF Next

\* The web pages show exactly the sources refused within KeptFor, except that a
\* source whose refusals were recorded out of order may disappear early.
THEOREM RefusalsReportedAlways == Spec => []RefusalsReported
  <1>1. Init => RefusalsTracked
        BY DEF Init, RefusalsTracked, Idle
  <1>2. TypeOK /\ RefusalsTracked => RefusalsReported
    <2> SUFFICES ASSUME TypeOK, RefusalsTracked PROVE RefusalsReported
        OBVIOUS
    <2>1. clock \in Nat /\ KeptFor \in Nat /\ \A s \in Sources : lastRefused[s] \in Nat
          BY LimiterAssumption DEF TypeOK, Stamps, NoStamp
    <2>2. \A s \in DOMAIN refusals : s \in Sources /\ refusals[s].last \in Nat
          BY DEF TypeOK, RefusalRecord, Stamps
    <2>3. Refusals(clock) \subseteq RefusedWithin(clock)
          BY <2>1, <2>2 DEF Refusals, RefusedWithin, Expired, RefusalsTracked
    <2>4. RefusedWithin(clock) \subseteq Refusals(clock) \cup disordered
          BY <2>1, <2>2 DEF Refusals, RefusedWithin, Expired, RefusalsTracked
    <2> QED BY <2>3, <2>4 DEF RefusalsReported
  <1> QED BY <1>1, <1>2, TypeCorrect, TrackedInductive, PTL DEF Spec
=============================================================================
