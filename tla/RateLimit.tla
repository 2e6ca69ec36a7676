----------------------------- MODULE RateLimit -----------------------------
(***************************************************************************)
(* RateLimit: the counter in Redis by which RateLimitGuard admits so many  *)
(* requests of one client per window.  INCR and EXPIRE are two commands.   *)
(***************************************************************************)
EXTENDS Integers

CONSTANTS
  Points,   \* requests admitted per window
  Request   \* requests at the guard

ASSUME RateAssumption == Points \in Nat \ {0}

VARIABLES
  count,    \* the counter; 0: no key.  What is above Points + 1 counts as that
  ticking,  \* the key has a time to live
  guard,    \* requests: outside, or with what INCR answered
  admitted, \* history: requests admitted since the key was created
  orphaned  \* history: a request died between INCR and EXPIRE

rateVars == <<count, ticking, guard, admitted, orphaned>>

\* The counter never passes its cap.
RateTypeOK ==
  /\ count \in 0 .. Points + 1
  /\ ticking \in BOOLEAN /\ orphaned \in BOOLEAN
  /\ guard \in [Request -> 0 .. Points + 1] /\ admitted \in Nat

RateInit ==
  /\ count = 0 /\ ticking = FALSE /\ admitted = 0 /\ orphaned = FALSE
  /\ guard = [r \in Request |-> 0]

\* Fault: the number of requests before this one is compared.
AdmitsLate(n) == n - 1 <= Points

Admits(n) == n <= Points

\* INCR
Incr(r) ==
  /\ guard[r] = 0
  /\ count' = IF count > Points THEN count ELSE count + 1
  /\ guard' = [guard EXCEPT ![r] = count']
  /\ admitted' = IF Admits(count') THEN admitted + 1 ELSE admitted
  /\ UNCHANGED <<ticking, orphaned>>

\* Fault: the second request starts the clock.
StartsClockLate(n) == n = 2

StartsClock(n) == n = 1

\* EXPIRE, for the first of a window only; then the request is let in or refused.
Passes1(r) ==
  /\ guard[r] > 0
  /\ ticking' = (ticking \/ StartsClock(guard[r]))
  /\ guard' = [guard EXCEPT ![r] = 0]
  /\ UNCHANGED <<count, admitted, orphaned>>

\* External: Redis removes the key.
WindowEnds ==
  /\ ticking
  /\ ticking' = FALSE /\ count' = 0 /\ admitted' = 0
  /\ UNCHANGED <<guard, orphaned>>

\* The process dies, or Redis does not answer.
RateCrash ==
  /\ \E r \in Request : guard[r] > 0
  /\ guard' = [r \in Request |-> 0]
  /\ orphaned' = (orphaned \/ \E r \in Request : StartsClock(guard[r]))
  /\ UNCHANGED <<count, ticking, admitted>>

RateNext == (\E r \in Request : Incr(r) \/ Passes1(r)) \/ WindowEnds \/ RateCrash

RateSpec == RateInit /\ [][RateNext]_rateVars

RateFairness ==
  /\ \A r \in Request : WF_rateVars(Passes1(r))
  /\ WF_rateVars(WindowEnds)

-----------------------------------------------------------------------------
(* No window admits more than its points, however requests overlap, and the   *)
(* counter keeps its shape.                                                   *)
AtMostPoints == RateTypeOK /\ admitted <= Points

(* Every window ends, so that nobody is shut out for good, unless a request   *)
(* died between the two commands.                                             *)
Reopens == count > 0 ~> (count = 0 \/ orphaned)
=============================================================================
