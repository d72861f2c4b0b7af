--------------------------------- MODULE Ratio ---------------------------------
(***************************************************************************)
(* The arithmetic of the sampling ratio of a call stack (causer.cpp).  A   *)
(* ratio is a number of parts of UpperBound; UpperBound itself means that  *)
(* the call stack is known to overflow, and is never reduced.              *)
(***************************************************************************)
EXTENDS Integers

CONSTANTS
  UpperBound,        \* MAX_WATCH_RATIO_UPPERBOUND
  SecondUpperBound,  \* MAX_WATCH_RATIO_SECOND_UPPERBOUND
  CalledReduction,   \* CALLED_REDUCTION
  ReductionToMin,    \* REDUCTION_TO_MIN
  InitRatio          \* INIT_WATCH_RATIO

ASSUME RatioAssumption ==
  /\ UpperBound \in Nat /\ SecondUpperBound \in Nat /\ CalledReduction \in Nat
  /\ ReductionToMin \in Nat \ {0}
  /\ InitRatio \in ReductionToMin..(UpperBound - 1)
  /\ SecondUpperBound >= UpperBound

Ratios == ReductionToMin..UpperBound

AtLeastMin(r) == IF r < ReductionToMin THEN ReductionToMin ELSE r

Reduced(r) == AtLeastMin(r - CalledReduction)

\* WATCHED_REDUCTION * 0.1 is 0.5, and the product is cut off.
Halved(r) == AtLeastMin(r \div 2)

\* Mutant of AfterCall: a ratio at the upper bound is reduced like any other.
AfterCallAlways(r) == Reduced(r)

\* updateWatchedInfo for a call that was not watched ...
AfterCall(r) == IF r = UpperBound THEN r ELSE Reduced(r)

\* ... and for one that was.
AfterWatch(r) == IF r = UpperBound THEN r ELSE Halved(r)

\* How much operator<< adds to the ratio of a call stack watched so often; boost is
\* boostratio, 0 when some call stack is known to overflow.
Bonus(watched, boost) ==
  boost * CASE watched < 2         -> UpperBound \div 2
            [] watched \in 2..4    -> UpperBound \div (watched + 1)
            [] OTHER               -> 0

Capped(r) == IF r > UpperBound THEN UpperBound - 1 ELSE r

\* Mutant of Boosted: a call stack known to overflow is capped like any other.
BoostedAlways(r, watched, boost) ==
  IF r + Bonus(watched, boost) >= UpperBound THEN UpperBound - 1 ELSE r + Bonus(watched, boost)

\* The ratio operator<< writes.
Boosted(r, watched, boost) ==
  IF r = UpperBound THEN r ELSE Capped(r + Bonus(watched, boost))

\* Mutant of Draws: every number is drawn below the second upper bound.
DrawsOfSecond(throttled) == 0..(SecondUpperBound - 1)

\* What arc4random_uniform may give startWatch to compare with the ratio.
Draws(throttled) == 0..((IF throttled THEN SecondUpperBound ELSE UpperBound) - 1)

=============================================================================
