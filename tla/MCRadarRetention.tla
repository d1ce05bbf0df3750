-------------------------- MODULE MCRadarRetention --------------------------
EXTENDS RadarRetention, TLC

\* The goroutines of the verdict workers may be renamed.
Symmetry == Permutations(Analysts)

\* A bound on the retries: the last row made for an event is not followed once it
\* has been claimed again as exhausted; the rows before it are.
RetriesBounded ==
  \A v \in Events :
    Present("proc", v) /\ src["proc"][v].body.made = MaxMade
      => src["proc"][v].body.attempts <= RetryLimit
=============================================================================
