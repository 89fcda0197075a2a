---------------------------- MODULE MCRateLimit ----------------------------
(* RateLimit for TLC: one client, two instances, two requests at a time, a *)
(* limit of two in a window of one second of two ticks.                    *)
EXTENDS RateLimit, TLC

CONSTANTS i1, i2, r1, r2, ip

MCInstance == {i1, i2}
MCRequest == {r1, r2}
MCKey == {ip}
MCData == Record
MCSymmetry == Permutations(MCInstance) \cup Permutations(MCRequest)

\* A client is told to try again later: a request that arrives once the window has
\* been over for as long as a window and the default time to live together does not
\* find its client at the limit any more.
AtLimit(r) == req[r].at = "read" /\ Count(r) >= Limit

TryAgainLater ==
  [][\A r \in Request : ~AtLimit(r) /\ AtLimit(r)' /\ req[r].at = "idle" =>
       clock <= req'[r].rec.until + (Window + DefaultTtl) * Second]_vars
=============================================================================
