---------------------------- MODULE MCPrimeTrace ----------------------------
(* Models of PrimeTrace for TLC.                                           *)
EXTENDS PrimeTrace

CONSTANTS h1, h2, h3, h4, MCDistances, MCInstances

MCHits == {h1, h2, h3, h4}
MCKeys == [t : MCDistances, primID : 0 .. 1, geomID : {0}, instID : MCInstances]

\* Hits of distinct triangles, before, at the start of, inside and behind
\* the interval of the ray, at different distances or not.
MCModels == {m \in [MCHits -> MCKeys] : \A h, g \in MCHits : m[h] = m[g] => h = g}
=============================================================================
