-------------------------- MODULE MCTwoLevelCache --------------------------
(* TwoLevelCache for TLC: two instances and two fibers whose calls run in *)
(* either, so that calls race inside a process and across processes.       *)
EXTENDS TwoLevelCache, TLC

CONSTANTS i1, i2, f1, f2, k1, k2, d1, d2

MCInstance == {i1, i2}
MCFiber == {f1, f2}
MCKey == {k1, k2}
MCData == {d1, d2}
MCValues == {d2}
MCTtls == {NoTtl}
MCNamespaces == {{k1, k2}}
MCSymmetry ==
  Permutations(MCKey) \cup Permutations(MCFiber) \cup Permutations(MCInstance)
=============================================================================
