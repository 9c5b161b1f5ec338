----------------------------- MODULE MCRollout -----------------------------
(* Small instances of the deploy engine for TLC. *)
EXTENDS Rollout, TLC

\* The calls whose error a rollout sees and answers to.
Seen == {"prepare", "create", "start", "probe", "store", "routes"}

\* One operation: only those calls fail; any call fails; a process death
\* besides those calls.
MCFaultSets == {Seen, AllFaults \ {"crash"}, Seen \cup {"crash"}}

\* Two operations at once: fewer calls fail.
MCConcurrentFaults == {{"start", "probe", "routes", "crash"}, {"store", "list"}}
MCPullFails == {{"prepare"}}
MCCrashes == {{"crash"}}

\* Operations are interchangeable in the safety runs.
OpSymmetry == Permutations(Ops)
=============================================================================
