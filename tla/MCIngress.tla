----------------------------- MODULE MCIngress -----------------------------
(* Small instances of the ingress for TLC: the app "d" has the dashboard's *)
(* hostname, if it comes to exist.                                         *)
EXTENDS Ingress, TLC

MCHosts == {"a.root", "b.root", "d.root", "x.org"}
MCGenerated == [a |-> "a.root", b |-> "b.root", d |-> "d.root"]
MCCustom == {"b.root", "d.root", "x.org"}

\* What goes wrong in a behaviour, one at a time, and faults with each state of
\* the registry.
Calm == [overlap |-> FALSE, compose |-> FALSE, faults |-> FALSE, registry |-> "up", watched |-> FALSE]
MCConducts == {Calm, [Calm EXCEPT !.compose = TRUE],
               [Calm EXCEPT !.overlap = TRUE, !.compose = TRUE],
               [Calm EXCEPT !.faults = TRUE], [Calm EXCEPT !.watched = TRUE],
               [Calm EXCEPT !.registry = "down"], [Calm EXCEPT !.faults = TRUE, !.registry = "flaky"]}

\* Requests differ in nothing but their names.
Interchangeable == Permutations(Requests)
=============================================================================
