--------------------------- MODULE BuildAdmission ---------------------------
(***************************************************************************)
(* What the build pipeline (internal/build/build.go) promises its callers: *)
(* one build of an app at a time, and no more than Capacity builds at once *)
(* over all apps. BuildQueue is shown to implement it.                     *)
(***************************************************************************)
EXTENDS Integers, FiniteSets

CONSTANTS Builds,       \* the builds asked for
          AppOf,        \* the app of each build
          Capacity      \* builds running at once

VARIABLE running        \* the builds admitted and not yet ended

Init == running = {}

Start(b) ==
    /\ b \notin running
    /\ \A c \in running : AppOf[c] # AppOf[b]
    /\ Cardinality(running) < Capacity
    /\ running' = running \cup {b}

End(b) ==
    /\ b \in running
    /\ running' = running \ {b}

Next == \E b \in Builds : Start(b) \/ End(b)

Spec == Init /\ [][Next]_running
============================================================================
