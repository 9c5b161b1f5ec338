---------------------------- MODULE ComposeChain ----------------------------
(***************************************************************************)
(* What POST /api/v1/compose/up promises of the deployments it reports     *)
(* ("Partial failure" at the top of internal/api/compose.go): all of them  *)
(* exist before any of them starts; they are deployed one at a time and in *)
(* order; the first that fails is the last that was tried, and those after *)
(* it fail without being tried. An outcome may go unsaid: the write of it  *)
(* fails, and the row stays as it was. Only a process that dies ends them  *)
(* otherwise.                                                              *)
(***************************************************************************)
EXTENDS Naturals, Sequences

CONSTANT Applies

Healthy == {"healthy", "healthy, unsaid"}
Failed == {"failed", "failed, unsaid"}

VARIABLE told    \* what has become of each apply's deployments, in order

Init == told = [a \in Applies |-> <<>>]

Earlier(a, i, outcomes) == \A j \in 1..(i - 1) : told[a][j] \in outcomes
Becomes(a, i, from, to) == told[a][i] = from /\ told' = [told EXCEPT ![a][i] = to]

Promise(a) == /\ \A i \in DOMAIN told[a] : told[a][i] = "waiting"
              /\ told' = [told EXCEPT ![a] = Append(@, "waiting")]

Start(a, i) == Earlier(a, i, Healthy) /\ Becomes(a, i, "waiting", "deploying")

End(a, i) == \E outcome \in Healthy \cup Failed : Becomes(a, i, "deploying", outcome)

\* A service whose build context is not in the upload, or whose app cannot be
\* marked, fails before it starts.
Reject(a, i) == Earlier(a, i, Healthy) /\ \E outcome \in Failed : Becomes(a, i, "waiting", outcome)

Abort(a, i) == /\ Earlier(a, i, Healthy \cup Failed)
               /\ \E j \in 1..(i - 1) : told[a][j] \in Failed
               /\ \E outcome \in Failed : Becomes(a, i, "waiting", outcome)

\* The process died: what had not ended has failed or is abandoned, as it may be
\* in a container that nobody watches; what had ended unsaid may be said to have
\* failed.
Fates(now) == CASE now \in {"waiting", "deploying"} -> {"failed", "abandoned"}
                [] now \in {"healthy, unsaid", "failed, unsaid"} -> {now, "failed"}
                [] OTHER -> {now}
Lost == /\ told' = [a \in Applies |-> [i \in DOMAIN told[a] |-> told'[a][i]]]
        /\ \A a \in Applies : \A i \in DOMAIN told[a] : told'[a][i] \in Fates(told[a][i])

Next == \/ Lost
        \/ \E a \in Applies : \/ Promise(a)
                              \/ \E i \in DOMAIN told[a] :
                                    Start(a, i) \/ End(a, i) \/ Reject(a, i) \/ Abort(a, i)

Spec == Init /\ [][Next]_told
=============================================================================
