-------------------------------- MODULE Cli --------------------------------
(***************************************************************************)
(* The clients of one instance, each with a command of its own: deploys    *)
(* and streams (Follow), edits of the environment (EnvEdit), logins        *)
(* (Login), or one deploy or rollback after the other (Retention).         *)
(***************************************************************************)
EXTENDS Follow, EnvEdit, Login, Retention

ASSUME CliAssumption ==
    /\ Editors = Clients /\ Callers = Clients
    /\ \A s \in Settings : IsFiniteSet(s.leftover) /\ s.leftover \subseteq Nat \ {NoTag}
    /\ \A s \in Settings : s.overlap \in BOOLEAN /\ \A c \in Callers : s.from[c] # "global"

vars == <<followVars, editVars, loginVars, retentionVars>>

Having(role) == {c \in Clients : Role(c) = role}

\* A setting says of the last three: initial (the environment), from and overlap,
\* and leftover (the tags).
Init ==
    /\ FollowInit
    /\ EditInit(setting.initial)
    /\ LoginInit(setting.from, setting.overlap)
    /\ RetentionInit(setting.leftover)

Next ==
    \/ FollowNext /\ UNCHANGED <<editVars, loginVars, retentionVars>>
    \/ EditNext(Having("edit")) /\ UNCHANGED <<followVars, loginVars, retentionVars>>
    \/ LoginNext(Having("login")) /\ UNCHANGED <<followVars, editVars, retentionVars>>
    \/ Having("release") # {} /\ RetentionNext /\ UNCHANGED <<followVars, editVars, loginVars>>

Spec == Init /\ [][Next]_vars /\ FollowFairness
=============================================================================
