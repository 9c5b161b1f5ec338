----------------------------- MODULE GitWebhook -----------------------------
(***************************************************************************)
(* Deploys triggered by the pushes a forge announces (internal/api:        *)
(* webhook.go's handler and git.go's gitCoalescer): webhook handlers and   *)
(* the background deploys they start, chained one after the other, share   *)
(* one running flag and one pending push for each app.                     *)
(*                                                                         *)
(* A delivery is a goroutine: the handler's, and then, if it took the      *)
(* running slot, that of the deploys it runs until no push is pending.     *)
(* What a deploy builds is the head of the branch its copy of the git      *)
(* source names when it clones, never the commit the payload names; that   *)
(* commit only labels rows, so a pending push is its branch.               *)
(*                                                                         *)
(* Abstracted: every reason to ignore or reject a delivery is one step;    *)
(* build and rollout are one step that returns (see BuildQueue, Rollout).  *)
(***************************************************************************)
EXTENDS Integers, FiniteSets

CONSTANTS Deliveries,   \* webhook deliveries the forge makes
          Apps,
          Branches,     \* repositories and branches an app can be connected to
          None,         \* no connected branch, no pending push
          MaxCommits,   \* bound: commits of a branch
          ChangeSets    \* sets of what may happen besides: reconnect, crash

ASSUME GitWebhookAssumption ==
    /\ None \notin Branches
    /\ MaxCommits \in Nat
    /\ ChangeSets \subseteq SUBSET {"reconnect", "crash"}

Commits == 0 .. MaxCommits

Places == {"new", "sent", "claim", "queue", "trigger", "clone", "build",
           "finish", "ignored", "coalesced", "over", "lost"}

VARIABLES
    head,       \* the head commit of each branch of each app's repository
    source,     \* the branch of the app's git_sources row
    running,    \* gitCoalescer.running
    pending,    \* gitCoalescer.pending
    tried,      \* the head when a webhook deploy last tried to build a branch
    push,       \* the push a delivery announces
    at,         \* where the goroutine of a delivery is
    gs,         \* its copy of the branch of the git source
    asked,      \* the branch of the push it is deploying
    changes     \* what may happen besides, chosen once for all

vars == <<head, source, running, pending, tried, push, at, gs, asked, changes>>
world == <<head, source, push>>

Push == [app : Apps, ref : Branches, sha : Commits]

Init ==
    /\ head = [a \in Apps |-> [r \in Branches |-> 0]]
    /\ source \in [Apps -> Branches]
    /\ running = [a \in Apps |-> FALSE]
    /\ pending = [a \in Apps |-> None]
    /\ tried = [a \in Apps |-> [r \in Branches |-> 0]]
    /\ push \in [Deliveries -> {p \in Push : p.sha = 0}]
    /\ at = [d \in Deliveries |-> "new"]
    /\ gs = [d \in Deliveries |-> None]
    /\ asked = [d \in Deliveries |-> None]
    /\ changes \in ChangeSets

App(d) == push[d].app
Goto(d, from, to) == at[d] = from /\ at' = [at EXCEPT ![d] = to]

----------------------------------------------------------------------------
(* The forge and the operator *)

Commit(a, r) ==
    /\ head[a][r] < MaxCommits
    /\ head' = [head EXCEPT ![a][r] = @ + 1]
    /\ UNCHANGED <<source, running, pending, tried, push, at, gs, asked>>

\* A delivery announces some commit of its branch: deliveries are delayed,
\* repeated, lost and overtake each other.
Send(d) ==
    /\ Goto(d, "new", "sent")
    /\ \E c \in 1 .. head[App(d)][push[d].ref] : push' = [push EXCEPT ![d].sha = c]
    /\ UNCHANGED <<head, source, running, pending, tried, gs, asked>>

\* PUT or DELETE of the app's git source.
Reconnect(a) ==
    /\ "reconnect" \in changes
    /\ \E r \in (Branches \cup {None}) \ {source[a]} : source' = [source EXCEPT ![a] = r]
    /\ UNCHANGED <<head, running, pending, tried, push, at, gs, asked>>

----------------------------------------------------------------------------
(* handleGitWebhook *)

\* Rate limit, signature, event, branch filter: only a push to the connected
\* branch goes on.
Receive(d) ==
    /\ \/ /\ source[App(d)] = push[d].ref
          /\ Goto(d, "sent", "claim")
          /\ gs' = [gs EXCEPT ![d] = push[d].ref]
          /\ asked' = [asked EXCEPT ![d] = push[d].ref]
       \/ Goto(d, "sent", "ignored") /\ UNCHANGED <<gs, asked>>
    /\ UNCHANGED <<world, running, pending, tried>>

\* Variant: the slot is not looked at.
Claim_Always(d) ==
    /\ Goto(d, "claim", "trigger")
    /\ running' = [running EXCEPT ![App(d)] = TRUE]
    /\ UNCHANGED <<world, pending, tried, gs, asked>>

\* gitCoalescer.tryStart
Claim(d) ==
    /\ IF running[App(d)]
       THEN Goto(d, "claim", "queue") /\ UNCHANGED running
       ELSE /\ Goto(d, "claim", "trigger")
            /\ running' = [running EXCEPT ![App(d)] = TRUE]
    /\ UNCHANGED <<world, pending, tried, gs, asked>>

\* gitCoalescer.setPending: the newest push replaces the one that waits.
Queue(d) ==
    /\ Goto(d, "queue", "coalesced")
    /\ pending' = [pending EXCEPT ![App(d)] = asked[d]]
    /\ UNCHANGED <<world, running, tried, gs, asked>>

----------------------------------------------------------------------------
(* triggerGitDeploy and Engine.DeployGitCloneAsync *)

Tries(d) == tried' = [tried EXCEPT ![App(d)][gs[d]] = head[App(d)][gs[d]]]

\* Variant: an error here is returned at once.
Trigger_Returns(d) ==
    /\ \/ Goto(d, "trigger", "clone") /\ UNCHANGED tried
       \/ Goto(d, "trigger", "over") /\ Tries(d)
    /\ UNCHANGED <<world, running, pending, gs, asked>>

\* The deployment row is created and the goroutine started, or neither.
Trigger(d) ==
    /\ \/ Goto(d, "trigger", "clone") /\ UNCHANGED tried
       \/ Goto(d, "trigger", "finish") /\ Tries(d)
    /\ UNCHANGED <<world, running, pending, gs, asked>>

\* The clone, which may fail, takes the head of the branch.
Clone(d) ==
    /\ Goto(d, "clone", "build") \/ Goto(d, "clone", "finish")
    /\ Tries(d)
    /\ UNCHANGED <<world, running, pending, gs, asked>>

\* buildAndRollout returns, whatever its outcome.
Build(d) ==
    /\ Goto(d, "build", "finish")
    /\ UNCHANGED <<world, running, pending, tried, gs, asked>>

\* Variant: the slot is freed although the follow-up takes it.
Finish_Frees(d) ==
    LET a == App(d) IN
    /\ IF pending[a] # None
       THEN /\ Goto(d, "finish", "trigger")
            /\ pending' = [pending EXCEPT ![a] = None]
            /\ asked' = [asked EXCEPT ![d] = pending[a]]
       ELSE Goto(d, "finish", "over") /\ UNCHANGED <<pending, asked>>
    /\ running' = [running EXCEPT ![a] = FALSE]
    /\ UNCHANGED <<world, tried, gs>>

\* Variant: the queued push is dropped with the slot.
Finish_Drops(d) ==
    /\ Goto(d, "finish", "over")
    /\ pending' = [pending EXCEPT ![App(d)] = None]
    /\ running' = [running EXCEPT ![App(d)] = FALSE]
    /\ UNCHANGED <<world, tried, gs, asked>>

\* gitCoalescer.finish, in one critical section: the slot goes to the queued
\* push, deployed with the git source of the finished deploy, or is freed.
Finish(d) ==
    LET a == App(d) IN
    /\ IF pending[a] # None
       THEN /\ Goto(d, "finish", "trigger")
            /\ pending' = [pending EXCEPT ![a] = None]
            /\ asked' = [asked EXCEPT ![d] = pending[a]]
            /\ UNCHANGED running
       ELSE /\ Goto(d, "finish", "over")
            /\ running' = [running EXCEPT ![a] = FALSE]
            /\ UNCHANGED <<pending, asked>>
    /\ UNCHANGED <<world, tried, gs>>

\* The process dies and starts again: the coalescer lives in memory only.
Crash ==
    /\ "crash" \in changes
    /\ running' = [a \in Apps |-> FALSE]
    /\ pending' = [a \in Apps |-> None]
    /\ at' = [d \in Deliveries |->
                IF at[d] \in {"new", "ignored", "coalesced", "over"} THEN at[d] ELSE "lost"]
    /\ UNCHANGED <<world, tried, gs, asked>>

----------------------------------------------------------------------------
Handle(d) == Receive(d) \/ Claim(d) \/ Queue(d)
Deploy(d) == Trigger(d) \/ Clone(d) \/ Build(d) \/ Finish(d)

Next ==
    /\ \/ \E a \in Apps, r \in Branches : Commit(a, r)
       \/ \E d \in Deliveries : Send(d) \/ Handle(d) \/ Deploy(d)
       \/ \E a \in Apps : Reconnect(a)
       \/ Crash
    /\ UNCHANGED changes

Spec == Init /\ [][Next]_vars

\* Every goroutine runs on, and every build returns (BuildQueue).
Fairness == \A d \in Deliveries :
    WF_vars(Handle(d) /\ UNCHANGED changes) /\ WF_vars(Deploy(d) /\ UNCHANGED changes)

FairSpec == Spec /\ Fairness

----------------------------------------------------------------------------
(* Properties *)

TypeOK ==
    /\ head \in [Apps -> [Branches -> Commits]]
    /\ source \in [Apps -> Branches \cup {None}]
    /\ running \in [Apps -> BOOLEAN]
    /\ pending \in [Apps -> Branches \cup {None}]
    /\ tried \in [Apps -> [Branches -> Commits]]
    /\ push \in [Deliveries -> Push]
    /\ at \in [Deliveries -> Places]
    /\ gs \in [Deliveries -> Branches \cup {None}]
    /\ asked \in [Deliveries -> Branches \cup {None}]
    /\ changes \in ChangeSets

\* The deliveries that hold their app's slot.
Deploying == {d \in Deliveries : at[d] \in {"trigger", "clone", "build", "finish"}}

\* "At most one running": the slot of an app is taken exactly while one
\* delivery runs deploys for the app, never two, and never by none.
OneDeployPerApp ==
    /\ \A a \in Apps : running[a] <=> \E d \in Deploying : App(d) = a
    /\ \A d, e \in Deploying : d # e => App(d) # App(e)

\* The deliveries answered as queued or coalesced.
Accepted == Deploying \cup {d \in Deliveries : at[d] \in {"coalesced", "over"}}

\* "A single follow-up deploy fires when the running one finishes": a push
\* answered as queued or coalesced is tried, at its commit or a newer one, or
\* a deploy of its app is going to clone, or it waits as the pending push,
\* unless the process died or the app was connected to something else.
NoPushForgotten ==
    changes = {} => \A d \in Accepted : LET a == App(d) IN
        \/ push[d].sha <= tried[a][push[d].ref]
        \/ pending[a] # None
        \/ \E e \in Deploying : App(e) = a /\ at[e] \in {"trigger", "clone"}

\* A deploy that began ends, and gives the slot back or hands it on: no error
\* path keeps the slot.
SlotIsFreed == \A a \in Apps : running[a] ~> ~running[a]

----------------------------------------------------------------------------
(* What the repository says and the code does not do *)

\* "This commit is queued as the next build": a push is pending only while a
\* deploy of its app runs, whose end starts the next build.
PendingHasRunner == \A d \in Deliveries :
    at[d] = "coalesced" /\ pending[App(d)] # None => running[App(d)]
============================================================================
