----------------------------- MODULE BuildQueue -----------------------------
(***************************************************************************)
(* Builder.BuildPrepared (internal/build/build.go), called by concurrent   *)
(* deploy goroutines: a mutex for each app, then a channel used as a       *)
(* counting semaphore over all apps, then podman's build, and the deferred *)
(* calls that give everything back in reverse order.                       *)
(*                                                                         *)
(* A goroutine waits for its app's mutex without looking at its context,   *)
(* and for the semaphore with an eye on it; the context's deadline         *)
(* (asyncBuildTimeout) is what ends a build podman never answers.          *)
(*                                                                         *)
(* Abstracted: the content of a context and of the log, and whether a      *)
(* build that ended left an image: the queue treats both alike.            *)
(***************************************************************************)
EXTENDS Integers, FiniteSets

CONSTANTS Builds,         \* the builds asked for, one goroutine each
          Apps,
          AppOf,          \* the app of each build
          NoBuild,        \* holder of a mutex that is free
          MaxConcurrent,  \* argument of New
          Hung            \* the builds podman never answers

ASSUME BuildQueueAssumption ==
    /\ IsFiniteSet(Builds)
    /\ AppOf \in [Builds -> Apps]
    /\ NoBuild \notin Builds
    /\ MaxConcurrent \in Int
    /\ Hung \subseteq Builds

\* New: "values less than 1 are treated as 1".
Capacity == IF MaxConcurrent < 1 THEN 1 ELSE MaxConcurrent

Places == {"idle", "lock", "sem", "build", "release", "unlock", "close", "done"}

VARIABLES
    at,         \* where each goroutine is
    expired,    \* the builds whose context is done
    perApp,     \* the holder of each app's mutex
    sem,        \* tokens in the channel
    spooled     \* the builds whose upload is on disk

vars == <<at, expired, perApp, sem, spooled>>

Init ==
    /\ at = [b \in Builds |-> "idle"]
    /\ expired = {}
    /\ perApp = [a \in Apps |-> NoBuild]
    /\ sem = 0
    /\ spooled = {}

Goto(b, from, to) == at[b] = from /\ at' = [at EXCEPT ![b] = to]

----------------------------------------------------------------------------
\* PrepareBuild has spooled and checked the upload. One that it refuses is
\* removed at once.
Prepare(b) ==
    /\ \/ Goto(b, "idle", "lock") /\ spooled' = spooled \cup {b}
       \/ Goto(b, "idle", "done") /\ UNCHANGED spooled
    /\ UNCHANGED <<expired, perApp, sem>>

\* Variant: no mutex for the app.
Lock_Shared(b) ==
    /\ Goto(b, "lock", "sem")
    /\ UNCHANGED <<expired, perApp, sem, spooled>>

\* lock.Lock(), which no context interrupts.
Lock(b) ==
    /\ perApp[AppOf[b]] = NoBuild
    /\ Goto(b, "lock", "sem")
    /\ perApp' = [perApp EXCEPT ![AppOf[b]] = b]
    /\ UNCHANGED <<expired, sem, spooled>>

\* case b.sem <- struct{}{}: also when the context is done, if both are ready.
Acquire(b) ==
    /\ sem < Capacity
    /\ Goto(b, "sem", "build")
    /\ sem' = sem + 1
    /\ UNCHANGED <<expired, perApp, spooled>>

\* Variants: returns without its deferred unlock; without its Close.
GiveUp_KeepsLock(b) ==
    /\ b \in expired
    /\ Goto(b, "sem", "close")
    /\ UNCHANGED <<expired, perApp, sem, spooled>>

GiveUp_NotClosed(b) ==
    /\ b \in expired
    /\ Goto(b, "sem", "done")
    /\ perApp' = [perApp EXCEPT ![AppOf[b]] = NoBuild]
    /\ UNCHANGED <<expired, sem, spooled>>

\* case <-ctx.Done(): only the mutex and the upload are given back.
GiveUp(b) ==
    /\ b \in expired
    /\ Goto(b, "sem", "unlock")
    /\ UNCHANGED <<expired, perApp, sem, spooled>>

\* The log cannot be created, or podman answers, or the context is done.
BuildImage(b) ==
    /\ b \notin Hung \/ b \in expired
    /\ Goto(b, "build", "release")
    /\ UNCHANGED <<expired, perApp, sem, spooled>>

\* The deferred calls, in reverse order.
Release(b) ==
    /\ Goto(b, "release", "unlock")
    /\ sem' = sem - 1
    /\ UNCHANGED <<expired, perApp, spooled>>

Unlock(b) ==
    /\ Goto(b, "unlock", "close")
    /\ perApp' = [perApp EXCEPT ![AppOf[b]] = NoBuild]
    /\ UNCHANGED <<expired, sem, spooled>>

Close(b) ==
    /\ Goto(b, "close", "done")
    /\ spooled' = spooled \ {b}
    /\ UNCHANGED <<expired, perApp, sem>>

\* The deadline of the build's context passes.
Expire(b) ==
    /\ at[b] \notin {"idle", "done"}
    /\ b \notin expired
    /\ expired' = expired \cup {b}
    /\ UNCHANGED <<at, perApp, sem, spooled>>

----------------------------------------------------------------------------
Returning(b) ==
    GiveUp(b) \/ BuildImage(b) \/ Release(b) \/ Unlock(b) \/ Close(b)

GoOn(b) == Lock(b) \/ Acquire(b) \/ Returning(b)

Next == \E b \in Builds : Prepare(b) \/ GoOn(b) \/ Expire(b)

Spec == Init /\ [][Next]_vars

\* sync.Mutex and a channel serve every waiter in turn, a goroutine that can
\* run does, and every context has a deadline.
Fairness == \A b \in Builds : SF_vars(GoOn(b)) /\ WF_vars(Expire(b))

FairSpec == Spec /\ Fairness

----------------------------------------------------------------------------
(* Properties *)

TypeOK ==
    /\ at \in [Builds -> Places]
    /\ expired \subseteq Builds
    /\ perApp \in [Apps -> Builds \cup {NoBuild}]
    /\ sem \in Nat
    /\ spooled \subseteq Builds

\* The builds that have a token: podman is building, or has just ended.
Holders == {b \in Builds : at[b] \in {"build", "release"}}

\* The builds that have their app's mutex.
InTurn == {b \in Builds : at[b] \in {"sem", "build", "release", "unlock"}}

\* "Only one Build call per slug runs at a time, and at most maxConcurrent
\* run at once system-wide": the queue implements BuildAdmission.
Admission == INSTANCE BuildAdmission WITH running <- Holders
Admitted == Admission!Spec

\* Tokens and mutexes are given back on every path: the channel holds one for
\* each build that runs, and a mutex is held by a build on its turn.
Accounted ==
    /\ sem = Cardinality(Holders)
    /\ \A a \in Apps, b \in Builds : perApp[a] = b <=> b \in InTurn /\ AppOf[b] = a

\* "Its spooled temp file is removed before this method returns, regardless
\* of outcome."
UploadsRemoved == \A b \in spooled : at[b] \notin {"idle", "done"}

\* Every build returns, behind whichever builds it waits and even if podman
\* never answers: no wait is unbounded.
EveryBuildReturns == \A b \in Builds : at[b] = "lock" ~> at[b] = "done"
============================================================================
