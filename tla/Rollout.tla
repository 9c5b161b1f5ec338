------------------------------ MODULE Rollout ------------------------------
(***************************************************************************)
(* The deploy engine (internal/deploy/deploy.go): rollouts, rollbacks,     *)
(* route refreshes and deletes of a set of apps, run by concurrent         *)
(* operations (HTTP handlers and the engine's background goroutines)       *)
(* against three pieces of shared state that no transaction spans:         *)
(*   - the SQLite store: an app's status, alias_scheme and                 *)
(*     deploy_strategy, and its deployment rows;                           *)
(*   - podman: one container for each deployment number of an app;         *)
(*   - Caddy: the upstream its running configuration has for an app.       *)
(*                                                                         *)
(* The steps of an operation are its calls, each atomic; stopping and then *)
(* removing one container is one step.                                     *)
(* The process can die between any two steps; containers, store and the    *)
(* running Caddy configuration survive, and the next boot reconciles them. *)
(*                                                                         *)
(* Abstracted: the image of a deployment is its number; pull, clone and    *)
(* build are one step "prepare" that may fail; an app is never "internal"  *)
(* and a deleted app is never created again.                               *)
(***************************************************************************)
EXTENDS Integers, FiniteSets

CONSTANTS Apps,         \* the apps of this instance
          Ops,          \* the operations in progress, one per goroutine
          NoOp,         \* holder of routesMu when it is free
          MaxDeploys,   \* bound: deployment numbers of an app
          Kinds,        \* operations begun: deploy, rollback, routes, delete
          FaultSets,    \* sets of calls that may fail; "crash" is one
          Origins,      \* initial situations: fresh, settled, legacy
          Strategies    \* deploy strategies in use

AllKinds == {"deploy", "rollback", "routes", "delete"}
AllFaults == {"prepare", "create", "start", "probe", "store", "logged",
              "routes", "remove", "list", "crash"}

ASSUME RolloutAssumption ==
    /\ Apps # {}
    /\ MaxDeploys \in Nat \ {0}
    /\ NoOp \notin Ops
    /\ Kinds \subseteq AllKinds
    /\ FaultSets \subseteq SUBSET AllFaults
    /\ Origins \subseteq {"fresh", "settled", "legacy"}
    /\ Strategies \subseteq {"zero-downtime", "replace"}

Nums == 1 .. MaxDeploys

\* The network alias a container answers on and a route names: "app-<slug>"
\* (v2) or "bp-<slug>" (legacy).
Schemes == {"v2", "legacy"}
Upstreams == Schemes \cup {"none"}

\* "gone" stands for an app row that was deleted.
Statuses == {"created", "deploying", "running", "error", "gone"}
DepStatuses == {"none", "deploying", "healthy", "failed"}

\* A running container is named by the alias it carries.
CtrStates == Schemes \cup {"absent", "created", "stopped"}

Steps == {"idle", "row", "mark", "prepare", "clear_first", "clearing_first",
          "create", "start", "probe", "scheme", "running", "lock", "apply",
          "clear", "clearing", "finish",
          "fail_remove", "fail_finish", "fail_list", "fail_status",
          "route_lock", "route_apply",
          "del_list", "del_removing", "del_lock", "del_apply", "del_row"}

Phases == {"gc", "sweep", "routes", "up"}

VARIABLES
    status,     \* apps.status
    scheme,     \* apps.alias_scheme
    strategy,   \* apps.deploy_strategy
    dep,        \* deployments.status by app and number
    ctr,        \* podman's container bp-<slug>-<n> by app and number
    live,       \* the upstream in Caddy's running configuration
    phase,      \* boot progress of the basepod process
    routesMu,   \* holder of Engine.routesMu
    op,         \* the operations: program counter and local variables
    faults      \* the calls that may fail, chosen once for all

storeVars == <<status, scheme, strategy, dep>>
vars == <<status, scheme, strategy, dep, ctr, live, phase, routesMu, op, faults>>

NoRoutes == [a \in Apps |-> "none"]

\* Local variables of an operation: the app it was given, its deployment
\* number, the deploy_strategy of the request-time copy of the app row, the
\* containers a teardown has left to remove, the status fail() decided on
\* and the routes read under routesMu.
Operation == [pc: Steps, app: Apps, num: 0 .. MaxDeploys,
              plan: {"zero-downtime", "replace"}, todo: SUBSET Nums,
              verdict: {"running", "error"}, routes: [Apps -> Upstreams]]

Resting == [pc |-> "idle", app |-> CHOOSE a \in Apps : TRUE, num |-> 0,
            plan |-> "zero-downtime", todo |-> {}, verdict |-> "error",
            routes |-> NoRoutes]

----------------------------------------------------------------------------
(* The calls to the store, to podman and to Caddy *)

Exists(a) == status[a] # "gone"

\* UpdateAppStatus and FinishDeployment are plain UPDATEs: on a deleted row
\* they change nothing and report no error.
WithStatus(a, s) == IF Exists(a) THEN [status EXCEPT ![a] = s] ELSE status
WithDep(a, n, s) ==
    IF dep[a][n] = "none" THEN dep ELSE [dep EXCEPT ![a][n] = s]

\* An operation's own control: is at step s, goes to step s, goes to step s
\* because the named call failed, returns.
At(o, s) == phase = "up" /\ op[o].pc = s
Goto(o, s) == op' = [op EXCEPT ![o].pc = s]
Failing(o, call, s) == call \in faults /\ Goto(o, s)
Return(o) == op' = [op EXCEPT ![o] = Resting]

\* StopContainer then RemoveContainer, errors logged: what may be left of a
\* container in state s.
Leftovers(s) ==
    {"absent"} \cup
    (IF "remove" \notin faults THEN {}
     ELSE {s, IF s \in Schemes THEN "stopped" ELSE s})

\* Variant: the kept number is not excepted.
Others_KeepForgotten(a, n) == {m \in Nums : ctr[a][m] # "absent"}

\* The containers removeOldContainers removes for a rollout that keeps
\* number n: every other one of the app.
Others(a, n) == {m \in Nums \ {n} : ctr[a][m] # "absent"}

Running(a) == {n \in Nums : ctr[a][n] \in Schemes}

LatestHealthy(a) ==
    {n \in Nums : dep[a][n] = "healthy" /\ \A m \in Nums : m > n => dep[a][m] # "healthy"}

\* Routes: every app whose status is "running", on its alias.
Routes == [a \in Apps |-> IF status[a] = "running" THEN scheme[a] ELSE "none"]

\* Variant: numbers of finished rows only.
IsNextNumber_Finished(a, n) ==
    /\ \A m \in Nums : dep[a][m] \notin {"none", "deploying"} => m < n
    /\ n > 1 => dep[a][n - 1] \notin {"none", "deploying"}

\* MAX(number) + 1.
IsNextNumber(a, n) ==
    /\ \A m \in Nums : dep[a][m] # "none" => m < n
    /\ n > 1 => dep[a][n - 1] # "none"

----------------------------------------------------------------------------
Init ==
    /\ \E origin \in [Apps -> Origins] :
        /\ status = [a \in Apps |-> IF origin[a] = "fresh" THEN "created" ELSE "running"]
        /\ scheme = [a \in Apps |-> IF origin[a] = "settled" THEN "v2" ELSE "legacy"]
        /\ dep = [a \in Apps |-> [n \in Nums |->
                    IF n = 1 /\ origin[a] # "fresh" THEN "healthy" ELSE "none"]]
        /\ ctr = [a \in Apps |-> [n \in Nums |->
                    IF n = 1 /\ origin[a] # "fresh" THEN scheme[a] ELSE "absent"]]
        /\ live = [a \in Apps |-> IF origin[a] = "fresh" THEN "none" ELSE scheme[a]]
    /\ strategy \in [Apps -> Strategies]
    /\ phase = "up"
    /\ routesMu = NoOp
    /\ op = [o \in Ops |-> Resting]
    /\ faults \in FaultSets

----------------------------------------------------------------------------
(* Beginning an operation: the handler reads the app row *)

Begin(o, a, s) ==
    /\ phase = "up"
    /\ op[o].pc = "idle"
    /\ Exists(a)
    /\ op' = [op EXCEPT ![o].pc = s, ![o].app = a, ![o].plan = strategy[a]]
    /\ UNCHANGED <<storeVars, ctr, live, phase, routesMu>>

BeginDeploy(o, a) == "deploy" \in Kinds /\ Begin(o, a, "row")

\* Rollback refuses a target that is not healthy.
BeginRollback(o, a) ==
    /\ "rollback" \in Kinds
    /\ \E n \in Nums : dep[a][n] = "healthy"
    /\ Begin(o, a, "row")

BeginDelete(o, a) == "delete" \in Kinds /\ Begin(o, a, "del_list")

\* A domain was added to or removed from an app: the API calls ApplyRoutes.
BeginRoutes(o, a) == "routes" \in Kinds /\ Begin(o, a, "route_lock")

\* PATCH of deploy_strategy, for the next rollout.
PatchStrategy(a) ==
    /\ phase = "up"
    /\ Exists(a)
    /\ \E s \in Strategies \ {strategy[a]} : strategy' = [strategy EXCEPT ![a] = s]
    /\ UNCHANGED <<status, scheme, dep, ctr, live, phase, routesMu, op>>

----------------------------------------------------------------------------
(* The deployment row, and the pull or build *)

\* A step that fails before the operation has a container goes to fail()
\* past the removal of the new container.

CreateRow(o) ==
    LET a == op[o].app IN
    /\ At(o, "row")
    /\ \/ \E n \in Nums :
            /\ Exists(a)
            /\ IsNextNumber(a, n)
            /\ dep' = [dep EXCEPT ![a][n] = "deploying"]
            /\ op' = [op EXCEPT ![o].pc = "mark", ![o].num = n]
       \/ /\ "store" \in faults \/ ~Exists(a) \/ ~\E n \in Nums : IsNextNumber(a, n)
          /\ Return(o)
          /\ UNCHANGED dep
    /\ UNCHANGED <<status, scheme, strategy, ctr, live, phase, routesMu>>

MarkDeploying(o) ==
    /\ At(o, "mark")
    /\ \/ status' = WithStatus(op[o].app, "deploying") /\ Goto(o, "prepare")
       \/ Failing(o, "store", "fail_finish") /\ UNCHANGED status
    /\ UNCHANGED <<scheme, strategy, dep, ctr, live, phase, routesMu>>

\* Variant: deploy_strategy ignored.
Prepare_NoReplace(o) ==
    /\ At(o, "prepare")
    /\ Goto(o, "create") \/ Failing(o, "prepare", "fail_finish")
    /\ UNCHANGED <<storeVars, ctr, live, phase, routesMu>>

\* PullImage, or clone and build, then the app's volumes.
Prepare(o) ==
    /\ At(o, "prepare")
    /\ \/ Goto(o, IF op[o].plan = "replace" THEN "clear_first" ELSE "create")
       \/ Failing(o, "prepare", "fail_finish")
    /\ UNCHANGED <<storeVars, ctr, live, phase, routesMu>>

----------------------------------------------------------------------------
(* removeOldContainers: list the app's containers, then stop and remove    *)
(* each one but the kept number. Every error is logged and skipped.        *)

ListOld(o, from, each) ==
    /\ At(o, from)
    /\ \E found \in {Others(op[o].app, op[o].num)} \cup
                    (IF "list" \in faults THEN {{}} ELSE {}) :
          op' = [op EXCEPT ![o].pc = each, ![o].todo = found]
    /\ UNCHANGED <<storeVars, ctr, live, phase, routesMu>>

RemoveListed(o, each, then) ==
    LET a == op[o].app IN
    /\ At(o, each)
    /\ \/ \E n \in op[o].todo :
            /\ \E s \in Leftovers(ctr[a][n]) : ctr' = [ctr EXCEPT ![a][n] = s]
            /\ op' = [op EXCEPT ![o].todo = @ \ {n}]
       \/ /\ op[o].todo = {}
          /\ Goto(o, then)
          /\ UNCHANGED ctr
    /\ UNCHANGED <<storeVars, live, phase, routesMu>>

\* Before the new container exists, for the replace strategy only.
ClearFirst(o) == \/ ListOld(o, "clear_first", "clearing_first")
                 \/ RemoveListed(o, "clearing_first", "create")

\* Variant: the old generation is left in place.
Clear_Skipped(o) ==
    /\ At(o, "clear")
    /\ Goto(o, "finish")
    /\ UNCHANGED <<storeVars, ctr, live, phase, routesMu>>

\* After the cutover.
Clear(o) == \/ ListOld(o, "clear", "clearing")
            \/ RemoveListed(o, "clearing", "finish")

----------------------------------------------------------------------------
(* runRollout: the new container, its probe and the cutover *)

Create(o) ==
    LET a == op[o].app  n == op[o].num IN
    /\ At(o, "create")
    /\ \/ /\ ctr[a][n] = "absent"
          /\ ctr' = [ctr EXCEPT ![a][n] = "created"]
          /\ Goto(o, "start")
       \/ Failing(o, "create", "fail_finish") /\ UNCHANGED ctr
    /\ UNCHANGED <<storeVars, live, phase, routesMu>>

\* Another rollout may have removed the container in the meantime.
Start(o) ==
    LET a == op[o].app  n == op[o].num IN
    /\ At(o, "start")
    /\ \/ /\ ctr[a][n] = "created"
          /\ ctr' = [ctr EXCEPT ![a][n] = "v2"]
          /\ Goto(o, "probe")
       \/ /\ "start" \in faults \/ ctr[a][n] # "created"
          /\ Goto(o, "fail_remove")
          /\ UNCHANGED ctr
    /\ UNCHANGED <<storeVars, live, phase, routesMu>>

Probe(o) ==
    LET a == op[o].app  n == op[o].num IN
    /\ At(o, "probe")
    /\ \/ ctr[a][n] \in Schemes /\ Goto(o, "scheme")
       \/ ("probe" \in faults \/ ctr[a][n] \notin Schemes) /\ Goto(o, "fail_remove")
    /\ UNCHANGED <<storeVars, ctr, live, phase, routesMu>>

SetScheme(o) ==
    LET a == op[o].app IN
    /\ At(o, "scheme")
    /\ \/ /\ scheme' = IF Exists(a) THEN [scheme EXCEPT ![a] = "v2"] ELSE scheme
          /\ Goto(o, "running")
       \/ Failing(o, "store", "fail_remove") /\ UNCHANGED scheme
    /\ UNCHANGED <<status, strategy, dep, ctr, live, phase, routesMu>>

MarkRunning(o) ==
    /\ At(o, "running")
    /\ \/ status' = WithStatus(op[o].app, "running") /\ Goto(o, "lock")
       \/ Failing(o, "store", "fail_remove") /\ UNCHANGED status
    /\ UNCHANGED <<scheme, strategy, dep, ctr, live, phase, routesMu>>

\* ApplyRoutes takes routesMu, then reads the routes from the store.
LockRoutes(o, from, then, routes) ==
    /\ At(o, from)
    /\ routesMu = NoOp
    /\ routesMu' = o
    /\ op' = [op EXCEPT ![o].pc = then, ![o].routes = routes]
    /\ UNCHANGED <<storeVars, ctr, live, phase>>

\* router.Apply and the release of routesMu. After an error Caddy may or may
\* not have taken the new configuration.
ApplyRoutes(o, from, Done) ==
    /\ At(o, from)
    /\ live' = op[o].routes
    /\ routesMu' = NoOp
    /\ Done
    /\ UNCHANGED <<storeVars, ctr, phase>>

\* Variant: routesMu not released on an error.
ApplyFails_StillLocked(o, from, Failed) ==
    /\ At(o, from)
    /\ "routes" \in faults
    /\ live' \in {live, op[o].routes}
    /\ Failed
    /\ UNCHANGED <<storeVars, ctr, phase, routesMu>>

ApplyFails(o, from, Failed) ==
    /\ At(o, from)
    /\ "routes" \in faults
    /\ live' \in {live, op[o].routes}
    /\ routesMu' = NoOp
    /\ Failed
    /\ UNCHANGED <<storeVars, ctr, phase>>

\* Variant: no route is applied.
CutOver_NoApply(o) ==
    /\ At(o, "lock")
    /\ Goto(o, "clear")
    /\ UNCHANGED <<storeVars, ctr, live, phase, routesMu>>

CutOver(o) == \/ LockRoutes(o, "lock", "apply", Routes)
              \/ ApplyRoutes(o, "apply", Goto(o, "clear"))
              \/ ApplyFails(o, "apply", Goto(o, "fail_remove"))

\* Variant: the app's status written to the row.
Finish_AppStatus(o) ==
    /\ At(o, "finish")
    /\ dep' = WithDep(op[o].app, op[o].num, "running")
    /\ Return(o)
    /\ UNCHANGED <<status, scheme, strategy, ctr, live, phase, routesMu>>

\* An error of FinishDeployment is logged.
Finish(o) ==
    /\ At(o, "finish")
    /\ \/ dep' = WithDep(op[o].app, op[o].num, "healthy")
       \/ "logged" \in faults /\ UNCHANGED dep
    /\ Return(o)
    /\ UNCHANGED <<status, scheme, strategy, ctr, live, phase, routesMu>>

----------------------------------------------------------------------------
(* fail: remove the new container, finish the row, restore the app status *)

FailRemove(o) ==
    LET a == op[o].app  n == op[o].num IN
    /\ At(o, "fail_remove")
    /\ \/ ctr' = [ctr EXCEPT ![a][n] = "absent"]
       \/ "remove" \in faults /\ UNCHANGED ctr
    /\ Goto(o, "fail_finish")
    /\ UNCHANGED <<storeVars, live, phase, routesMu>>

FailFinish(o) ==
    /\ At(o, "fail_finish")
    /\ \/ dep' = WithDep(op[o].app, op[o].num, "failed")
       \/ "logged" \in faults /\ UNCHANGED dep
    /\ Goto(o, "fail_list")
    /\ UNCHANGED <<status, scheme, strategy, ctr, live, phase, routesMu>>

\* Any other container of the app counts, whatever its state.
FailList(o) ==
    /\ At(o, "fail_list")
    /\ \E others \in {Others(op[o].app, op[o].num)} \cup
                     (IF "list" \in faults THEN {{}} ELSE {}) :
          op' = [op EXCEPT ![o].pc = "fail_status",
                           ![o].verdict = IF others = {} THEN "error" ELSE "running"]
    /\ UNCHANGED <<storeVars, ctr, live, phase, routesMu>>

\* Variant: the status is not restored.
FailStatus_Skipped(o) ==
    /\ At(o, "fail_status")
    /\ Return(o)
    /\ UNCHANGED <<storeVars, ctr, live, phase, routesMu>>

FailStatus(o) ==
    /\ At(o, "fail_status")
    /\ \/ status' = WithStatus(op[o].app, op[o].verdict)
       \/ "logged" \in faults /\ UNCHANGED status
    /\ Return(o)
    /\ UNCHANGED <<scheme, strategy, dep, ctr, live, phase, routesMu>>

Fail(o) == FailRemove(o) \/ FailFinish(o) \/ FailList(o) \/ FailStatus(o)

----------------------------------------------------------------------------
(* A route refresh, and the delete of an app *)

RefreshRoutes(o) ==
    \/ LockRoutes(o, "route_lock", "route_apply", Routes)
    \/ ApplyRoutes(o, "route_apply", Return(o))
    \/ ApplyFails(o, "route_apply", Return(o))

\* RemoveApp returns the error of its listing.
DeleteList(o) ==
    /\ At(o, "del_list")
    /\ \/ op' = [op EXCEPT ![o].pc = "del_removing", ![o].todo = Others(op[o].app, 0)]
       \/ "list" \in faults /\ Return(o)
    /\ UNCHANGED <<storeVars, ctr, live, phase, routesMu>>

\* DeleteApp cascades to the deployment rows.
DeleteRow(o) ==
    LET a == op[o].app IN
    /\ At(o, "del_row")
    /\ \/ /\ status' = [status EXCEPT ![a] = "gone"]
          /\ dep' = [dep EXCEPT ![a] = [n \in Nums |-> "none"]]
       \/ "store" \in faults /\ UNCHANGED <<status, dep>>
    /\ Return(o)
    /\ UNCHANGED <<scheme, strategy, ctr, live, phase, routesMu>>

\* RemoveApp drops the app's own route from what it applies.
Delete(o) ==
    \/ DeleteList(o)
    \/ RemoveListed(o, "del_removing", "del_lock")
    \/ LockRoutes(o, "del_lock", "del_apply", [Routes EXCEPT ![op[o].app] = "none"])
    \/ ApplyRoutes(o, "del_apply", Goto(o, "del_row"))
    \/ ApplyFails(o, "del_apply", Return(o))
    \/ DeleteRow(o)

----------------------------------------------------------------------------
(* The process dies; the next boot reconciles before it serves *)

Crash ==
    /\ "crash" \in faults
    /\ phase' = "gc"
    /\ routesMu' = NoOp
    /\ op' = [o \in Ops |-> Resting]
    /\ UNCHANGED <<storeVars, ctr, live>>

\* Variant: compared with the latest row, healthy or not.
Orphans_LatestRow(a) ==
    {n \in Nums : /\ ctr[a][n] # "absent"
                  /\ ~Exists(a) \/ \E m \in Nums : m > n /\ dep[a][m] # "none"}

\* The containers CleanupOrphans removes: every one of an unknown app, and
\* every one whose number is not the latest healthy one, if there is any.
Orphans(a) ==
    {n \in Nums : /\ ctr[a][n] # "absent"
                  /\ \/ ~Exists(a)
                     \/ LatestHealthy(a) # {} /\ n \notin LatestHealthy(a)}

\* Its errors are logged: an orphan may be kept, or stopped and kept.
CleanupOrphans ==
    /\ phase = "gc"
    /\ phase' = "sweep"
    /\ \E kept, stopped \in [Apps -> SUBSET Nums] :
        /\ (\E a \in Apps : kept[a] # {}) => faults \cap {"remove", "list"} # {}
        /\ (\E a \in Apps : stopped[a] # {}) => "remove" \in faults
        /\ ctr' = [a \in Apps |-> [n \in Nums |->
                     IF n \notin Orphans(a) \ kept[a] THEN ctr[a][n]
                     ELSE IF n \in stopped[a] /\ n \in Running(a) THEN "stopped"
                     ELSE "absent"]]
    /\ UNCHANGED <<storeVars, live, routesMu, op>>

\* Variants: any container of the number counts; rows of any status do.
Stuck_NoContainer(a) == {n \in Nums : dep[a][n] = "deploying" /\ ctr[a][n] = "absent"}
Stuck_AnyRow(a) == {n \in Nums : dep[a][n] # "none" /\ n \notin Running(a)}

\* The rows SweepStuckDeployments finishes: still "deploying" with no
\* running container of their number.
Stuck(a) == {n \in Nums : dep[a][n] = "deploying" /\ n \notin Running(a)}

\* The status the sweep leaves an app with, some row of which it finished.
SweptStatuses(a) ==
    {IF Running(a) = {} THEN "error" ELSE "running"}
    \cup (IF "list" \in faults THEN {"error"} ELSE {})
    \cup (IF "logged" \in faults THEN {status[a]} ELSE {})

SweepStuck ==
    /\ phase = "sweep"
    /\ phase' = "routes"
    /\ \E skipped \in [Apps -> SUBSET Nums] :
        LET swept(a) == Stuck(a) \ skipped[a] IN
        /\ (\E a \in Apps : skipped[a] # {}) => faults \cap {"list", "logged"} # {}
        /\ dep' = [a \in Apps |-> [n \in Nums |->
                     IF n \in swept(a) THEN "failed" ELSE dep[a][n]]]
        /\ status' \in [Apps -> Statuses]
        /\ \A a \in Apps :
             status'[a] \in IF swept(a) = {} THEN {status[a]} ELSE SweptStatuses(a)
    /\ UNCHANGED <<scheme, strategy, ctr, live, routesMu, op>>

\* An error here ends the process, which the service manager starts again.
BootRoutes ==
    /\ phase = "routes"
    /\ \/ live' = Routes /\ phase' = "up"
       \/ "routes" \in faults /\ live' \in {live, Routes} /\ phase' = "gc"
    /\ UNCHANGED <<storeVars, ctr, routesMu, op>>

Boot == CleanupOrphans \/ SweepStuck \/ BootRoutes

----------------------------------------------------------------------------
Deploying(o) ==
    \/ CreateRow(o) \/ MarkDeploying(o) \/ Prepare(o) \/ ClearFirst(o)
    \/ Create(o) \/ Start(o) \/ Probe(o) \/ SetScheme(o) \/ MarkRunning(o)
    \/ CutOver(o) \/ Clear(o) \/ Finish(o)

Step(o) == Deploying(o) \/ Fail(o) \/ RefreshRoutes(o) \/ Delete(o)

Begins(o, a) ==
    BeginDeploy(o, a) \/ BeginRollback(o, a) \/ BeginRoutes(o, a) \/ BeginDelete(o, a)

Next ==
    /\ \/ \E o \in Ops : Step(o)
       \/ \E o \in Ops, a \in Apps : Begins(o, a)
       \/ \E a \in Apps : PatchStrategy(a)
       \/ Crash
       \/ Boot
    /\ UNCHANGED faults

Spec == Init /\ [][Next]_vars

\* Every goroutine runs on, sync.Mutex hands routesMu to every waiter in
\* turn (its starvation mode), and a boot is carried through.
Fairness ==
    /\ \A o \in Ops : SF_vars(Step(o) /\ UNCHANGED faults)
    /\ WF_vars(Boot /\ UNCHANGED faults)

FairSpec == Spec /\ Fairness

----------------------------------------------------------------------------
(* Properties *)

TypeOK ==
    /\ status \in [Apps -> Statuses]
    /\ scheme \in [Apps -> Schemes]
    /\ strategy \in [Apps -> {"zero-downtime", "replace"}]
    /\ dep \in [Apps -> [Nums -> DepStatuses]]
    /\ ctr \in [Apps -> [Nums -> CtrStates]]
    /\ live \in [Apps -> Upstreams]
    /\ phase \in Phases
    /\ routesMu \in Ops \cup {NoOp}
    /\ op \in [Ops -> Operation]
    /\ faults \in FaultSets

\* Requests for the app reach a container: Caddy has a route and a running
\* container answers on its alias.
Serving(a) == live[a] # "none" /\ \E n \in Nums : ctr[a][n] = live[a]

\* The container a rollout has not yet cut over to.
Unproven(a, n) ==
    \E o \in Ops : /\ op[o].app = a
                  /\ op[o].num = n
                  /\ op[o].pc \in {"start", "probe", "scheme", "running", "lock", "apply",
                                  "fail_remove"}

\* An app that has a completed deployment and is served by a container some
\* rollout cut over to.
Working(a) ==
    /\ live[a] # "none"
    /\ LatestHealthy(a) # {}
    /\ \E n \in Nums : ctr[a][n] = live[a] /\ ~Unproven(a, n)

Busy(o) == op[o].pc # "idle"
AtRest == phase = "up" /\ \A o \in Ops : ~Busy(o)

\* An operation on the app is at work with one of the strategies.
Replacing(a) == \E o \in Ops : Busy(o) /\ op[o].app = a /\ op[o].plan = "replace"
Overlapping(a) == \E o \in Ops : Busy(o) /\ op[o].app = a /\ op[o].plan = "zero-downtime"

\* "A failed deploy never takes the app down": no step of a rollout or a
\* rollback, whichever call of it fails, ends the serving of an app that has
\* a completed deployment, unless the strategy is to replace it. A route
\* refresh and the apply of another app's rollout publish the app's status.
NeverDown ==
    [][\A a \in Apps : /\ Working(a) /\ ~Replacing(a)
                       /\ "crash" \notin faults
                       /\ \A o \in Ops : /\ op[o].pc # "route_apply"
                                         /\ op[o].pc = "apply" => op[o].app = a
                       => Serving(a)']_vars

\* Every failure is one the operation sees and answers to, and none stops it.
Reported == faults \cap {"logged", "remove", "list", "crash"} = {}

\* When no operation is in progress no row is left "deploying" and no app is
\* left in the middle of a deploy ...
NothingPending ==
    AtRest /\ Reported => \A a \in Apps : /\ status[a] # "deploying"
                                          /\ \A n \in Nums : dep[a][n] # "deploying"

\* ... an app the store calls running is one Caddy can reach ...
RunningIsServed ==
    AtRest /\ Reported => \A a \in Apps : status[a] = "running" => Serving(a)

\* ... and exactly the container of the latest healthy deployment runs: what
\* the orphan collection of the next boot takes for granted. Only a failed
\* replacement leaves none, and the app in error.
LatestIsUp ==
    AtRest /\ Reported => \A a \in Apps :
        Running(a) = LatestHealthy(a) \/ (Running(a) = {} /\ status[a] = "error")

\* Two containers of an app run at once only during a rollout that was asked
\* to overlap them: under "replace" they would write the same named volume.
OneWriter ==
    faults \cap {"remove", "list", "crash"} = {} =>
        \A a \in Apps : Cardinality(Running(a)) > 1 => Overlapping(a)

\* The best-effort calls, whose errors are only logged, succeed.
Bookkept == faults \cap {"logged", "remove", "list"} = {}

\* What a boot needs to keep an app up: its latest healthy deployment runs,
\* and if the app row is still "deploying" so is one of its deployment rows.
Recoverable(a) ==
    /\ LatestHealthy(a) # {}
    /\ LatestHealthy(a) \subseteq Running(a)
    /\ status[a] = "deploying" => \E n \in Nums : dep[a][n] = "deploying"

\* No step, of the crashing process or of the boots after it, ends the
\* serving of an app outside the two windows Recoverable excludes.
RestartSafe ==
    [][Bookkept => \A a \in Apps :
          ~Replacing(a) /\ Serving(a) /\ Recoverable(a) => Serving(a)']_vars

\* At rest a row is still "deploying" only if its container runs, or a later
\* rollout has replaced it since: the boot sweep finishes the others.
StuckRowsRun ==
    AtRest /\ Bookkept => \A a \in Apps, n \in Nums : dep[a][n] = "deploying" =>
        \/ n \in Running(a)
        \/ \E m \in Nums : m > n /\ dep[a][m] = IF Running(a) = {} THEN "failed" ELSE "healthy"

\* A finished deployment row never changes again; it only goes with its app.
TerminalIsFinal ==
    [][\A a \in Apps, n \in Nums :
          dep[a][n] \in {"healthy", "failed"} =>
             dep'[a][n] = dep[a][n] \/ status'[a] = "gone"]_vars

\* The step an operation's row stays "deploying" through.
OwnsRow(o) == op[o].pc \in {"mark", "prepare", "clear_first", "clearing_first",
    "create", "start", "probe", "scheme", "running", "lock", "apply", "clear",
    "clearing", "finish", "fail_remove", "fail_finish"}

\* An operation's row is its own and not finished by anyone else.
RowsOwned ==
    /\ \A o \in Ops : OwnsRow(o) =>
          dep[op[o].app][op[o].num] = IF Exists(op[o].app) THEN "deploying" ELSE "none"
    /\ \A o, p \in Ops :
          o # p /\ OwnsRow(o) /\ OwnsRow(p) /\ op[o].app = op[p].app => op[o].num # op[p].num

\* At most one operation is between its reading of the routes and the end of
\* its Apply, and it is the holder of routesMu.
Applying(o) == op[o].pc \in {"apply", "route_apply", "del_apply"}
RoutesExclusive == \A o \in Ops : Applying(o) <=> routesMu = o

\* Every operation returns: no step blocks for good, on routesMu or elsewhere.
EveryOpReturns == \A o \in Ops : Busy(o) ~> ~Busy(o)

----------------------------------------------------------------------------
(* What the repository says of the engine and the code does not do *)

\* "nothing to reconcile": no boot ends the serving of an app.
BootKeepsServing == [][phase # "up" => \A a \in Apps : Serving(a) => Serving(a)']_vars
============================================================================
