--------------------------- MODULE RolloutProofs ---------------------------
(***************************************************************************)
(* Theorems about the deploy engine of module Rollout, for every set of    *)
(* apps and operations, every bound, every choice of faults.               *)
(***************************************************************************)
EXTENDS Rollout, TLAPS

\* Only the process that is up has operations in progress.
Quiet == phase # "up" => \A o \in Ops : ~Busy(o)

----------------------------------------------------------------------------
(* Lemmas about the definitions the actions are built from *)

\* An operation at rest is well formed.
LEMMA RestingTyped == Resting \in Operation
<1>1. (CHOOSE a \in Apps : TRUE) \in Apps
  BY RolloutAssumption, Zenon
<1>2. "idle" \in Steps /\ NoRoutes \in [Apps -> Upstreams] /\ 0 \in 0 .. MaxDeploys
  BY RolloutAssumption DEF Steps, NoRoutes, Upstreams
<1> QED
  BY <1>1, <1>2 DEF Operation, Resting

\* Each assignment to the local variables of an operation keeps it well formed.
LEMMA LocalsTyped ==
    ASSUME NEW r \in Operation
    PROVE  /\ \A s \in Steps : [r EXCEPT !.pc = s] \in Operation
           /\ \A s \in Steps, a \in Apps, p \in {"zero-downtime", "replace"} :
                [r EXCEPT !.pc = s, !.app = a, !.plan = p] \in Operation
           /\ \A s \in Steps, n \in Nums : [r EXCEPT !.pc = s, !.num = n] \in Operation
           /\ \A s \in Steps, t \in SUBSET Nums : [r EXCEPT !.pc = s, !.todo = t] \in Operation
           /\ \A n : [r EXCEPT !.todo = @ \ {n}] \in Operation
           /\ \A s \in Steps, v \in {"running", "error"} :
                [r EXCEPT !.pc = s, !.verdict = v] \in Operation
           /\ \A s \in Steps, t \in [Apps -> Upstreams] :
                [r EXCEPT !.pc = s, !.routes = t] \in Operation
<1>1. \A n \in Nums : n \in 0 .. MaxDeploys
  BY RolloutAssumption DEF Nums
<1> QED
  BY <1>1 DEF Operation

\* Control moves between steps, and an operation that returned is at rest.
LEMMA ControlTyped ==
    ASSUME TypeOK, NEW o \in Ops
    PROVE  /\ \A s \in Steps : Goto(o, s) => op' \in [Ops -> Operation]
           /\ Return(o) => op' \in [Ops -> Operation]
           /\ \A r \in Operation : op' = [op EXCEPT ![o] = r] => op' \in [Ops -> Operation]
<1>1. ASSUME NEW s \in Steps, Goto(o, s) PROVE op' \in [Ops -> Operation]
  BY <1>1, LocalsTyped DEF TypeOK, Goto
<1>2. ASSUME Return(o) PROVE op' \in [Ops -> Operation]
  BY <1>2, RestingTyped DEF TypeOK, Return
<1> QED
  BY <1>1, <1>2 DEF TypeOK

\* The routes read from the store name one upstream for each app.
LEMMA RoutesTyped ==
    ASSUME TypeOK
    PROVE  /\ Routes \in [Apps -> Upstreams]
           /\ \A a \in Apps : [Routes EXCEPT ![a] = "none"] \in [Apps -> Upstreams]
BY DEF TypeOK, Routes, Upstreams

\* The store's and podman's updates of one row or container keep the tables
\* well formed.
LEMMA UpdatesTyped ==
    ASSUME TypeOK, NEW a \in Apps
    PROVE  /\ \A s \in Statuses : WithStatus(a, s) \in [Apps -> Statuses]
           /\ \A n, s : s \in DepStatuses => WithDep(a, n, s) \in [Apps -> [Nums -> DepStatuses]]
           /\ \A n, s : s \in DepStatuses =>
                [dep EXCEPT ![a][n] = s] \in [Apps -> [Nums -> DepStatuses]]
           /\ \A n, s : s \in CtrStates =>
                [ctr EXCEPT ![a][n] = s] \in [Apps -> [Nums -> CtrStates]]
BY DEF TypeOK, WithStatus, WithDep

\* What is left of a removed container is a state of a container.
LEMMA LeftoversTyped ==
    ASSUME NEW s \in CtrStates
    PROVE  Leftovers(s) \subseteq CtrStates
BY DEF Leftovers, CtrStates

----------------------------------------------------------------------------
(* The steps several operations share keep every variable well formed *)

LEMMA ListOldTyped ==
    ASSUME TypeOK, faults' = faults, NEW o \in Ops, NEW from, NEW each \in Steps,
           ListOld(o, from, each)
    PROVE  TypeOK'
<1>1. PICK found : /\ found \in {Others(op[o].app, op[o].num), {}}
                   /\ op' = [op EXCEPT ![o].pc = each, ![o].todo = found]
  BY DEF ListOld
<1>2. found \in SUBSET Nums
  BY <1>1 DEF Others
<1>3. op' \in [Ops -> Operation]
  BY <1>1, <1>2, LocalsTyped DEF TypeOK
<1> QED
  BY <1>3 DEF ListOld, TypeOK, storeVars

LEMMA RemoveListedTyped ==
    ASSUME TypeOK, faults' = faults, NEW o \in Ops, NEW each, NEW then \in Steps,
           RemoveListed(o, each, then)
    PROVE  TypeOK'
<1>1. op[o].app \in Apps /\ op[o].todo \subseteq Nums
  BY DEF TypeOK, Operation
<1>2. op' \in [Ops -> Operation]
  <2>1. ASSUME NEW n, op' = [op EXCEPT ![o].todo = @ \ {n}]
        PROVE  op' \in [Ops -> Operation]
    BY <2>1, LocalsTyped DEF TypeOK
  <2> QED
    BY <2>1, ControlTyped DEF RemoveListed
<1>3. ctr' \in [Apps -> [Nums -> CtrStates]]
  <2>1. ASSUME NEW n \in Nums, NEW s \in Leftovers(ctr[op[o].app][n]),
               ctr' = [ctr EXCEPT ![op[o].app][n] = s]
        PROVE  ctr' \in [Apps -> [Nums -> CtrStates]]
    <3>1. ctr[op[o].app][n] \in CtrStates
      BY <1>1 DEF TypeOK
    <3>2. s \in CtrStates
      BY <3>1, LeftoversTyped
    <3> QED
      BY <1>1, <2>1, <3>2, UpdatesTyped
  <2> QED
    BY <1>1, <2>1 DEF RemoveListed, TypeOK
<1> QED
  BY <1>2, <1>3 DEF RemoveListed, TypeOK, storeVars

LEMMA LockRoutesTyped ==
    ASSUME TypeOK, faults' = faults, NEW o \in Ops, NEW from, NEW then \in Steps,
           NEW routes \in [Apps -> Upstreams], LockRoutes(o, from, then, routes)
    PROVE  TypeOK'
<1>1. op' \in [Ops -> Operation]
  BY LocalsTyped DEF LockRoutes, TypeOK
<1> QED
  BY <1>1 DEF LockRoutes, TypeOK, storeVars

LEMMA ApplyTyped ==
    ASSUME TypeOK, faults' = faults, NEW o \in Ops, NEW from, NEW Done, NEW Failed,
           ApplyRoutes(o, from, Done) \/ ApplyFails(o, from, Failed),
           op' \in [Ops -> Operation]
    PROVE  TypeOK'
<1>1. op[o].routes \in [Apps -> Upstreams]
  BY DEF TypeOK, Operation
<1> QED
  BY <1>1 DEF ApplyRoutes, ApplyFails, TypeOK, storeVars

----------------------------------------------------------------------------
(* Type correctness, one step for each action *)

LEMMA DeployingTyped ==
    ASSUME TypeOK, faults' = faults, NEW o \in Ops, Deploying(o)
    PROVE  TypeOK'
<1>a. op[o].app \in Apps
  BY DEF TypeOK, Operation
<1>1. CASE CreateRow(o)
  <2>1. op' \in [Ops -> Operation]
    <3>1. ASSUME NEW n \in Nums, op' = [op EXCEPT ![o].pc = "mark", ![o].num = n]
          PROVE  op' \in [Ops -> Operation]
      BY <3>1, LocalsTyped DEF TypeOK, Steps
    <3> QED
      BY <1>1, <3>1, ControlTyped DEF CreateRow
  <2>2. dep' \in [Apps -> [Nums -> DepStatuses]]
    <3>1. ASSUME NEW n \in Nums, dep' = [dep EXCEPT ![op[o].app][n] = "deploying"]
          PROVE  dep' \in [Apps -> [Nums -> DepStatuses]]
      BY <1>a, <3>1, UpdatesTyped DEF DepStatuses
    <3> QED
      BY <1>1, <3>1 DEF CreateRow, TypeOK
  <2> QED
    BY <1>1, <2>1, <2>2 DEF CreateRow, TypeOK
<1>2. CASE MarkDeploying(o)
  <2>1. op' \in [Ops -> Operation]
    BY <1>2, ControlTyped DEF MarkDeploying, Failing, Steps
  <2>2. status' \in [Apps -> Statuses]
    BY <1>a, <1>2, UpdatesTyped DEF MarkDeploying, TypeOK, Statuses
  <2> QED
    BY <1>2, <2>1, <2>2 DEF MarkDeploying, TypeOK
<1>3. CASE Prepare(o)
  <2>1. op' \in [Ops -> Operation]
    BY <1>3, ControlTyped DEF Prepare, Failing, Steps
  <2> QED
    BY <1>3, <2>1 DEF Prepare, TypeOK, storeVars
<1>4. CASE ClearFirst(o)
  BY <1>4, ListOldTyped, RemoveListedTyped DEF ClearFirst, Steps
<1>5. CASE Create(o)
  <2>1. op' \in [Ops -> Operation]
    BY <1>5, ControlTyped DEF Create, Failing, Steps
  <2>2. ctr' \in [Apps -> [Nums -> CtrStates]]
    <3>1. ASSUME NEW n, ctr' = [ctr EXCEPT ![op[o].app][n] = "created"]
          PROVE  ctr' \in [Apps -> [Nums -> CtrStates]]
      BY <1>a, <3>1, UpdatesTyped DEF CtrStates
    <3> QED
      BY <1>5, <3>1 DEF Create, TypeOK
  <2> QED
    BY <1>5, <2>1, <2>2 DEF Create, TypeOK, storeVars
<1>6. CASE Start(o)
  <2>1. op' \in [Ops -> Operation]
    BY <1>6, ControlTyped DEF Start, Steps
  <2>2. ctr' \in [Apps -> [Nums -> CtrStates]]
    <3>1. ASSUME NEW n, ctr' = [ctr EXCEPT ![op[o].app][n] = "v2"]
          PROVE  ctr' \in [Apps -> [Nums -> CtrStates]]
      BY <1>a, <3>1, UpdatesTyped DEF CtrStates, Schemes
    <3> QED
      BY <1>6, <3>1 DEF Start, TypeOK
  <2> QED
    BY <1>6, <2>1, <2>2 DEF Start, TypeOK, storeVars
<1>7. CASE Probe(o)
  <2>1. op' \in [Ops -> Operation]
    BY <1>7, ControlTyped DEF Probe, Steps
  <2> QED
    BY <1>7, <2>1 DEF Probe, TypeOK, storeVars
<1>8. CASE SetScheme(o)
  <2>1. op' \in [Ops -> Operation]
    BY <1>8, ControlTyped DEF SetScheme, Failing, Steps
  <2>2. scheme' \in [Apps -> Schemes]
    BY <1>8 DEF SetScheme, TypeOK, Schemes
  <2> QED
    BY <1>8, <2>1, <2>2 DEF SetScheme, TypeOK
<1>9. CASE MarkRunning(o)
  <2>1. op' \in [Ops -> Operation]
    BY <1>9, ControlTyped DEF MarkRunning, Failing, Steps
  <2>2. status' \in [Apps -> Statuses]
    BY <1>a, <1>9, UpdatesTyped DEF MarkRunning, TypeOK, Statuses
  <2> QED
    BY <1>9, <2>1, <2>2 DEF MarkRunning, TypeOK
<1>10. CASE CutOver(o)
  <2>1. CASE LockRoutes(o, "lock", "apply", Routes)
    BY <2>1, RoutesTyped, LockRoutesTyped DEF Steps
  <2>2. CASE ApplyRoutes(o, "apply", Goto(o, "clear"))
    <3>1. op' \in [Ops -> Operation]
      BY <2>2, ControlTyped DEF ApplyRoutes, Steps
    <3> QED
      BY <2>2, <3>1, ApplyTyped
  <2>3. CASE ApplyFails(o, "apply", Goto(o, "fail_remove"))
    <3>1. op' \in [Ops -> Operation]
      BY <2>3, ControlTyped DEF ApplyFails, Steps
    <3> QED
      BY <2>3, <3>1, ApplyTyped
  <2> QED
    BY <1>10, <2>1, <2>2, <2>3 DEF CutOver
<1>11. CASE Clear(o)
  BY <1>11, ListOldTyped, RemoveListedTyped DEF Clear, Steps
<1>12. CASE Finish(o)
  <2>1. op' \in [Ops -> Operation]
    BY <1>12, ControlTyped DEF Finish
  <2>2. dep' \in [Apps -> [Nums -> DepStatuses]]
    BY <1>a, <1>12, UpdatesTyped DEF Finish, TypeOK, DepStatuses
  <2> QED
    BY <1>12, <2>1, <2>2 DEF Finish, TypeOK
<1> QED
  BY <1>1, <1>2, <1>3, <1>4, <1>5, <1>6, <1>7, <1>8, <1>9, <1>10, <1>11, <1>12
  DEF Deploying

LEMMA FailTyped ==
    ASSUME TypeOK, faults' = faults, NEW o \in Ops, Fail(o)
    PROVE  TypeOK'
<1>a. op[o].app \in Apps /\ op[o].verdict \in {"running", "error"}
  BY DEF TypeOK, Operation
<1>1. CASE FailRemove(o)
  <2>1. op' \in [Ops -> Operation]
    BY <1>1, ControlTyped DEF FailRemove, Steps
  <2>2. ctr' \in [Apps -> [Nums -> CtrStates]]
    <3>1. ASSUME NEW n, ctr' = [ctr EXCEPT ![op[o].app][n] = "absent"]
          PROVE  ctr' \in [Apps -> [Nums -> CtrStates]]
      BY <1>a, <3>1, UpdatesTyped DEF CtrStates
    <3> QED
      BY <1>1, <3>1 DEF FailRemove, TypeOK
  <2> QED
    BY <1>1, <2>1, <2>2 DEF FailRemove, TypeOK, storeVars
<1>2. CASE FailFinish(o)
  <2>1. op' \in [Ops -> Operation]
    BY <1>2, ControlTyped DEF FailFinish, Steps
  <2>2. dep' \in [Apps -> [Nums -> DepStatuses]]
    BY <1>a, <1>2, UpdatesTyped DEF FailFinish, TypeOK, DepStatuses
  <2> QED
    BY <1>2, <2>1, <2>2 DEF FailFinish, TypeOK
<1>3. CASE FailList(o)
  <2>1. PICK others : op' = [op EXCEPT ![o].pc = "fail_status",
                               ![o].verdict = IF others = {} THEN "error" ELSE "running"]
    BY <1>3 DEF FailList
  <2>2. op' \in [Ops -> Operation]
    BY <2>1, LocalsTyped DEF TypeOK, Steps
  <2> QED
    BY <1>3, <2>2 DEF FailList, TypeOK, storeVars
<1>4. CASE FailStatus(o)
  <2>1. op' \in [Ops -> Operation]
    BY <1>4, ControlTyped DEF FailStatus
  <2>2. status' \in [Apps -> Statuses]
    BY <1>a, <1>4, UpdatesTyped DEF FailStatus, TypeOK, Statuses
  <2> QED
    BY <1>4, <2>1, <2>2 DEF FailStatus, TypeOK
<1> QED
  BY <1>1, <1>2, <1>3, <1>4 DEF Fail

LEMMA RefreshRoutesTyped ==
    ASSUME TypeOK, faults' = faults, NEW o \in Ops, RefreshRoutes(o)
    PROVE  TypeOK'
<1>1. CASE LockRoutes(o, "route_lock", "route_apply", Routes)
  BY <1>1, RoutesTyped, LockRoutesTyped DEF Steps
<1>2. CASE \/ ApplyRoutes(o, "route_apply", Return(o))
           \/ ApplyFails(o, "route_apply", Return(o))
  <2>1. op' \in [Ops -> Operation]
    BY <1>2, ControlTyped DEF ApplyRoutes, ApplyFails
  <2> QED
    BY <1>2, <2>1, ApplyTyped
<1> QED
  BY <1>1, <1>2 DEF RefreshRoutes

LEMMA DeleteTyped ==
    ASSUME TypeOK, faults' = faults, NEW o \in Ops, Delete(o)
    PROVE  TypeOK'
<1>a. op[o].app \in Apps
  BY DEF TypeOK, Operation
<1>1. CASE DeleteList(o)
  <2>1. Others(op[o].app, 0) \in SUBSET Nums
    BY DEF Others
  <2>2. ASSUME op' = [op EXCEPT ![o].pc = "del_removing", ![o].todo = Others(op[o].app, 0)]
        PROVE  op' \in [Ops -> Operation]
    BY <2>1, <2>2, LocalsTyped DEF TypeOK, Steps
  <2>3. op' \in [Ops -> Operation]
    BY <1>1, <2>2, ControlTyped DEF DeleteList
  <2> QED
    BY <1>1, <2>3 DEF DeleteList, TypeOK, storeVars
<1>2. CASE RemoveListed(o, "del_removing", "del_lock")
  BY <1>2, RemoveListedTyped DEF Steps
<1>3. CASE LockRoutes(o, "del_lock", "del_apply", [Routes EXCEPT ![op[o].app] = "none"])
  BY <1>a, <1>3, RoutesTyped, LockRoutesTyped DEF Steps
<1>4. CASE ApplyRoutes(o, "del_apply", Goto(o, "del_row"))
  <2>1. op' \in [Ops -> Operation]
    BY <1>4, ControlTyped DEF ApplyRoutes, Steps
  <2> QED
    BY <1>4, <2>1, ApplyTyped
<1>5. CASE ApplyFails(o, "del_apply", Return(o))
  <2>1. op' \in [Ops -> Operation]
    BY <1>5, ControlTyped DEF ApplyFails
  <2> QED
    BY <1>5, <2>1, ApplyTyped
<1>6. CASE DeleteRow(o)
  <2>1. op' \in [Ops -> Operation]
    BY <1>6, ControlTyped DEF DeleteRow
  <2>2. status' \in [Apps -> Statuses]
    BY <1>a, <1>6 DEF DeleteRow, TypeOK, Statuses
  <2>3. dep' \in [Apps -> [Nums -> DepStatuses]]
    <3>1. [n \in Nums |-> "none"] \in [Nums -> DepStatuses]
      BY DEF DepStatuses
    <3> QED
      BY <1>a, <1>6, <3>1 DEF DeleteRow, TypeOK
  <2> QED
    BY <1>6, <2>1, <2>2, <2>3 DEF DeleteRow, TypeOK
<1> QED
  BY <1>1, <1>2, <1>3, <1>4, <1>5, <1>6 DEF Delete

LEMMA BeginsTyped ==
    ASSUME TypeOK, faults' = faults, NEW o \in Ops, NEW a \in Apps, Begins(o, a)
    PROVE  TypeOK'
<1>1. PICK s \in Steps : Begin(o, a, s)
  BY DEF Begins, BeginDeploy, BeginRollback, BeginRoutes, BeginDelete, Steps
<1>2. strategy[a] \in {"zero-downtime", "replace"}
  BY DEF TypeOK
<1>3. op' \in [Ops -> Operation]
  BY <1>1, <1>2, LocalsTyped DEF Begin, TypeOK
<1> QED
  BY <1>1, <1>3 DEF Begin, TypeOK, storeVars

LEMMA BootTyped ==
    ASSUME TypeOK, faults' = faults, Boot
    PROVE  TypeOK'
<1>1. CASE CleanupOrphans
  <2>1. ctr' \in [Apps -> [Nums -> CtrStates]]
    BY <1>1 DEF CleanupOrphans, TypeOK, CtrStates
  <2> QED
    BY <1>1, <2>1 DEF CleanupOrphans, TypeOK, storeVars, Phases
<1>2. CASE SweepStuck
  <2>1. dep' \in [Apps -> [Nums -> DepStatuses]]
    BY <1>2 DEF SweepStuck, TypeOK, DepStatuses
  <2>2. status' \in [Apps -> Statuses]
    BY <1>2 DEF SweepStuck
  <2> QED
    BY <1>2, <2>1, <2>2 DEF SweepStuck, TypeOK, Phases
<1>3. CASE BootRoutes
  BY <1>3, RoutesTyped DEF BootRoutes, TypeOK, storeVars, Phases
<1> QED
  BY <1>1, <1>2, <1>3 DEF Boot

\* Every variable keeps its type: a status column only ever holds one of the
\* strings its readers compare it with, whichever operations interleave.
THEOREM Typing == Spec => []TypeOK
<1>1. Init => TypeOK
  <2> SUFFICES ASSUME Init PROVE TypeOK
    OBVIOUS
  <2>1. op \in [Ops -> Operation]
    BY RestingTyped DEF Init
  <2>2. strategy \in [Apps -> {"zero-downtime", "replace"}]
    BY RolloutAssumption DEF Init
  <2> QED
    BY <2>1, <2>2 DEF Init, TypeOK, Statuses, Schemes, DepStatuses, CtrStates,
       Upstreams, Phases
<1>2. TypeOK /\ [Next]_vars => TypeOK'
  <2> SUFFICES ASSUME TypeOK, [Next]_vars PROVE TypeOK'
    OBVIOUS
  <2>0. faults' = faults
    BY DEF Next, vars
  <2>1. ASSUME NEW o \in Ops, Step(o) PROVE TypeOK'
    BY <2>0, <2>1, DeployingTyped, FailTyped, RefreshRoutesTyped, DeleteTyped DEF Step
  <2>2. ASSUME NEW o \in Ops, NEW a \in Apps, Begins(o, a) PROVE TypeOK'
    BY <2>0, <2>2, BeginsTyped
  <2>3. ASSUME NEW a \in Apps, PatchStrategy(a) PROVE TypeOK'
    BY <2>0, <2>3, RolloutAssumption DEF PatchStrategy, TypeOK
  <2>4. CASE Crash
    BY <2>0, <2>4, RestingTyped DEF Crash, TypeOK, storeVars, Phases
  <2>5. CASE Boot
    BY <2>0, <2>5, BootTyped
  <2>6. CASE UNCHANGED vars
    BY <2>6 DEF vars, TypeOK
  <2> QED
    BY <2>1, <2>2, <2>3, <2>4, <2>5, <2>6 DEF Next
<1> QED
  BY <1>1, <1>2, PTL DEF Spec

----------------------------------------------------------------------------
(* A step of one operation leaves the local variables of the others alone, *)
(* and is a step of the process that is up.                                *)

LEMMA StepIsLocal ==
    ASSUME TypeOK, NEW o \in Ops, Step(o)
    PROVE  /\ \A p \in Ops \ {o} : op'[p] = op[p]
           /\ phase = "up" /\ phase' = "up"
<1> USE DEF At, Failing
<1>1. CASE Deploying(o)
  <2>1. CASE CreateRow(o) \/ MarkDeploying(o) \/ Prepare(o)
    BY <2>1 DEF CreateRow, MarkDeploying, Prepare, Goto, Return, TypeOK
  <2>2. CASE ClearFirst(o) \/ Clear(o)
    BY <2>2 DEF ClearFirst, Clear, ListOld, RemoveListed, Goto, TypeOK
  <2>3. CASE Create(o) \/ Start(o) \/ Probe(o)
    BY <2>3 DEF Create, Start, Probe, Goto, TypeOK
  <2>4. CASE SetScheme(o) \/ MarkRunning(o) \/ Finish(o)
    BY <2>4 DEF SetScheme, MarkRunning, Finish, Goto, Return, TypeOK
  <2>5. CASE CutOver(o)
    BY <2>5 DEF CutOver, LockRoutes, ApplyRoutes, ApplyFails, Goto, TypeOK
  <2> QED
    BY <1>1, <2>1, <2>2, <2>3, <2>4, <2>5 DEF Deploying
<1>2. CASE Fail(o)
  BY <1>2 DEF Fail, FailRemove, FailFinish, FailList, FailStatus, Goto, Return, TypeOK
<1>3. CASE RefreshRoutes(o)
  BY <1>3 DEF RefreshRoutes, LockRoutes, ApplyRoutes, ApplyFails, Return, TypeOK
<1>4. CASE Delete(o)
  BY <1>4 DEF Delete, DeleteList, RemoveListed, LockRoutes, ApplyRoutes, ApplyFails,
     DeleteRow, Goto, Return, TypeOK
<1> QED
  BY <1>1, <1>2, <1>3, <1>4 DEF Step

LEMMA BeginsIsLocal ==
    ASSUME TypeOK, NEW o \in Ops, NEW a \in Apps, Begins(o, a)
    PROVE  /\ op[o].pc = "idle"
           /\ op'[o].pc \in {"row", "del_list", "route_lock"}
           /\ \A p \in Ops \ {o} : op'[p] = op[p]
           /\ phase = "up"
           /\ UNCHANGED <<storeVars, ctr, live, phase, routesMu>>
<1>1. PICK s \in {"row", "del_list", "route_lock"} : Begin(o, a, s)
  BY DEF Begins, BeginDeploy, BeginRollback, BeginRoutes, BeginDelete
<1>2. op[o] \in Operation
  BY DEF TypeOK
<1> QED
  BY <1>1, <1>2 DEF Begin, TypeOK, Operation

----------------------------------------------------------------------------
(* Exclusion of the route updates                                          *)

MutexInv == Quiet /\ RoutesExclusive

\* A step from outside the critical section to outside it.
LEMMA OutsideMutex ==
    ASSUME TypeOK, MutexInv, NEW o \in Ops, \A p \in Ops \ {o} : op'[p] = op[p],
           phase' = "up", routesMu' = routesMu, ~Applying(o), ~Applying(o)'
    PROVE  MutexInv'
BY DEF MutexInv, Quiet, RoutesExclusive, Applying

\* The step that enters it, and the steps that leave it.
LEMMA EnterMutex ==
    ASSUME TypeOK, MutexInv, NEW o \in Ops, NEW from, NEW then, NEW routes,
           LockRoutes(o, from, then, routes), \A p \in Ops \ {o} : op'[p] = op[p],
           phase' = "up", Applying(o)'
    PROVE  MutexInv'
BY RolloutAssumption DEF MutexInv, Quiet, RoutesExclusive, Applying, LockRoutes

LEMMA LeaveMutex ==
    ASSUME TypeOK, MutexInv, NEW o \in Ops, \A p \in Ops \ {o} : op'[p] = op[p],
           phase' = "up", Applying(o), routesMu' = NoOp, ~Applying(o)'
    PROVE  MutexInv'
BY RolloutAssumption DEF MutexInv, Quiet, RoutesExclusive, Applying

\* Where the steps other than those on routesMu start and end.
LEMMA PlainSteps ==
    ASSUME TypeOK, NEW o \in Ops,
           \/ CreateRow(o) \/ MarkDeploying(o) \/ Prepare(o) \/ ClearFirst(o)
           \/ Create(o) \/ Start(o) \/ Probe(o) \/ SetScheme(o) \/ MarkRunning(o)
           \/ Clear(o) \/ Finish(o) \/ Fail(o)
           \/ DeleteList(o) \/ RemoveListed(o, "del_removing", "del_lock") \/ DeleteRow(o)
    PROVE  ~Applying(o) /\ ~Applying(o)' /\ routesMu' = routesMu
<1> USE DEF At, Failing, Applying, Goto, Return, Resting
<1>1. op[o] \in Operation
  BY DEF TypeOK
<1>2. CASE CreateRow(o) \/ MarkDeploying(o) \/ Prepare(o)
  BY <1>1, <1>2 DEF CreateRow, MarkDeploying, Prepare, TypeOK, Operation
<1>3. CASE ClearFirst(o) \/ Clear(o) \/ RemoveListed(o, "del_removing", "del_lock")
  BY <1>1, <1>3 DEF ClearFirst, Clear, ListOld, RemoveListed, TypeOK, Operation
<1>4. CASE Create(o) \/ Start(o) \/ Probe(o)
  BY <1>1, <1>4 DEF Create, Start, Probe, TypeOK, Operation
<1>5. CASE SetScheme(o) \/ MarkRunning(o) \/ Finish(o)
  BY <1>1, <1>5 DEF SetScheme, MarkRunning, Finish, TypeOK, Operation
<1>6. CASE Fail(o)
  BY <1>1, <1>6 DEF Fail, FailRemove, FailFinish, FailList, FailStatus, TypeOK, Operation
<1>7. CASE DeleteList(o) \/ DeleteRow(o)
  BY <1>1, <1>7 DEF DeleteList, DeleteRow, TypeOK, Operation
<1> QED
  BY <1>2, <1>3, <1>4, <1>5, <1>6, <1>7

LEMMA StepKeepsMutex ==
    ASSUME TypeOK, MutexInv, NEW o \in Ops, Step(o)
    PROVE  MutexInv'
<1>1. phase' = "up" /\ \A p \in Ops \ {o} : op'[p] = op[p]
  BY StepIsLocal
<1>2. ASSUME NEW from, NEW then \in {"apply", "route_apply", "del_apply"}, NEW routes,
             LockRoutes(o, from, then, routes)
      PROVE  MutexInv'
  <2>1. op[o] \in Operation
    BY DEF TypeOK
  <2>2. Applying(o)'
    BY <1>2, <2>1 DEF LockRoutes, Applying, TypeOK, Operation
  <2> QED
    BY <1>1, <1>2, <2>2, EnterMutex
<1>3. ASSUME NEW from \in {"apply", "route_apply", "del_apply"},
             NEW then \in {"clear", "fail_remove", "del_row"},
             \/ ApplyRoutes(o, from, Goto(o, then)) \/ ApplyRoutes(o, from, Return(o))
             \/ ApplyFails(o, from, Goto(o, then)) \/ ApplyFails(o, from, Return(o))
      PROVE  MutexInv'
  <2>1. op[o] \in Operation
    BY DEF TypeOK
  <2>2. Applying(o) /\ routesMu' = NoOp
    BY <1>3 DEF ApplyRoutes, ApplyFails, At, Applying
  <2>3. Goto(o, then) \/ Return(o)
    BY <1>3 DEF ApplyRoutes, ApplyFails
  <2>4. ~Applying(o)'
    BY <2>1, <2>3 DEF Goto, Return, Resting, Applying, TypeOK, Operation
  <2> QED
    BY <1>1, <2>2, <2>4, LeaveMutex
<1>4. CASE CutOver(o)
  BY <1>2, <1>3, <1>4 DEF CutOver
<1>5. CASE RefreshRoutes(o)
  BY <1>2, <1>3, <1>5 DEF RefreshRoutes
<1>6. CASE \/ LockRoutes(o, "del_lock", "del_apply", [Routes EXCEPT ![op[o].app] = "none"])
           \/ ApplyRoutes(o, "del_apply", Goto(o, "del_row"))
           \/ ApplyFails(o, "del_apply", Return(o))
  BY <1>2, <1>3, <1>6
<1>7. CASE ~(CutOver(o) \/ RefreshRoutes(o)
             \/ LockRoutes(o, "del_lock", "del_apply", [Routes EXCEPT ![op[o].app] = "none"])
             \/ ApplyRoutes(o, "del_apply", Goto(o, "del_row"))
             \/ ApplyFails(o, "del_apply", Return(o)))
  <2>1. ~Applying(o) /\ ~Applying(o)' /\ routesMu' = routesMu
    BY <1>7, PlainSteps DEF Step, Deploying, Delete
  <2> QED
    BY <1>1, <2>1, OutsideMutex
<1> QED
  BY <1>4, <1>5, <1>6, <1>7

\* routesMu makes the reading of the routes and their Apply one critical
\* section: no two operations are ever inside it together, and the one inside
\* holds the mutex.
THEOREM RouteUpdatesExclude == Spec => []RoutesExclusive
<1>1. Init => MutexInv
  BY RolloutAssumption DEF Init, MutexInv, Quiet, RoutesExclusive, Applying, Resting
<1>2. TypeOK /\ MutexInv /\ [Next]_vars => MutexInv'
  <2> SUFFICES ASSUME TypeOK, MutexInv, [Next]_vars PROVE MutexInv'
    OBVIOUS
  <2>1. ASSUME NEW o \in Ops, Step(o) PROVE MutexInv'
    BY <2>1, StepKeepsMutex
  <2>2. ASSUME NEW o \in Ops, NEW a \in Apps, Begins(o, a) PROVE MutexInv'
    <3>1. ~Applying(o) /\ ~Applying(o)' /\ routesMu' = routesMu
      BY <2>2, BeginsIsLocal DEF Applying
    <3> QED
      BY <2>2, <3>1, BeginsIsLocal, OutsideMutex
  <2>3. ASSUME NEW a \in Apps, PatchStrategy(a) PROVE MutexInv'
    BY <2>3 DEF PatchStrategy, MutexInv, Quiet, RoutesExclusive, Applying, Busy
  <2>4. CASE Crash
    BY <2>4, RolloutAssumption
    DEF Crash, MutexInv, Quiet, RoutesExclusive, Applying, Busy, Resting
  <2>5. CASE Boot
    <3>1. op' = op /\ routesMu' = routesMu /\ phase # "up"
      BY <2>5 DEF Boot, CleanupOrphans, SweepStuck, BootRoutes
    <3> QED
      BY <3>1 DEF MutexInv, Quiet, RoutesExclusive, Applying, Busy
  <2>6. CASE UNCHANGED vars
    BY <2>6 DEF vars, MutexInv, Quiet, RoutesExclusive, Applying, Busy
  <2> QED
    BY <2>1, <2>2, <2>3, <2>4, <2>5, <2>6 DEF Next
<1>3. MutexInv => RoutesExclusive
  BY DEF MutexInv
<1> QED
  BY <1>1, <1>2, <1>3, Typing, PTL DEF Spec

----------------------------------------------------------------------------
(* Ownership of deployment rows                                            *)

\* RowsOwned is inductive with: an owned row has a number, a deleted app has
\* no rows, and no operation is in progress while the process boots.
NumsOwned == \A o \in Ops : OwnsRow(o) => op[o].num \in Nums
GoneHasNoRows == \A a \in Apps : ~Exists(a) => \A n \in Nums : dep[a][n] = "none"
OwnershipInv == Quiet /\ NumsOwned /\ GoneHasNoRows /\ RowsOwned

\* A step that changes no row and no app's existence, and does not make its
\* operation the owner of another row.
Keeps(o) ==
    /\ dep' = dep
    /\ \A a \in Apps : Exists(a)' = Exists(a)
    /\ OwnsRow(o)' => OwnsRow(o) /\ op'[o].app = op[o].app /\ op'[o].num = op[o].num

LEMMA KeepsOwnership ==
    ASSUME TypeOK, OwnershipInv, NEW o \in Ops, \A p \in Ops \ {o} : op'[p] = op[p],
           phase' = "up", Keeps(o)
    PROVE  OwnershipInv'
<1>0. \A p \in Ops : op[p].app \in Apps
  BY DEF TypeOK, Operation
<1>1. Quiet'
  BY DEF Quiet
<1>2. NumsOwned'
  BY DEF OwnershipInv, NumsOwned, Keeps, OwnsRow
<1>3. GoneHasNoRows'
  BY DEF OwnershipInv, GoneHasNoRows, Keeps
<1>4. \A p \in Ops : OwnsRow(p)' =>
         OwnsRow(p) /\ op'[p].app = op[p].app /\ op'[p].num = op[p].num
  BY DEF Keeps, OwnsRow
<1>5. RowsOwned'
  BY <1>0, <1>4 DEF OwnershipInv, RowsOwned, Keeps
<1> QED
  BY <1>1, <1>2, <1>3, <1>5 DEF OwnershipInv

\* An operation that finishes its row gives it up: nobody else's row changes.
LEMMA FinishingKeepsOwnership ==
    ASSUME TypeOK, OwnershipInv, NEW o \in Ops, \A p \in Ops \ {o} : op'[p] = op[p],
           phase' = "up", OwnsRow(o), ~OwnsRow(o)', status' = status, NEW s,
           dep' = WithDep(op[o].app, op[o].num, s)
    PROVE  OwnershipInv'
<1> DEFINE a == op[o].app  n == op[o].num
<1>0. /\ \A p \in Ops : op[p].app \in Apps
      /\ n \in Nums
      /\ dep \in [Apps -> [Nums -> DepStatuses]]
  BY DEF TypeOK, Operation, OwnershipInv, NumsOwned
<1>1. Quiet'
  BY DEF Quiet
<1>2. NumsOwned'
  BY DEF OwnershipInv, NumsOwned, OwnsRow
<1>3. \A b \in Apps, m \in Nums : <<b, m>> # <<a, n>> => dep'[b][m] = dep[b][m]
  BY <1>0 DEF WithDep
<1>4. ~Exists(a) => dep' = dep
  BY <1>0 DEF WithDep, OwnershipInv, GoneHasNoRows
<1>5. GoneHasNoRows'
  BY <1>0, <1>3, <1>4 DEF OwnershipInv, GoneHasNoRows, Exists
<1>6. ASSUME NEW p \in Ops, OwnsRow(p)'
      PROVE  /\ p # o /\ OwnsRow(p) /\ op'[p].app = op[p].app /\ op'[p].num = op[p].num
             /\ dep'[op[p].app][op[p].num] = dep[op[p].app][op[p].num]
  <2>1. p # o /\ op'[p] = op[p] /\ OwnsRow(p)
    BY <1>6 DEF OwnsRow
  <2>2. op[p].num \in Nums /\ <<op[p].app, op[p].num>> # <<a, n>>
    BY <2>1 DEF OwnershipInv, NumsOwned, RowsOwned
  <2> QED
    BY <1>0, <1>3, <2>1, <2>2
<1>7. RowsOwned'
  BY <1>0, <1>6 DEF OwnershipInv, RowsOwned, Exists
<1> QED
  BY <1>1, <1>2, <1>5, <1>7 DEF OwnershipInv

\* MAX(number) + 1 is the number of no row.
LEMMA NextNumberIsFree ==
    ASSUME NEW a \in Apps, NEW n \in Nums, IsNextNumber(a, n)
    PROVE  dep[a][n] = "none"
BY RolloutAssumption DEF IsNextNumber, Nums

LEMMA CreateRowKeepsOwnership ==
    ASSUME TypeOK, OwnershipInv, NEW o \in Ops, CreateRow(o)
    PROVE  OwnershipInv'
<1> DEFINE a == op[o].app
<1>0. /\ \A p \in Ops : op[p].app \in Apps
      /\ op[o] \in Operation
      /\ phase' = "up" /\ \A p \in Ops \ {o} : op'[p] = op[p]
      /\ ~OwnsRow(o)
  <2>1. Step(o)
    BY DEF Step, Deploying
  <2> QED
    BY <2>1, StepIsLocal DEF TypeOK, Operation, CreateRow, At, OwnsRow
<1>1. CASE Return(o) /\ UNCHANGED dep
  <2>1. Keeps(o)
    BY <1>0, <1>1 DEF CreateRow, Keeps, Exists, Return, Resting, OwnsRow, TypeOK
  <2> QED
    BY <1>0, <2>1, KeepsOwnership
<1>2. ASSUME NEW n \in Nums, Exists(a), IsNextNumber(a, n),
             dep' = [dep EXCEPT ![a][n] = "deploying"],
             op' = [op EXCEPT ![o].pc = "mark", ![o].num = n],
             status' = status
      PROVE  OwnershipInv'
  <2>1. dep[a][n] = "none"
    BY <1>0, <1>2, NextNumberIsFree
  <2>2. op'[o].app = a /\ op'[o].num = n
    BY <1>0, <1>2 DEF TypeOK, Operation
  <2>3. dep'[a][n] = "deploying" /\ \A b \in Apps, m \in Nums : <<b, m>> # <<a, n>> => dep'[b][m] = dep[b][m]
    BY <1>0, <1>2 DEF TypeOK
  <2>4. Quiet'
    BY <1>0 DEF Quiet
  <2>5. NumsOwned'
    BY <1>0, <1>2, <2>2 DEF OwnershipInv, NumsOwned, OwnsRow
  <2>6. GoneHasNoRows'
    BY <1>2, <2>3 DEF OwnershipInv, GoneHasNoRows, Exists
  <2>7. ASSUME NEW p \in Ops, p # o, OwnsRow(p)'
        PROVE  /\ OwnsRow(p) /\ op'[p] = op[p]
               /\ op[p].app = a => op[p].num # n
               /\ dep'[op[p].app][op[p].num] = dep[op[p].app][op[p].num]
    <3>1. OwnsRow(p) /\ op'[p] = op[p] /\ op[p].num \in Nums
      BY <1>0, <2>7 DEF OwnershipInv, NumsOwned, OwnsRow
    <3>2. op[p].app = a => op[p].num # n
      BY <1>2, <2>1, <3>1 DEF OwnershipInv, RowsOwned
    <3> QED
      BY <1>0, <2>3, <3>1, <3>2
  <2>8. RowsOwned'
    <3>1. \A p \in Ops : OwnsRow(p)' =>
            dep'[op'[p].app][op'[p].num] = IF Exists(op[p].app)' THEN "deploying" ELSE "none"
      <4>1. ASSUME NEW p \in Ops, p # o, OwnsRow(p)'
            PROVE  dep'[op'[p].app][op'[p].num] = IF Exists(op[p].app)' THEN "deploying" ELSE "none"
        <5>1. /\ OwnsRow(p) /\ op'[p] = op[p]
              /\ dep'[op[p].app][op[p].num] = dep[op[p].app][op[p].num]
          BY <2>7, <4>1
        <5>2. dep[op[p].app][op[p].num] = IF Exists(op[p].app) THEN "deploying" ELSE "none"
          BY <5>1 DEF OwnershipInv, RowsOwned
        <5> QED
          BY <1>2, <5>1, <5>2 DEF Exists
      <4>2. dep'[op'[o].app][op'[o].num] = "deploying" /\ Exists(op[o].app)'
        BY <1>2, <2>2, <2>3 DEF Exists
      <4> QED
        BY <4>1, <4>2
    <3>2. \A p, q \in Ops : p # q /\ OwnsRow(p)' /\ OwnsRow(q)' /\ op'[p].app = op'[q].app
            => op'[p].num # op'[q].num
      BY <1>0, <2>2, <2>7 DEF OwnershipInv, RowsOwned
    <3> QED
      BY <3>1, <3>2 DEF RowsOwned
  <2> QED
    BY <2>4, <2>5, <2>6, <2>8 DEF OwnershipInv
<1> QED
  BY <1>1, <1>2 DEF CreateRow

LEMMA DeleteRowKeepsOwnership ==
    ASSUME TypeOK, OwnershipInv, NEW o \in Ops, DeleteRow(o)
    PROVE  OwnershipInv'
<1>a. PICK a \in Apps : a = op[o].app
  BY DEF TypeOK, Operation
<1>0. /\ \A p \in Ops : op[p].app \in Apps
      /\ phase' = "up" /\ \A p \in Ops \ {o} : op'[p] = op[p]
      /\ ~OwnsRow(o)'
  <2>1. Step(o)
    BY DEF Step, Delete
  <2> QED
    BY <2>1, StepIsLocal DEF TypeOK, Operation, DeleteRow, Return, Resting, OwnsRow
<1>1. CASE UNCHANGED <<status, dep>>
  <2>1. Keeps(o)
    BY <1>0, <1>1 DEF Keeps, Exists
  <2> QED
    BY <1>0, <2>1, KeepsOwnership
<1>2. CASE /\ status' = [status EXCEPT ![a] = "gone"]
           /\ dep' = [dep EXCEPT ![a] = [n \in Nums |-> "none"]]
  <2>1. /\ ~Exists(a)' /\ \A n \in Nums : dep'[a][n] = "none"
        /\ \A b \in Apps \ {a} : dep'[b] = dep[b] /\ Exists(b)' = Exists(b)
    BY <1>2 DEF TypeOK, Exists
  <2>2. Quiet'
    BY <1>0 DEF Quiet
  <2>3. \A p \in Ops : OwnsRow(p)' => OwnsRow(p) /\ op'[p] = op[p] /\ op[p].num \in Nums
    BY <1>0 DEF OwnershipInv, NumsOwned, OwnsRow
  <2>4. NumsOwned'
    BY <2>3 DEF NumsOwned
  <2>5. GoneHasNoRows'
    BY <1>0, <2>1 DEF OwnershipInv, GoneHasNoRows
  <2>6. RowsOwned'
    <3>1. \A p \in Ops : OwnsRow(p)' =>
            dep'[op[p].app][op[p].num] = IF Exists(op[p].app)' THEN "deploying" ELSE "none"
      BY <1>0, <2>1, <2>3 DEF OwnershipInv, RowsOwned
    <3> QED
      BY <1>0, <2>3, <3>1 DEF OwnershipInv, RowsOwned
  <2> QED
    BY <2>2, <2>4, <2>5, <2>6 DEF OwnershipInv
<1> QED
  BY <1>a, <1>1, <1>2 DEF DeleteRow

\* Every other step of an operation leaves the rows alone.
LEMMA RowlessSteps ==
    ASSUME TypeOK, NEW o \in Ops, Step(o),
           ~(CreateRow(o) \/ Finish(o) \/ FailFinish(o) \/ DeleteRow(o))
    PROVE  Keeps(o)
<1> USE DEF At, Failing, OwnsRow, Goto, Return, Resting, Keeps, Exists, TypeOK, storeVars
<1>1. op[o] \in Operation
  OBVIOUS
<1>2. CASE MarkDeploying(o)
  BY <1>1, <1>2 DEF MarkDeploying, WithStatus, Operation
<1>3. CASE Prepare(o)
  BY <1>1, <1>3 DEF Prepare, Operation
<1>4. CASE ClearFirst(o) \/ Clear(o)
  BY <1>1, <1>4 DEF ClearFirst, Clear, ListOld, RemoveListed, Operation
<1>5. CASE Create(o) \/ Start(o) \/ Probe(o)
  BY <1>1, <1>5 DEF Create, Start, Probe, Operation
<1>6. CASE SetScheme(o)
  BY <1>1, <1>6 DEF SetScheme, Operation
<1>7. CASE MarkRunning(o)
  BY <1>1, <1>7 DEF MarkRunning, WithStatus, Operation
<1>8. CASE CutOver(o) \/ RefreshRoutes(o)
  BY <1>1, <1>8 DEF CutOver, RefreshRoutes, LockRoutes, ApplyRoutes, ApplyFails, Operation
<1>9. CASE FailRemove(o) \/ FailList(o)
  BY <1>1, <1>9 DEF FailRemove, FailList, Operation
<1>10. CASE FailStatus(o)
  BY <1>1, <1>10 DEF FailStatus, WithStatus, Operation
<1>11. CASE Delete(o) /\ ~DeleteRow(o)
  BY <1>1, <1>11 DEF Delete, DeleteList, RemoveListed, LockRoutes, ApplyRoutes, ApplyFails, Operation
<1> QED
  BY <1>2, <1>3, <1>4, <1>5, <1>6, <1>7, <1>8, <1>9, <1>10, <1>11
  DEF Step, Deploying, Fail

LEMMA StepKeepsOwnership ==
    ASSUME TypeOK, OwnershipInv, NEW o \in Ops, Step(o)
    PROVE  OwnershipInv'
<1>1. phase' = "up" /\ \A p \in Ops \ {o} : op'[p] = op[p]
  BY StepIsLocal
<1>2. CASE CreateRow(o)
  BY <1>2, CreateRowKeepsOwnership
<1>3. CASE DeleteRow(o)
  BY <1>3, DeleteRowKeepsOwnership
<1>4. CASE Finish(o) \/ FailFinish(o)
  <2>1. OwnsRow(o) /\ ~OwnsRow(o)' /\ status' = status
    BY <1>4 DEF Finish, FailFinish, At, OwnsRow, Goto, Return, Resting, TypeOK, Operation
  <2>2. CASE dep' = dep
    <3>1. Keeps(o)
      BY <2>1, <2>2 DEF Keeps, Exists
    <3> QED
      BY <1>1, <3>1, KeepsOwnership
  <2>3. CASE \E s : dep' = WithDep(op[o].app, op[o].num, s)
    BY <1>1, <2>1, <2>3, FinishingKeepsOwnership
  <2> QED
    BY <1>4, <2>2, <2>3 DEF Finish, FailFinish
<1>5. CASE ~(CreateRow(o) \/ Finish(o) \/ FailFinish(o) \/ DeleteRow(o))
  BY <1>1, <1>5, RowlessSteps, KeepsOwnership
<1> QED
  BY <1>2, <1>3, <1>4, <1>5

\* A boot runs while no operation owns a row.
LEMMA BootKeepsOwnership ==
    ASSUME TypeOK, OwnershipInv, Boot
    PROVE  OwnershipInv'
<1>1. op' = op /\ \A o \in Ops : op[o].pc = "idle"
  BY DEF Boot, CleanupOrphans, SweepStuck, BootRoutes, OwnershipInv, Quiet, Busy
<1>2. \A o \in Ops : ~OwnsRow(o)'
  BY <1>1 DEF OwnsRow
<1>3. Quiet'
  BY <1>1 DEF Quiet, Busy
<1>4. GoneHasNoRows'
  <2>1. CASE SweepStuck
    <3>1. ASSUME NEW a \in Apps, ~Exists(a)
          PROVE  status'[a] = status[a] /\ dep'[a] = dep[a]
      <4>1. Stuck(a) = {}
        BY <3>1 DEF OwnershipInv, GoneHasNoRows, Stuck
      <4> QED
        BY <2>1, <4>1 DEF SweepStuck, TypeOK
    <3>2. \A a \in Apps : Exists(a) => Exists(a)'
      BY <2>1 DEF SweepStuck, SweptStatuses, Exists, TypeOK
    <3> QED
      BY <3>1, <3>2 DEF OwnershipInv, GoneHasNoRows
  <2>2. CASE CleanupOrphans \/ BootRoutes
    BY <2>2 DEF CleanupOrphans, BootRoutes, storeVars, OwnershipInv, GoneHasNoRows, Exists
  <2> QED
    BY <2>1, <2>2 DEF Boot
<1> QED
  BY <1>2, <1>3, <1>4 DEF OwnershipInv, NumsOwned, RowsOwned

LEMMA BeginsKeepsOwnership ==
    ASSUME TypeOK, OwnershipInv, NEW o \in Ops, NEW a \in Apps, Begins(o, a)
    PROVE  OwnershipInv'
<1>1. phase' = "up" /\ \A p \in Ops \ {o} : op'[p] = op[p]
  BY BeginsIsLocal
<1>2. Keeps(o)
  BY BeginsIsLocal DEF Keeps, OwnsRow, Exists, storeVars
<1> QED
  BY <1>1, <1>2, KeepsOwnership

LEMMA OwnershipInductive == TypeOK /\ OwnershipInv /\ [Next]_vars => OwnershipInv'
<1> SUFFICES ASSUME TypeOK, OwnershipInv, [Next]_vars PROVE OwnershipInv'
  OBVIOUS
<1>1. ASSUME NEW o \in Ops, Step(o) PROVE OwnershipInv'
  BY <1>1, StepKeepsOwnership
<1>2. ASSUME NEW o \in Ops, NEW a \in Apps, Begins(o, a) PROVE OwnershipInv'
  BY <1>2, BeginsKeepsOwnership
<1>3. CASE UNCHANGED <<status, dep, op, phase>>
  BY <1>3 DEF OwnershipInv, Quiet, NumsOwned, GoneHasNoRows, RowsOwned, OwnsRow, Exists, Busy
<1>4. ASSUME NEW a \in Apps, PatchStrategy(a) PROVE OwnershipInv'
  BY <1>3, <1>4 DEF PatchStrategy
<1>5. CASE Crash
  <2>1. \A o \in Ops : op'[o].pc = "idle"
    BY <1>5 DEF Crash, Resting
  <2> QED
    BY <1>5, <2>1 DEF Crash, storeVars, OwnershipInv, Quiet, NumsOwned, GoneHasNoRows,
       RowsOwned, OwnsRow, Exists, Busy
<1>6. CASE Boot
  BY <1>6, BootKeepsOwnership
<1>7. CASE UNCHANGED vars
  BY <1>3, <1>7 DEF vars
<1> QED
  BY <1>1, <1>2, <1>4, <1>5, <1>6, <1>7 DEF Next

LEMMA Ownership == Spec => [](TypeOK /\ OwnershipInv)
<1>1. Init => OwnershipInv
  BY DEF Init, OwnershipInv, Quiet, NumsOwned, GoneHasNoRows, RowsOwned, OwnsRow, Exists, Resting
<1> QED
  BY <1>1, OwnershipInductive, Typing, PTL DEF Spec

\* Two rollouts of one app never write to the same deployment row, and the
\* row of a rollout stays "deploying" until that rollout finishes it.
THEOREM RowsHaveOneOwner == Spec => []RowsOwned
<1>1. OwnershipInv => RowsOwned
  BY DEF OwnershipInv
<1> QED
  BY <1>1, Ownership, PTL

----------------------------------------------------------------------------
(* The verdict on a deployment is final                                    *)

\* The only rows a step changes are free ones, owned ones, the "deploying"
\* ones of a boot sweep and those of an app it deletes.
LEMMA VerdictsStay ==
    ASSUME TypeOK, OwnershipInv, [Next]_vars, NEW a \in Apps, NEW n \in Nums,
           dep[a][n] \in {"healthy", "failed"}
    PROVE  dep'[a][n] = dep[a][n] \/ status'[a] = "gone"
<1>1. CASE dep' = dep
  BY <1>1
<1>2. ASSUME NEW o \in Ops, CreateRow(o)
      PROVE  dep'[a][n] = dep[a][n]
  <2>1. ASSUME NEW b \in Apps, NEW m \in Nums, IsNextNumber(b, m),
               dep' = [dep EXCEPT ![b][m] = "deploying"]
        PROVE  dep'[a][n] = dep[a][n]
    <3>1. dep[b][m] = "none"
      BY <2>1, NextNumberIsFree
    <3> QED
      BY <2>1, <3>1 DEF TypeOK
  <2>2. op[o].app \in Apps
    BY DEF TypeOK, Operation
  <2> QED
    BY <1>1, <1>2, <2>1, <2>2 DEF CreateRow
<1>3. ASSUME NEW o \in Ops, Finish(o) \/ FailFinish(o)
      PROVE  dep'[a][n] = dep[a][n]
  <2>1. dep[op[o].app][op[o].num] \in {"deploying", "none"}
    BY <1>3 DEF Finish, FailFinish, At, OwnsRow, OwnershipInv, RowsOwned
  <2>2. ASSUME NEW b, NEW m, NEW s, dep[b][m] \in {"deploying", "none"}, dep' = WithDep(b, m, s)
        PROVE  dep'[a][n] = dep[a][n]
    BY <2>2 DEF WithDep, TypeOK
  <2> QED
    BY <1>1, <1>3, <2>1, <2>2 DEF Finish, FailFinish
<1>4. ASSUME NEW o \in Ops, DeleteRow(o)
      PROVE  dep'[a][n] = dep[a][n] \/ status'[a] = "gone"
  BY <1>4 DEF DeleteRow, TypeOK
<1>5. CASE SweepStuck
  BY <1>5 DEF SweepStuck, Stuck, TypeOK
<1>6. ASSUME NEW o \in Ops, Step(o)
      PROVE  dep'[a][n] = dep[a][n] \/ status'[a] = "gone"
  BY <1>2, <1>3, <1>4, <1>6, RowlessSteps DEF Keeps
<1>7. ASSUME NEW o \in Ops, NEW b \in Apps, Begins(o, b)
      PROVE  dep' = dep
  BY <1>7, BeginsIsLocal DEF storeVars
<1>8. CASE \/ \E b \in Apps : PatchStrategy(b)
           \/ Crash \/ CleanupOrphans \/ BootRoutes \/ UNCHANGED vars
  BY <1>1, <1>8 DEF PatchStrategy, Crash, CleanupOrphans, BootRoutes, storeVars, vars
<1> QED
  BY <1>1, <1>5, <1>6, <1>7, <1>8 DEF Next, Boot

\* Neither a concurrent rollout, nor a retry, nor the boot sweep ever rewrites
\* the verdict of a finished deployment: its row only goes with its app.
THEOREM VerdictsAreFinal == Spec => TerminalIsFinal
<1> DEFINE Final == \A a \in Apps, n \in Nums :
          dep[a][n] \in {"healthy", "failed"} =>
             dep'[a][n] = dep[a][n] \/ status'[a] = "gone"
<1>1. TypeOK /\ OwnershipInv /\ [Next]_vars => [Final]_vars
  BY VerdictsStay
<1> QED
  BY <1>1, Ownership, PTL DEF Spec, TerminalIsFinal

=============================================================================
