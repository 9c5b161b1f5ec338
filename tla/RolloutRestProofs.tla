------------------------- MODULE RolloutRestProofs -------------------------
(***************************************************************************)
(* Theorems about what the deploy engine of module Rollout leaves behind   *)
(* when no operation is in progress or the process has died, about what    *)
(* none of its steps takes down, and about how many containers of an app   *)
(* run at once: for every set of apps and operations and every bound.      *)
(***************************************************************************)
EXTENDS RolloutProofs, FiniteSetTheorems

----------------------------------------------------------------------------
(* Nothing is left pending                                                 *)

\* The operation is on its way to write a status other than "deploying".
Restores(o) == op[o].pc \in {"prepare", "clear_first", "clearing_first", "create", "start",
    "probe", "scheme", "running", "fail_remove", "fail_finish", "fail_list", "fail_status"}

\* Whatever is "deploying" has an operation that will finish it.
PendingInv == Reported =>
    /\ phase = "up"
    /\ \A a \in Apps : status[a] = "deploying" =>
          \E o \in Ops : Restores(o) /\ op[o].app = a
    /\ \A a \in Apps, n \in Nums : dep[a][n] = "deploying" =>
          \E o \in Ops : OwnsRow(o) /\ op[o].app = a /\ op[o].num = n

\* A step of one operation keeps PendingInv if whatever it leaves "deploying"
\* has an operation, and it gives up only what is "deploying" no more.
LEMMA KeepsPending ==
    ASSUME TypeOK, PendingInv, NEW o \in Ops, \A p \in Ops \ {o} : op'[p] = op[p],
           phase' = phase, faults' = faults,
           \A a \in Apps : status'[a] = "deploying" =>
               status[a] = "deploying" \/ (Restores(o)' /\ op'[o].app = a),
           \A a \in Apps, n \in Nums : dep'[a][n] = "deploying" =>
               dep[a][n] = "deploying" \/ (OwnsRow(o)' /\ op'[o].app = a /\ op'[o].num = n),
           Restores(o) => \/ Restores(o)' /\ op'[o].app = op[o].app
                          \/ Reported => status'[op[o].app] # "deploying",
           OwnsRow(o) => \/ OwnsRow(o)' /\ op'[o].app = op[o].app /\ op'[o].num = op[o].num
                         \/ Reported => dep'[op[o].app][op[o].num] # "deploying"
    PROVE  PendingInv'
<1> SUFFICES ASSUME Reported PROVE PendingInv'
  BY DEF PendingInv, Reported
<1>1. \A p \in Ops \ {o} : (Restores(p) <=> Restores(p)') /\ (OwnsRow(p) <=> OwnsRow(p)')
  BY DEF Restores, OwnsRow
<1>2. phase' = "up"
  BY DEF PendingInv
<1>3. ASSUME NEW a \in Apps, status'[a] = "deploying"
      PROVE  \E p \in Ops : Restores(p)' /\ op'[p].app = a
  <2>1. CASE Restores(o)' /\ op'[o].app = a
    BY <2>1
  <2>2. CASE status[a] = "deploying"
    <3>1. PICK p \in Ops : Restores(p) /\ op[p].app = a
      BY <2>2 DEF PendingInv
    <3>2. CASE p = o
      BY <1>3, <3>1, <3>2
    <3>3. CASE p # o
      BY <1>1, <3>1, <3>3
    <3> QED
      BY <3>2, <3>3
  <2> QED
    BY <1>3, <2>1, <2>2
<1>4. ASSUME NEW a \in Apps, NEW n \in Nums, dep'[a][n] = "deploying"
      PROVE  \E p \in Ops : OwnsRow(p)' /\ op'[p].app = a /\ op'[p].num = n
  <2>1. CASE OwnsRow(o)' /\ op'[o].app = a /\ op'[o].num = n
    BY <2>1
  <2>2. CASE dep[a][n] = "deploying"
    <3>1. PICK p \in Ops : OwnsRow(p) /\ op[p].app = a /\ op[p].num = n
      BY <2>2 DEF PendingInv
    <3>2. CASE p = o
      BY <1>4, <3>1, <3>2
    <3>3. CASE p # o
      BY <1>1, <3>1, <3>3
    <3> QED
      BY <3>2, <3>3
  <2> QED
    BY <1>4, <2>1, <2>2
<1> QED
  BY <1>2, <1>3, <1>4 DEF PendingInv

LEMMA StepKeepsPending ==
    ASSUME TypeOK, OwnershipInv, PendingInv, NEW o \in Ops, Step(o), faults' = faults
    PROVE  PendingInv'
<1> DEFINE a == op[o].app  n == op[o].num
<1>0. /\ op[o] \in Operation /\ a \in Apps
      /\ phase' = phase /\ \A p \in Ops \ {o} : op'[p] = op[p]
  BY StepIsLocal DEF TypeOK, Operation
<1>t. /\ status \in [Apps -> Statuses] /\ dep \in [Apps -> [Nums -> DepStatuses]]
      /\ op \in [Ops -> Operation]
  BY DEF TypeOK
\* Steps that write neither a status nor a row.
<1>1. ASSUME status' = status, dep' = dep,
             Restores(o) => Restores(o)' /\ op'[o].app = a,
             OwnsRow(o) => OwnsRow(o)' /\ op'[o].app = a /\ op'[o].num = n
      PROVE  PendingInv'
  BY <1>0, <1>1, KeepsPending
<1> USE DEF At, Failing, Goto
<1>2. CASE CreateRow(o)
  <2>1. CASE Return(o) /\ UNCHANGED dep
    BY <1>1, <1>2, <2>1 DEF CreateRow, Restores, OwnsRow
  <2>2. CASE ~(Return(o) /\ UNCHANGED dep)
    <3>1. PICK m \in Nums : /\ dep' = [dep EXCEPT ![a][m] = "deploying"]
                            /\ op' = [op EXCEPT ![o].pc = "mark", ![o].num = m]
      BY <1>2, <2>2 DEF CreateRow
    <3>2. OwnsRow(o)' /\ op'[o].app = a /\ op'[o].num = m
      BY <1>0, <1>t, <3>1 DEF OwnsRow, Operation
    <3>3. \A b \in Apps, k \in Nums : dep'[b][k] = "deploying" =>
             dep[b][k] = "deploying" \/ (b = a /\ k = m)
      BY <1>0, <1>t, <3>1
    <3>4. status' = status /\ ~Restores(o) /\ ~OwnsRow(o)
      BY <1>2 DEF CreateRow, Restores, OwnsRow
    <3> QED
      BY <1>0, <3>2, <3>3, <3>4, KeepsPending
  <2> QED
    BY <2>1, <2>2
<1>3. CASE MarkDeploying(o)
  <2>1. dep' = dep /\ ~Restores(o) /\ Restores(o)' /\ OwnsRow(o)'
        /\ op'[o].app = a /\ op'[o].num = n
    BY <1>0, <1>t, <1>3 DEF MarkDeploying, Restores, OwnsRow, Operation
  <2>2. \A b \in Apps : status'[b] = "deploying" => status[b] = "deploying" \/ b = a
    BY <1>0, <1>t, <1>3 DEF MarkDeploying, WithStatus
  <2> QED
    BY <1>0, <2>1, <2>2, KeepsPending
<1>4. CASE Prepare(o) \/ ClearFirst(o) \/ Create(o) \/ Start(o) \/ Probe(o) \/ SetScheme(o)
  <2>1. CASE Prepare(o)
    BY <1>0, <1>t, <1>1, <2>1 DEF Prepare, Restores, OwnsRow, Operation, storeVars
  <2>2. CASE ClearFirst(o)
    BY <1>0, <1>t, <1>1, <2>2 DEF ClearFirst, ListOld, RemoveListed, Restores, OwnsRow, Operation, storeVars
  <2>3. CASE Create(o) \/ Start(o) \/ Probe(o)
    BY <1>0, <1>t, <1>1, <2>3 DEF Create, Start, Probe, Restores, OwnsRow, Operation, storeVars
  <2>4. CASE SetScheme(o)
    BY <1>0, <1>t, <1>1, <2>4 DEF SetScheme, Restores, OwnsRow, Operation
  <2> QED
    BY <1>4, <2>1, <2>2, <2>3, <2>4
<1>5. CASE MarkRunning(o)
  <2>1. dep' = dep /\ OwnsRow(o)' /\ op'[o].app = a /\ op'[o].num = n
    BY <1>0, <1>t, <1>5 DEF MarkRunning, OwnsRow, Operation
  <2>2. CASE status' = WithStatus(a, "running")
    <3>1. \A b \in Apps : status'[b] = "deploying" => status[b] = "deploying" /\ b # a
      BY <1>0, <1>t, <2>2 DEF WithStatus, Exists
    <3>2. status'[a] # "deploying"
      BY <1>0, <3>1
    <3> QED
      BY <1>0, <2>1, <3>1, <3>2, KeepsPending
  <2>3. CASE Goto(o, "fail_remove") /\ status' = status
    BY <1>0, <1>t, <1>1, <2>1, <2>3 DEF Restores, Operation
  <2> QED
    BY <1>5, <2>2, <2>3 DEF MarkRunning
<1>6. CASE CutOver(o) \/ Clear(o)
  <2>1. CASE CutOver(o)
    BY <1>0, <1>t, <1>1, <2>1
    DEF CutOver, LockRoutes, ApplyRoutes, ApplyFails, Restores, OwnsRow, Operation, storeVars
  <2>2. CASE Clear(o)
    BY <1>0, <1>t, <1>1, <2>2 DEF Clear, ListOld, RemoveListed, Restores, OwnsRow, Operation, storeVars
  <2> QED
    BY <1>6, <2>1, <2>2
\* The row is finished, unless the error of the store is only logged.
<1>7. ASSUME NEW s \in {"healthy", "failed"}, status' = status, OwnsRow(o),
             dep' = WithDep(a, n, s) \/ ("logged" \in faults /\ dep' = dep),
             Restores(o) => Restores(o)' /\ op'[o].app = a
      PROVE  PendingInv'
  <2>1. \A b \in Apps, k \in Nums : dep'[b][k] = "deploying" => dep[b][k] = "deploying"
    BY <1>0, <1>t, <1>7 DEF WithDep
  <2>2. Reported => dep'[a][n] # "deploying"
    BY <1>0, <1>t, <1>7 DEF WithDep, Reported, OwnershipInv, NumsOwned
  <2> QED
    BY <1>0, <1>7, <2>1, <2>2, KeepsPending
<1>8. CASE Finish(o)
  BY <1>7, <1>8 DEF Finish, Restores, OwnsRow
<1>9. CASE FailFinish(o)
  BY <1>0, <1>t, <1>7, <1>9 DEF FailFinish, Restores, OwnsRow, Operation
<1>10. CASE FailRemove(o) \/ FailList(o)
  BY <1>0, <1>t, <1>1, <1>10 DEF FailRemove, FailList, Restores, OwnsRow, Operation, storeVars
<1>11. CASE FailStatus(o)
  <2>1. dep' = dep /\ ~OwnsRow(o) /\ op[o].verdict # "deploying"
    BY <1>0, <1>11 DEF FailStatus, OwnsRow, Operation
  <2>2. \A b \in Apps : status'[b] = "deploying" => status[b] = "deploying"
    BY <1>0, <1>t, <1>11, <2>1 DEF FailStatus, WithStatus
  <2>3. Reported => status'[a] # "deploying"
    BY <1>0, <1>t, <1>11, <2>1 DEF FailStatus, WithStatus, Reported, Exists
  <2> QED
    BY <1>0, <2>1, <2>2, <2>3, KeepsPending
<1>12. CASE RefreshRoutes(o)
  BY <1>1, <1>12 DEF RefreshRoutes, LockRoutes, ApplyRoutes, ApplyFails, Restores, OwnsRow, storeVars
<1>13. CASE Delete(o) /\ ~DeleteRow(o)
  BY <1>1, <1>13 DEF Delete, DeleteList, RemoveListed, LockRoutes, ApplyRoutes, ApplyFails,
     Restores, OwnsRow, storeVars
<1>14. CASE DeleteRow(o)
  <2>1. ~OwnsRow(o) /\ ~Restores(o)
    BY <1>14 DEF DeleteRow, OwnsRow, Restores
  <2>2. \A b \in Apps : status'[b] = "deploying" => status[b] = "deploying"
    BY <1>0, <1>t, <1>14 DEF DeleteRow
  <2>3. \A b \in Apps, k \in Nums : dep'[b][k] = "deploying" => dep[b][k] = "deploying"
    BY <1>0, <1>t, <1>14 DEF DeleteRow
  <2> QED
    BY <1>0, <2>1, <2>2, <2>3, KeepsPending
<1> QED
  BY <1>2, <1>3, <1>4, <1>5, <1>6, <1>8, <1>9, <1>10, <1>11, <1>12, <1>13, <1>14
  DEF Step, Deploying, Fail

LEMMA BeginsKeepsPending ==
    ASSUME TypeOK, PendingInv, NEW o \in Ops, NEW b \in Apps, Begins(o, b), faults' = faults
    PROVE  PendingInv'
<1>1. ~Restores(o) /\ ~OwnsRow(o)
  BY BeginsIsLocal DEF Restores, OwnsRow
<1> QED
  BY <1>1, BeginsIsLocal, KeepsPending DEF storeVars

\* When every failure is reported and no operation is in progress, no row and
\* no app is left "deploying", whatever any number of operations did.
THEOREM NothingIsLeftPending == Spec => []NothingPending
<1>1. Init => PendingInv
  BY DEF Init, PendingInv
<1>2. TypeOK /\ OwnershipInv /\ PendingInv /\ [Next]_vars => PendingInv'
  <2> SUFFICES ASSUME TypeOK, OwnershipInv, PendingInv, [Next]_vars PROVE PendingInv'
    OBVIOUS
  <2>1. ASSUME NEW o \in Ops, Step(o), faults' = faults PROVE PendingInv'
    BY <2>1, StepKeepsPending
  <2>2. ASSUME NEW o \in Ops, NEW b \in Apps, Begins(o, b), faults' = faults PROVE PendingInv'
    BY <2>2, BeginsKeepsPending
  <2>3. CASE /\ UNCHANGED <<status, dep, phase, op, faults>>
    BY <2>3 DEF PendingInv, Reported, Restores, OwnsRow
  <2>4. ASSUME NEW b \in Apps, PatchStrategy(b), faults' = faults PROVE PendingInv'
    BY <2>3, <2>4 DEF PatchStrategy
  <2>5. CASE Crash /\ faults' = faults
    BY <2>5 DEF Crash, PendingInv, Reported
  <2>6. CASE Boot /\ faults' = faults
    BY <2>6 DEF Boot, CleanupOrphans, SweepStuck, BootRoutes, PendingInv, Reported
  <2>7. CASE UNCHANGED vars
    BY <2>3, <2>7 DEF vars
  <2> QED
    BY <2>1, <2>2, <2>4, <2>5, <2>6, <2>7 DEF Next
<1>3. PendingInv => NothingPending
  BY DEF PendingInv, NothingPending, AtRest, Busy, Restores, OwnsRow
<1> QED
  BY <1>1, <1>2, <1>3, Ownership, PTL DEF Spec

----------------------------------------------------------------------------
(* One writer                                                              *)

\* The operations on an app come one after the other.
OneAtATime == \A o, p \in Ops : Busy(o) /\ Busy(p) /\ op[o].app = op[p].app => o = p

Single(S) == \A m, n \in S : m = n

\* The calls between the start of a new container and the end of the old one.
Overlaps(o) == op[o].pc \in {"start", "probe", "scheme", "running", "lock", "apply",
                             "clear", "clearing", "fail_remove"}

\* What is known of the app of one operation.
WriterKnows(o) ==
    /\ Overlaps(o) => Single(Running(op[o].app) \ {op[o].num})
    /\ op[o].pc \in {"clearing_first", "clearing"} =>
          Others(op[o].app, op[o].num) \subseteq op[o].todo
    /\ op[o].plan = "replace" /\ (op[o].pc = "create" \/ Overlaps(o)) =>
          Running(op[o].app) \subseteq {op[o].num}

WriterInv == faults \cap {"remove", "list", "crash"} = {} =>
    /\ phase = "up"
    /\ \A a \in Apps : Single(Running(a)) \/ \E o \in Ops : Overlaps(o) /\ op[o].app = a
    /\ \A o \in Ops : WriterKnows(o)

\* A step of an operation changes containers of its own app only.
LEMMA OwnContainers ==
    ASSUME TypeOK, NEW o \in Ops, Step(o), NEW b \in Apps, b # op[o].app
    PROVE  ctr'[b] = ctr[b]
<1>1. op[o].app \in Apps
  BY DEF TypeOK, Operation
<1>2. CASE ctr' = ctr
  BY <1>2
<1>3. CASE RemoveListed(o, "clearing_first", "create") \/ RemoveListed(o, "clearing", "finish")
           \/ RemoveListed(o, "del_removing", "del_lock")
  BY <1>1, <1>3 DEF RemoveListed, TypeOK
<1>4. CASE Create(o) \/ Start(o) \/ FailRemove(o)
  BY <1>1, <1>4 DEF Create, Start, FailRemove, TypeOK
<1> QED
  BY <1>2, <1>3, <1>4
  DEF Step, Deploying, CreateRow, MarkDeploying, Prepare, ClearFirst, ListOld, Probe, SetScheme,
      MarkRunning, CutOver, LockRoutes, ApplyRoutes, ApplyFails, Clear, Finish, Fail, FailFinish,
      FailList, FailStatus, RefreshRoutes, Delete, DeleteList, DeleteRow

\* It is enough to look at the operation that takes the step, and its app.
LEMMA KeepsWriters ==
    ASSUME TypeOK, OneAtATime, WriterInv, NEW o \in Ops, Step(o), faults' = faults,
           faults \cap {"remove", "list", "crash"} = {}, NEW a \in Apps, a = op[o].app,
           Single(Running(a))' \/ (Overlaps(o)' /\ op'[o].app = a),
           WriterKnows(o)'
    PROVE  WriterInv'
<1>0. /\ \A p \in Ops \ {o} : op'[p] = op[p]
      /\ phase' = "up" /\ op[o].pc # "idle"
      /\ \A p \in Ops : op[p].app \in Apps
  <2>1. op[o].pc # "idle"
    BY DEF Step, Deploying, CreateRow, MarkDeploying, Prepare, ClearFirst, ListOld, RemoveListed,
       Create, Start, Probe, SetScheme, MarkRunning, CutOver, LockRoutes, ApplyRoutes, ApplyFails,
       Clear, Finish, Fail, FailRemove, FailFinish, FailList, FailStatus, RefreshRoutes, Delete,
       DeleteList, DeleteRow, At
  <2> QED
    BY <2>1, StepIsLocal DEF TypeOK, Operation
<1>1. ASSUME NEW b \in Apps, b # a
      PROVE  Running(b)' = Running(b) /\ \A n : Others(b, n)' = Others(b, n)
  <2>1. ctr'[b] = ctr[b]
    BY <1>1, OwnContainers
  <2> QED
    BY <2>1 DEF Running, Others
<1>2. ASSUME NEW p \in Ops, p # o, op[p].pc # "idle"
      PROVE  op[p].app # a
  BY <1>0, <1>2 DEF OneAtATime, Busy
<1>3. ASSUME NEW p \in Ops PROVE WriterKnows(p)'
  <2>1. CASE p = o
    BY <2>1
  <2>2. CASE p # o /\ op[p].pc = "idle"
    BY <1>0, <2>2 DEF WriterKnows, Overlaps
  <2>3. CASE p # o /\ op[p].pc # "idle"
    <3>1. op'[p] = op[p] /\ op[p].app # a
      BY <1>0, <1>2, <2>3
    <3>2. WriterKnows(p)
      BY DEF WriterInv, WriterKnows
    <3> QED
      BY <1>0, <1>1, <3>1, <3>2 DEF WriterKnows, Overlaps
  <2> QED
    BY <2>1, <2>2, <2>3
<1>4. ASSUME NEW b \in Apps
      PROVE  Single(Running(b))' \/ \E p \in Ops : Overlaps(p)' /\ op'[p].app = b
  <2>1. CASE b = a
    BY <2>1
  <2>2. CASE b # a
    <3>1. CASE Single(Running(b))
      BY <1>1, <2>2, <3>1 DEF Single
    <3>2. CASE \E p \in Ops : Overlaps(p) /\ op[p].app = b
      <4>1. PICK p \in Ops : Overlaps(p) /\ op[p].app = b
        BY <3>2
      <4> QED
        BY <1>0, <2>2, <4>1 DEF Overlaps
    <3> QED
      BY <3>1, <3>2 DEF WriterInv
  <2> QED
    BY <2>1, <2>2
<1> QED
  BY <1>0, <1>3, <1>4 DEF WriterInv, WriterKnows

LEMMA StepKeepsWriters ==
    ASSUME TypeOK, OneAtATime, WriterInv, NEW o \in Ops, Step(o), faults' = faults
    PROVE  WriterInv'
<1> SUFFICES ASSUME faults \cap {"remove", "list", "crash"} = {} PROVE WriterInv'
  BY DEF WriterInv
<1>a. PICK a \in Apps : a = op[o].app
  BY DEF TypeOK, Operation
<1>n. PICK n : n = op[o].num
  OBVIOUS
<1>0. op[o] \in Operation /\ a \in Apps /\ a = op[o].app /\ n = op[o].num
  BY <1>a, <1>n DEF TypeOK
<1>t. /\ op \in [Ops -> Operation] /\ ctr \in [Apps -> [Nums -> CtrStates]]
      /\ "remove" \notin faults /\ "list" \notin faults
  BY DEF TypeOK
<1>w. WriterKnows(o)
  BY DEF WriterInv, WriterKnows
\* But for the calls between start and cleanup one container runs at most.
<1>s. ~Overlaps(o) => Single(Running(a))
  <2> SUFFICES ASSUME ~Overlaps(o), op[o].pc # "idle" PROVE Single(Running(a))
    BY DEF Step, Deploying, CreateRow, MarkDeploying, Prepare, ClearFirst, ListOld, RemoveListed,
       Create, Start, Probe, SetScheme, MarkRunning, CutOver, LockRoutes, ApplyRoutes, ApplyFails,
       Clear, Finish, Fail, FailRemove, FailFinish, FailList, FailStatus, RefreshRoutes, Delete,
       DeleteList, DeleteRow, At
  <2>1. \A p \in Ops : Overlaps(p) => op[p].app # a
    BY <1>0 DEF OneAtATime, Busy, Overlaps
  <2> QED
    BY <1>0, <2>1 DEF WriterInv
<1> USE DEF At, Failing, Goto
\* Steps that change no container.
<1>1. ASSUME ctr' = ctr, Overlaps(o) => Overlaps(o)' /\ op'[o].app = a, WriterKnows(o)'
      PROVE  WriterInv'
  <2>1. Running(a)' = Running(a)
    BY <1>1 DEF Running
  <2>2. Single(Running(a))' \/ (Overlaps(o)' /\ op'[o].app = a)
    BY <1>1, <1>s, <2>1 DEF Single
  <2> QED
    BY <1>0, <1>1, <2>2, KeepsWriters
<1>2. CASE \/ CreateRow(o) \/ MarkDeploying(o) \/ Prepare(o) \/ FailFinish(o) \/ FailList(o)
           \/ FailStatus(o) \/ RefreshRoutes(o) \/ DeleteList(o) \/ DeleteRow(o) \/ Finish(o)
           \/ LockRoutes(o, "del_lock", "del_apply", [Routes EXCEPT ![op[o].app] = "none"])
           \/ ApplyRoutes(o, "del_apply", Goto(o, "del_row"))
           \/ ApplyFails(o, "del_apply", Return(o))
  <2>1. ctr' = ctr /\ ~Overlaps(o)
    BY <1>2 DEF CreateRow, MarkDeploying, Prepare, FailFinish, FailList, FailStatus,
       RefreshRoutes, LockRoutes, ApplyRoutes, ApplyFails, DeleteList, DeleteRow, Finish, Overlaps
  <2>2. ~Overlaps(o)' /\ op'[o].pc \notin {"clearing_first", "clearing"}
        /\ (op'[o].pc = "create" => op'[o].plan # "replace")
    BY <1>0, <1>t, <1>2
    DEF CreateRow, MarkDeploying, Prepare, FailFinish, FailList, FailStatus, RefreshRoutes,
        LockRoutes, ApplyRoutes, ApplyFails, DeleteList, DeleteRow, Finish, Return, Resting,
        Overlaps, Operation
  <2>3. WriterKnows(o)'
    BY <2>2 DEF WriterKnows
  <2> QED
    BY <1>1, <2>1, <2>3
<1>3. CASE \/ ListOld(o, "clear_first", "clearing_first") \/ ListOld(o, "clear", "clearing")
           \/ Probe(o) \/ SetScheme(o) \/ MarkRunning(o) \/ CutOver(o)
  <2>1. ctr' = ctr /\ op'[o].app = a /\ op'[o].num = n /\ op'[o].plan = op[o].plan
    BY <1>0, <1>t, <1>3 DEF ListOld, Probe, SetScheme, MarkRunning, CutOver,
       LockRoutes, ApplyRoutes, ApplyFails, Operation
  <2>2. Overlaps(o)' <=> Overlaps(o)
    BY <1>0, <1>t, <1>3 DEF ListOld, Probe, SetScheme, MarkRunning, CutOver,
       LockRoutes, ApplyRoutes, ApplyFails, Overlaps, Operation
  <2>3. op'[o].pc \in {"clearing_first", "clearing"} => op'[o].todo = Others(a, n)
    BY <1>0, <1>t, <1>3 DEF ListOld, Probe, SetScheme, MarkRunning, CutOver,
       LockRoutes, ApplyRoutes, ApplyFails, Operation
  <2>4. op'[o].pc # "create"
    BY <1>0, <1>t, <1>3 DEF ListOld, Probe, SetScheme, MarkRunning, CutOver,
       LockRoutes, ApplyRoutes, ApplyFails, Operation
  <2>5. Running(a)' = Running(a) /\ Others(a, n)' = Others(a, n)
    BY <2>1 DEF Running, Others
  <2>6. WriterKnows(o)'
    BY <1>0, <1>w, <2>1, <2>2, <2>3, <2>4, <2>5 DEF WriterKnows, Single
  <2> QED
    BY <1>1, <2>1, <2>2, <2>6
\* A container of another generation is removed.
<1>4. ASSUME NEW each, NEW then, RemoveListed(o, each, then),
             <<each, then>> \in {<<"clearing_first", "create">>, <<"clearing", "finish">>,
                                 <<"del_removing", "del_lock">>}
      PROVE  WriterInv'
  <2>1. CASE \E m \in op[o].todo : /\ \E s \in Leftovers(ctr[a][m]) : ctr' = [ctr EXCEPT ![a][m] = s]
                                   /\ op' = [op EXCEPT ![o].todo = @ \ {m}]
    <3>1. PICK m \in op[o].todo : /\ ctr' = [ctr EXCEPT ![a][m] = "absent"]
                                  /\ op' = [op EXCEPT ![o].todo = @ \ {m}]
      BY <1>t, <2>1 DEF Leftovers
    <3>2. m \in Nums /\ op'[o] = [op[o] EXCEPT !.todo = @ \ {m}]
      BY <1>0, <1>t, <3>1 DEF Operation
    <3>3. /\ op'[o].pc = each /\ op[o].pc = each
          /\ op'[o].app = a /\ op'[o].num = n /\ op'[o].plan = op[o].plan
          /\ op'[o].todo = op[o].todo \ {m}
      BY <1>0, <1>4, <3>2 DEF Operation, RemoveListed
    <3>4. Running(a)' = Running(a) \ {m} /\ Others(a, n)' = Others(a, n) \ {m}
      BY <1>0, <1>t, <3>1, <3>2 DEF Running, Others, Schemes
    <3>5. Overlaps(o) <=> Overlaps(o)'
      BY <3>3 DEF Overlaps
    <3>6. WriterKnows(o)'
      BY <1>0, <1>w, <1>4, <3>3, <3>4, <3>5 DEF WriterKnows, Single, Overlaps
    <3>7. Single(Running(a))' \/ (Overlaps(o)' /\ op'[o].app = a)
      BY <1>s, <3>3, <3>4, <3>5 DEF Single
    <3> QED
      BY <1>0, <3>6, <3>7, KeepsWriters
  <2>2. CASE op[o].todo = {} /\ Goto(o, then) /\ UNCHANGED ctr
    <3>1. /\ op'[o].pc = then /\ op[o].pc = each
          /\ op'[o].app = a /\ op'[o].num = n /\ op'[o].plan = op[o].plan
      BY <1>0, <1>t, <1>4, <2>2 DEF Operation, RemoveListed
    <3>2. then \in {"create", "finish"} => Running(a) \subseteq {n}
      BY <1>0, <1>w, <1>4, <2>2, <3>1 DEF WriterKnows, Running, Others, Schemes
    <3>3. Running(a)' = Running(a)
      BY <2>2 DEF Running
    <3>4. WriterKnows(o)'
      BY <1>4, <3>1, <3>2, <3>3 DEF WriterKnows, Overlaps
    <3>5. Single(Running(a))'
      BY <1>s, <1>4, <3>1, <3>2, <3>3 DEF Single, Overlaps
    <3> QED
      BY <1>0, <3>4, <3>5, KeepsWriters
  <2> QED
    BY <1>0, <1>4, <2>1, <2>2 DEF RemoveListed
<1>5. CASE Create(o)
  <2>1. Running(a)' = Running(a) /\ op'[o].app = a /\ op'[o].num = n /\ op'[o].plan = op[o].plan
        /\ op'[o].pc \in {"start", "fail_finish"} /\ op[o].pc = "create"
    BY <1>0, <1>t, <1>5 DEF Create, Running, Schemes, Operation
  <2>2. Single(Running(a))
    BY <1>s, <2>1 DEF Overlaps
  <2>3. WriterKnows(o)'
    BY <1>0, <1>w, <2>1, <2>2 DEF WriterKnows, Single, Overlaps
  <2> QED
    BY <1>0, <2>1, <2>2, <2>3, KeepsWriters DEF Single
<1>6. CASE Start(o) \/ FailRemove(o)
  <2>1. /\ Running(a)' \ {n} = Running(a) \ {n}
        /\ op'[o].app = a /\ op'[o].num = n /\ op'[o].plan = op[o].plan
        /\ op[o].pc \in {"start", "fail_remove"}
        /\ op'[o].pc \in {"probe", "fail_remove", "fail_finish"}
    BY <1>0, <1>t, <1>6 DEF Start, FailRemove, Running, Operation
  <2>2. op'[o].pc = "fail_finish" => n \notin Running(a)'
    BY <1>0, <1>t, <1>6, <2>1 DEF Start, FailRemove, Running, Schemes, Operation
  <2>3. Single(Running(a) \ {n}) /\ (op[o].plan = "replace" => Running(a) \subseteq {n})
    BY <1>0, <1>w, <2>1 DEF WriterKnows, Overlaps
  <2>4. WriterKnows(o)'
    BY <2>1, <2>3 DEF WriterKnows, Single, Overlaps
  <2>5. Single(Running(a))' \/ (Overlaps(o)' /\ op'[o].app = a)
    BY <2>1, <2>2, <2>3 DEF Single, Overlaps
  <2> QED
    BY <1>0, <2>4, <2>5, KeepsWriters
<1> QED
  BY <1>2, <1>3, <1>4, <1>5, <1>6 DEF Step, Deploying, ClearFirst, Clear, Fail, Delete

\* As long as the operations on an app come one after the other, whatever
\* those on other apps do: two containers of it run at once only in a
\* rollout that overlaps them.
THEOREM OneWriterAtATime == Spec /\ []OneAtATime => []OneWriter
<1>1. Init => WriterInv
  <2> SUFFICES ASSUME Init PROVE WriterInv
    OBVIOUS
  <2>1. \A a \in Apps : Single(Running(a))
    BY DEF Init, Running, Single, Schemes
  <2> QED
    BY <2>1 DEF Init, WriterInv, WriterKnows, Overlaps, Resting
<1>2. TypeOK /\ OneAtATime /\ WriterInv /\ [Next]_vars => WriterInv'
  <2> SUFFICES ASSUME TypeOK, OneAtATime, WriterInv, [Next]_vars PROVE WriterInv'
    OBVIOUS
  <2>1. ASSUME NEW o \in Ops, Step(o), faults' = faults PROVE WriterInv'
    BY <2>1, StepKeepsWriters
  <2>2. ASSUME NEW o \in Ops, NEW b \in Apps, Begins(o, b), faults' = faults PROVE WriterInv'
    <3>1. \A p \in Ops \ {o} : op'[p] = op[p]
      BY <2>2, BeginsIsLocal
    <3>2. op[o].pc = "idle" /\ op'[o].pc \in {"row", "del_list", "route_lock"}
          /\ ctr' = ctr /\ phase' = phase
      BY <2>2, BeginsIsLocal
    <3>3. \A b1 \in Apps : Running(b1)' = Running(b1)
      BY <3>2 DEF Running
    <3>4. ~Overlaps(o) /\ ~Overlaps(o)'
      BY <3>2 DEF Overlaps
    <3>5. ASSUME NEW p \in Ops, faults \cap {"remove", "list", "crash"} = {} PROVE WriterKnows(p)'
      <4>1. CASE p = o
        BY <3>2, <3>4, <4>1 DEF WriterKnows
      <4>2. CASE p # o
        <5>1. WriterKnows(p)
          BY <3>5 DEF WriterInv, WriterKnows
        <5> QED
          BY <3>1, <3>2, <4>2, <5>1 DEF WriterKnows, Overlaps, Running, Others, Single
      <4> QED
        BY <4>1, <4>2
    <3>6. ASSUME NEW b1 \in Apps, faults \cap {"remove", "list", "crash"} = {}
          PROVE  Single(Running(b1))' \/ \E p \in Ops : Overlaps(p)' /\ op'[p].app = b1
      <4>1. CASE Single(Running(b1))
        BY <3>3, <4>1 DEF Single
      <4>2. CASE \E p \in Ops : Overlaps(p) /\ op[p].app = b1
        <5>1. PICK p \in Ops : Overlaps(p) /\ op[p].app = b1
          BY <4>2
        <5> QED
          BY <3>1, <3>4, <5>1 DEF Overlaps
      <4> QED
        BY <3>6, <4>1, <4>2 DEF WriterInv
    <3> QED
      BY <2>2, <3>2, <3>5, <3>6 DEF WriterInv, WriterKnows
  <2>3. CASE UNCHANGED <<ctr, phase, op, faults>>
    BY <2>3 DEF WriterInv, WriterKnows, Single, Running, Others, Overlaps
  <2>4. ASSUME NEW b \in Apps, PatchStrategy(b), faults' = faults PROVE WriterInv'
    BY <2>3, <2>4 DEF PatchStrategy
  <2>5. CASE Crash /\ faults' = faults
    BY <2>5 DEF Crash, WriterInv
  <2>6. CASE Boot /\ faults' = faults
    BY <2>6 DEF Boot, CleanupOrphans, SweepStuck, BootRoutes, WriterInv
  <2>7. CASE UNCHANGED vars
    BY <2>3, <2>7 DEF vars
  <2> QED
    BY <2>1, <2>2, <2>4, <2>5, <2>6, <2>7 DEF Next
<1>3. TypeOK /\ WriterInv => OneWriter
  <2> SUFFICES ASSUME TypeOK, WriterInv, faults \cap {"remove", "list", "crash"} = {},
                      NEW a \in Apps, Cardinality(Running(a)) > 1
               PROVE  Overlapping(a)
    BY DEF OneWriter
  <2>1. ~Single(Running(a))
    <3> SUFFICES ASSUME Single(Running(a)) PROVE Cardinality(Running(a)) \in {0, 1}
      OBVIOUS
    <3>1. CASE Running(a) = {}
      BY <3>1, FS_EmptySet
    <3>2. ASSUME NEW m \in Running(a) PROVE Cardinality(Running(a)) = 1
      <4>1. Running(a) = {m}
        BY <3>2 DEF Single
      <4> QED
        BY <4>1, FS_Singleton
    <3> QED
      BY <3>1, <3>2
  <2>2. PICK o \in Ops : Overlaps(o) /\ op[o].app = a
    BY <2>1 DEF WriterInv
  <2>3. op[o].plan # "replace"
    BY <2>1, <2>2 DEF WriterInv, WriterKnows, Single
  <2> QED
    BY <2>2, <2>3 DEF Overlapping, Busy, Overlaps, TypeOK, Operation
<1> QED
  BY <1>1, <1>2, <1>3, Typing, PTL DEF Spec

----------------------------------------------------------------------------
(* The latest healthy container, and no other, runs                        *)

\* The operation is a rollout or a rollback.
Rolls(o) == OwnsRow(o) \/ op[o].pc \in {"row", "fail_list", "fail_status"}
Rolled(a) == \E o \in Ops : Rolls(o) /\ op[o].app = a

\* No container of the app is left that does not run, and the one of the
\* latest healthy deployment runs, unless the app is in error.
Settled(a) ==
    /\ \A m \in Nums : ctr[a][m] # "absent" => m \in Running(a)
    /\ Running(a) = LatestHealthy(a) \/ (Running(a) = {} /\ status[a] = "error")

\* What a rollout knows of its own container and of the others.
OwnKnown(o) == LET c == ctr[op[o].app][op[o].num] IN
    /\ op[o].pc \in {"mark", "prepare", "clear_first", "clearing_first", "create",
                     "fail_finish", "fail_list", "fail_status"} => c = "absent"
    /\ op[o].pc = "start" => c = "created"
    /\ op[o].pc \in {"probe", "scheme", "running", "lock", "apply", "clear", "clearing",
                     "finish"} => c \in Schemes
OthersKnown(o) == LET others == Others(op[o].app, op[o].num) IN
    /\ others \subseteq LatestHealthy(op[o].app) \cap Running(op[o].app)
    /\ op[o].pc \in {"clearing_first", "clearing"} =>
          others \subseteq op[o].todo /\ op[o].num \notin op[o].todo
    /\ op[o].pc = "finish" => others = {}
    /\ op[o].pc = "fail_status" => (op[o].verdict = "error" <=> others = {})
Underway(o) ==
    /\ op[o].num \in Nums
    /\ \A m \in Nums : dep[op[o].app][m] # "none" => m <= op[o].num
    /\ OwnKnown(o)
    /\ OthersKnown(o)

Deletes(o) == op[o].pc \in {"del_list", "del_removing", "del_lock", "del_apply", "del_row"}

LatestInv == Reported =>
    /\ phase = "up"
    /\ \A o \in Ops : ~Deletes(o)
    /\ \A a \in Apps : Exists(a)
    /\ \A a \in Apps, m \in Nums : ctr[a][m] # "absent" => dep[a][m] # "none"
    /\ \A a \in Apps : ~Rolled(a) => Settled(a)
    /\ \A o \in Ops : op[o].pc = "row" => Settled(op[o].app)
    /\ \A o \in Ops : Rolls(o) /\ op[o].pc # "row" => Underway(o)

\* A step of an operation changes the status and the rows of its own app only.
LEMMA OwnRecords ==
    ASSUME TypeOK, NEW o \in Ops, Step(o), NEW b \in Apps, b # op[o].app
    PROVE  status'[b] = status[b] /\ dep'[b] = dep[b]
<1>1. /\ op[o].app \in Apps
      /\ status \in [Apps -> Statuses] /\ dep \in [Apps -> [Nums -> DepStatuses]]
  BY DEF TypeOK, Operation
<1>2. CASE status' = status /\ dep' = dep
  BY <1>2
<1>3. CASE CreateRow(o) \/ MarkDeploying(o) \/ MarkRunning(o) \/ Finish(o) \/ FailFinish(o)
           \/ FailStatus(o) \/ DeleteRow(o)
  BY <1>1, <1>3 DEF CreateRow, MarkDeploying, MarkRunning, Finish, FailFinish, FailStatus,
     DeleteRow, WithStatus, WithDep
<1> QED
  BY <1>2, <1>3
  DEF Step, Deploying, Prepare, ClearFirst, ListOld, RemoveListed, Create, Start, Probe, SetScheme,
      CutOver, LockRoutes, ApplyRoutes, ApplyFails, Clear, Fail, FailRemove, FailList,
      RefreshRoutes, Delete, DeleteList, storeVars

LEMMA StepsAreBusy ==
    ASSUME NEW o \in Ops, Step(o)
    PROVE  Busy(o)
BY DEF Busy, Step, Deploying, CreateRow, MarkDeploying, Prepare, ClearFirst, ListOld, RemoveListed,
   Create, Start, Probe, SetScheme, MarkRunning, CutOver, LockRoutes, ApplyRoutes, ApplyFails,
   Clear, Finish, Fail, FailRemove, FailFinish, FailList, FailStatus, RefreshRoutes, Delete,
   DeleteList, DeleteRow, At

\* At most one deployment is the latest healthy one.
LEMMA OneLatest == \A a \in Apps : Single(LatestHealthy(a))
BY RolloutAssumption DEF Single, LatestHealthy, Nums

\* It is enough to look at the operation that takes the step, and its app.
LEMMA KeepsLatest ==
    ASSUME TypeOK, OneAtATime, LatestInv, NEW o \in Ops, Step(o), faults' = faults, Reported,
           NEW a \in Apps, a = op[o].app,
           Exists(a)',
           \A m \in Nums : ctr'[a][m] # "absent" => dep'[a][m] # "none",
           Settled(a)' \/ (Rolls(o)' /\ op'[o].app = a),
           op'[o].pc # "row", ~Deletes(o)',
           Rolls(o)' => Underway(o)'
    PROVE  LatestInv'
<1>0. /\ \A p \in Ops \ {o} : op'[p] = op[p]
      /\ phase' = "up" /\ Busy(o)
      /\ \A p \in Ops : op[p].app \in Apps
  BY StepIsLocal, StepsAreBusy DEF TypeOK, Operation
<1>1. ASSUME NEW b \in Apps, b # a
      PROVE  /\ status'[b] = status[b] /\ dep'[b] = dep[b] /\ ctr'[b] = ctr[b]
             /\ Running(b)' = Running(b) /\ LatestHealthy(b)' = LatestHealthy(b)
             /\ Settled(b) <=> Settled(b)'
             /\ \A n : Others(b, n)' = Others(b, n)
  <2>1. status'[b] = status[b] /\ dep'[b] = dep[b] /\ ctr'[b] = ctr[b]
    BY <1>1, OwnContainers, OwnRecords
  <2>2. Running(b)' = Running(b) /\ LatestHealthy(b)' = LatestHealthy(b)
    BY <2>1 DEF Running, LatestHealthy
  <2> QED
    BY <2>1, <2>2 DEF Settled, Others
<1>2. ASSUME NEW p \in Ops, p # o, op[p].pc # "idle"
      PROVE  op'[p] = op[p] /\ op[p].app # a
  BY <1>0, <1>2 DEF OneAtATime, Busy
<1>3. ASSUME NEW p \in Ops
      PROVE  /\ ~Deletes(p)'
             /\ op'[p].pc = "row" => Settled(op[p].app)'
             /\ Rolls(p)' /\ op'[p].pc # "row" => Underway(p)'
  <2>1. CASE p = o
    BY <2>1
  <2>2. CASE p # o /\ op[p].pc = "idle"
    BY <1>0, <2>2 DEF Deletes, Rolls, OwnsRow
  <2>3. CASE p # o /\ op[p].pc # "idle"
    <3>1. PICK b \in Apps \ {a} : b = op[p].app
      BY <1>0, <1>2, <2>3
    <3>2. op'[p] = op[p] /\ (Rolls(p)' <=> Rolls(p))
      BY <1>2, <2>3 DEF Rolls, OwnsRow
    <3>3. /\ ~Deletes(p) /\ op[p].pc = "row" => Settled(b)
          /\ Rolls(p) /\ op[p].pc # "row" => Underway(p)
      BY <3>1 DEF LatestInv
    <3>4. Underway(p) => Underway(p)'
      BY <1>1, <3>1, <3>2 DEF Underway, OwnKnown, OthersKnown
    <3> QED
      BY <1>1, <3>1, <3>2, <3>3, <3>4 DEF Deletes, LatestInv
  <2> QED
    BY <2>1, <2>2, <2>3
<1>4. ASSUME NEW b \in Apps, ~Rolled(b)' PROVE Settled(b)'
  <2>1. CASE b = a
    BY <1>4, <2>1 DEF Rolled
  <2>2. CASE b # a
    <3>1. ASSUME NEW p \in Ops, Rolls(p), op[p].app = b
          PROVE  Rolls(p)' /\ op'[p].app = b
      BY <1>0, <2>2, <3>1 DEF Rolls, OwnsRow
    <3>2. ~Rolled(b)
      BY <1>4, <3>1 DEF Rolled
    <3> QED
      BY <1>1, <2>2, <3>2 DEF LatestInv
  <2> QED
    BY <2>1, <2>2
<1>5. \A b \in Apps : Exists(b)' /\ \A m \in Nums : ctr'[b][m] # "absent" => dep'[b][m] # "none"
  BY <1>1 DEF LatestInv, Exists
<1> QED
  BY <1>0, <1>3, <1>4, <1>5 DEF LatestInv

\* What LatestInv says of the operation that takes a step, with its app a and
\* its number n.
LEMMA LatestOf ==
    ASSUME TypeOK, OneAtATime, LatestInv, Reported, NEW o \in Ops, Busy(o),
           NEW a \in Apps, a = op[o].app, NEW n, n = op[o].num
    PROVE  /\ ~Rolls(o) \/ op[o].pc = "row" => Settled(a)
           /\ Exists(a) /\ \A m \in Nums : ctr[a][m] # "absent" => dep[a][m] # "none"
           /\ ~Deletes(o)
           /\ Rolls(o) /\ op[o].pc # "row" => Underway(o)
<1>1. ~Rolls(o) => ~Rolled(a)
  BY DEF Rolled, Rolls, OwnsRow, OneAtATime, Busy
<1> QED
  BY <1>1 DEF LatestInv

\* A rollout goes on with the same row and changes no container and no row.
LEMMA RollsOn ==
    ASSUME TypeOK, OneAtATime, LatestInv, Reported, NEW o \in Ops, Step(o), faults' = faults,
           NEW a \in Apps, a = op[o].app, Exists(a)', ctr' = ctr, dep' = dep,
           Rolls(o), Rolls(o)', op[o].pc # "row", op'[o].pc # "row",
           op'[o].app = a, op'[o].num = op[o].num,
           OwnKnown(o)', OthersKnown(o)'
    PROVE  LatestInv'
<1>1. Underway(o) /\ \A m \in Nums : ctr[a][m] # "absent" => dep[a][m] # "none"
  BY StepsAreBusy, LatestOf
<1>2. Underway(o)'
  BY <1>1 DEF Underway
<1>3. ~Deletes(o)'
  BY DEF Deletes, Rolls, OwnsRow
<1> QED
  BY <1>1, <1>2, <1>3, KeepsLatest

LEMMA RollingKeepsLatest ==
    ASSUME TypeOK, OneAtATime, LatestInv, Reported, NEW o \in Ops, faults' = faults, Step(o),
           \/ MarkDeploying(o) \/ Prepare(o) \/ Probe(o) \/ SetScheme(o) \/ MarkRunning(o)
           \/ CutOver(o) \/ ListOld(o, "clear_first", "clearing_first")
           \/ ListOld(o, "clear", "clearing") \/ FailList(o)
    PROVE  LatestInv'
<1>a. PICK a \in Apps : a = op[o].app
  BY DEF TypeOK, Operation
<1>n. PICK n : n = op[o].num
  OBVIOUS
<1>0. op[o] \in Operation /\ op \in [Ops -> Operation]
  BY DEF TypeOK
<1> USE DEF At, Failing, Goto
<1>1. Rolls(o) /\ Rolls(o)' /\ op[o].pc # "row" /\ op'[o].pc # "row"
      /\ op'[o].app = a /\ op'[o].num = n
  BY <1>0, <1>a, <1>n DEF MarkDeploying, Prepare, Probe, SetScheme, MarkRunning, CutOver, LockRoutes,
     ApplyRoutes, ApplyFails, ListOld, FailList, Rolls, OwnsRow, Operation
<1>2. ctr' = ctr /\ dep' = dep /\ "list" \notin faults
  BY DEF MarkDeploying, Prepare, Probe, SetScheme, MarkRunning, CutOver, LockRoutes,
     ApplyRoutes, ApplyFails, ListOld, FailList, Reported, storeVars
<1>3. Underway(o) /\ Exists(a)
  BY <1>1, <1>a, <1>n, StepsAreBusy, LatestOf
<1>4. Exists(a)'
  BY <1>0, <1>3 DEF MarkDeploying, Prepare, Probe, SetScheme, MarkRunning, CutOver, LockRoutes,
     ApplyRoutes, ApplyFails, ListOld, FailList, storeVars, WithStatus, Exists, TypeOK
<1>5. /\ Running(a)' = Running(a) /\ LatestHealthy(a)' = LatestHealthy(a)
      /\ Others(a, n)' = Others(a, n)
  BY <1>2 DEF Running, LatestHealthy, Others
<1>6. OwnKnown(o)'
  BY <1>0, <1>1, <1>2, <1>3, <1>a, <1>n
  DEF MarkDeploying, Prepare, Probe, SetScheme, MarkRunning, CutOver, LockRoutes,
      ApplyRoutes, ApplyFails, ListOld, FailList, Underway, OwnKnown, Operation
<1>7. OthersKnown(o)'
  <2>1. Others(a, n) \subseteq LatestHealthy(a) \cap Running(a)
    BY <1>3, <1>a, <1>n DEF Underway, OthersKnown
  <2>2. op'[o].pc # "finish"
    BY <1>0 DEF MarkDeploying, Prepare, Probe, SetScheme, MarkRunning, CutOver, LockRoutes,
       ApplyRoutes, ApplyFails, ListOld, FailList, Operation
  <2>3. op'[o].pc \in {"clearing_first", "clearing"} => op'[o].todo = Others(a, n)
    BY <1>0, <1>2, <1>a, <1>n
    DEF MarkDeploying, Prepare, Probe, SetScheme, MarkRunning, CutOver, LockRoutes,
        ApplyRoutes, ApplyFails, ListOld, FailList, Operation
  <2>4. op'[o].pc = "fail_status" => (op'[o].verdict = "error" <=> Others(a, n) = {})
    BY <1>0, <1>2, <1>a, <1>n
    DEF MarkDeploying, Prepare, Probe, SetScheme, MarkRunning, CutOver, LockRoutes,
        ApplyRoutes, ApplyFails, ListOld, FailList, Operation
  <2>5. n \notin Others(a, n)
    BY DEF Others
  <2> QED
    BY <1>1, <1>5, <2>1, <2>2, <2>3, <2>4, <2>5 DEF OthersKnown
<1> QED
  BY <1>1, <1>2, <1>4, <1>6, <1>7, <1>a, <1>n, RollsOn

LEMMA ContainersKeepLatest ==
    ASSUME TypeOK, OwnershipInv, OneAtATime, LatestInv, Reported, NEW o \in Ops, faults' = faults, Step(o),
           \/ Create(o) \/ Start(o) \/ FailRemove(o)
           \/ RemoveListed(o, "clearing_first", "create") \/ RemoveListed(o, "clearing", "finish")
    PROVE  LatestInv'
<1>a. PICK a \in Apps : a = op[o].app
  BY DEF TypeOK, Operation
<1>n. PICK n : n = op[o].num
  OBVIOUS
<1>0. /\ op[o] \in Operation /\ op \in [Ops -> Operation] /\ ctr \in [Apps -> [Nums -> CtrStates]]
      /\ "remove" \notin faults
  BY DEF TypeOK, Reported
<1> USE DEF At, Failing, Goto
<1>1. Rolls(o) /\ op[o].pc # "row"
  BY DEF Create, Start, FailRemove, RemoveListed, Rolls, OwnsRow
<1>2. status' = status /\ dep' = dep
  BY DEF Create, Start, FailRemove, RemoveListed, storeVars
<1>3. /\ Underway(o) /\ Exists(a) /\ n \in Nums
      /\ \A m \in Nums : ctr[a][m] # "absent" => dep[a][m] # "none"
  BY <1>1, <1>a, <1>n, StepsAreBusy, LatestOf DEF Underway
<1>4. Others(a, n) \subseteq LatestHealthy(a) \cap Running(a)
  BY <1>3, <1>a, <1>n DEF Underway, OthersKnown
<1>5. LatestHealthy(a)' = LatestHealthy(a) /\ Exists(a)'
  BY <1>2, <1>3 DEF LatestHealthy, Exists
<1>6. dep[a][n] # "none" /\ n \notin Others(a, n)
  BY <1>3, <1>a, <1>n
  DEF Create, Start, FailRemove, RemoveListed, OwnershipInv, RowsOwned, OwnsRow, Others
\* The rows are the same, and so is the operation's.
<1>7. ASSUME Rolls(o)', op'[o].pc # "row", op'[o].app = a, op'[o].num = n,
             \A m \in Nums : ctr'[a][m] # "absent" => ctr[a][m] # "absent" \/ m = n,
             OwnKnown(o)', OthersKnown(o)'
      PROVE  LatestInv'
  <2>1. \A m \in Nums : ctr'[a][m] # "absent" => dep'[a][m] # "none"
    BY <1>2, <1>3, <1>6, <1>7
  <2>2. Underway(o)' /\ ~Deletes(o)'
    BY <1>2, <1>3, <1>7, <1>a, <1>n DEF Underway, Deletes, Rolls, OwnsRow
  <2> QED
    BY <1>5, <1>7, <1>a, <2>1, <2>2, KeepsLatest
<1>8. CASE Create(o) \/ Start(o) \/ FailRemove(o)
  <2>1. /\ Rolls(o)' /\ op'[o].app = a /\ op'[o].num = n
        /\ op'[o].pc \in {"start", "probe", "fail_remove", "fail_finish"}
        /\ \A m \in Nums \ {n} : ctr'[a][m] = ctr[a][m]
    BY <1>0, <1>8, <1>a, <1>n DEF Create, Start, FailRemove, Rolls, OwnsRow, Operation
  <2>2. OwnKnown(o)'
    BY <1>0, <1>3, <1>8, <1>a, <1>n, <2>1
    DEF Create, Start, FailRemove, Underway, OwnKnown, Operation, Schemes
  <2>3. Others(a, n)' = Others(a, n) /\ Running(a)' \ {n} = Running(a) \ {n}
    BY <2>1 DEF Others, Running
  <2>4. OthersKnown(o)'
    BY <1>4, <1>5, <1>6, <2>1, <2>3 DEF OthersKnown
  <2> QED
    BY <1>7, <2>1, <2>2, <2>4
<1>9. ASSUME NEW each, NEW then, RemoveListed(o, each, then),
             <<each, then>> \in {<<"clearing_first", "create">>, <<"clearing", "finish">>}
      PROVE  LatestInv'
  <2>1. op[o].pc = each /\ Others(a, n) \subseteq op[o].todo /\ n \notin op[o].todo
    BY <1>3, <1>9, <1>a, <1>n DEF RemoveListed, Underway, OthersKnown
  <2>2. CASE \E m \in op[o].todo : /\ \E s \in Leftovers(ctr[a][m]) : ctr' = [ctr EXCEPT ![a][m] = s]
                                   /\ op' = [op EXCEPT ![o].todo = @ \ {m}]
    <3>1. PICK m \in op[o].todo : /\ ctr' = [ctr EXCEPT ![a][m] = "absent"]
                                  /\ op' = [op EXCEPT ![o].todo = @ \ {m}]
      BY <1>0, <2>2 DEF Leftovers
    <3>2. m \in Nums /\ m # n
      BY <1>0, <2>1, <3>1 DEF Operation
    <3>3. /\ op'[o].pc = each /\ op'[o].app = a /\ op'[o].num = n
          /\ op'[o].todo = op[o].todo \ {m}
      BY <1>0, <1>a, <1>n, <2>1, <3>1 DEF Operation
    <3>4. /\ \A k \in Nums \ {m} : ctr'[a][k] = ctr[a][k]
          /\ Running(a)' = Running(a) \ {m} /\ Others(a, n)' = Others(a, n) \ {m}
      BY <1>0, <3>1, <3>2 DEF Running, Others, Schemes
    <3>5. OwnKnown(o)'
      BY <1>3, <1>9, <1>a, <1>n, <2>1, <3>2, <3>3, <3>4 DEF Underway, OwnKnown
    <3>6. OthersKnown(o)'
      BY <1>4, <1>5, <1>9, <2>1, <3>3, <3>4 DEF OthersKnown
    <3>7. \A k \in Nums : ctr'[a][k] # "absent" => ctr[a][k] # "absent"
      BY <1>0, <3>1, <3>2
    <3> QED
      BY <1>1, <1>7, <1>9, <2>1, <3>3, <3>5, <3>6, <3>7 DEF Rolls, OwnsRow
  <2>3. CASE op[o].todo = {} /\ Goto(o, then) /\ UNCHANGED ctr
    <3>1. op'[o].pc = then /\ op'[o].app = a /\ op'[o].num = n
      BY <1>0, <1>a, <1>n, <2>3 DEF Operation
    <3>2. Running(a)' = Running(a) /\ Others(a, n)' = {}
      BY <2>1, <2>3 DEF Running, Others
    <3>3. OwnKnown(o)'
      BY <1>3, <1>9, <1>a, <1>n, <2>1, <2>3, <3>1 DEF Underway, OwnKnown
    <3>4. OthersKnown(o)'
      BY <1>9, <3>1, <3>2 DEF OthersKnown
    <3> QED
      BY <1>7, <1>9, <2>3, <3>1, <3>3, <3>4 DEF Rolls, OwnsRow
  <2> QED
    BY <1>9, <1>a, <2>2, <2>3 DEF RemoveListed
<1> QED
  BY <1>8, <1>9

LEMMA StepKeepsLatest ==
    ASSUME TypeOK, OwnershipInv, OneAtATime, LatestInv, NEW o \in Ops, Step(o), faults' = faults
    PROVE  LatestInv'
<1> SUFFICES ASSUME Reported PROVE LatestInv'
  BY DEF LatestInv, Reported
<1>a. PICK a \in Apps : a = op[o].app
  BY DEF TypeOK, Operation
<1>n. PICK n : n = op[o].num
  OBVIOUS
<1>0. /\ op[o] \in Operation /\ op \in [Ops -> Operation]
      /\ ctr \in [Apps -> [Nums -> CtrStates]]
      /\ dep \in [Apps -> [Nums -> DepStatuses]] /\ status \in [Apps -> Statuses]
      /\ "remove" \notin faults /\ "logged" \notin faults
  BY DEF TypeOK, Reported
<1>k. /\ ~Rolls(o) \/ op[o].pc = "row" => Settled(a)
      /\ Exists(a) /\ \A m \in Nums : ctr[a][m] # "absent" => dep[a][m] # "none"
      /\ ~Deletes(o)
      /\ Rolls(o) /\ op[o].pc # "row" => Underway(o)
  BY <1>a, StepsAreBusy, LatestOf
<1>l. Single(LatestHealthy(a))
  BY OneLatest
<1> USE DEF At, Failing, Goto
\* Steps that leave the app as it is, of an operation that has begun nothing.
<1>1. CASE RefreshRoutes(o) \/ (CreateRow(o) /\ Return(o) /\ UNCHANGED dep)
  <2>1. /\ ctr' = ctr /\ dep' = dep /\ status' = status
        /\ ~Rolls(o) \/ op[o].pc = "row"
        /\ op'[o].pc \in {"route_apply", "idle"}
    BY <1>0, <1>1 DEF RefreshRoutes, LockRoutes, ApplyRoutes, ApplyFails, CreateRow, Return, Resting,
       Rolls, OwnsRow, storeVars, Operation
  <2>2. Running(a)' = Running(a) /\ LatestHealthy(a)' = LatestHealthy(a)
    BY <2>1 DEF Running, LatestHealthy
  <2>3. Settled(a)' /\ Exists(a)' /\ ~Rolls(o)' /\ ~Deletes(o)'
    BY <1>k, <2>1, <2>2 DEF Settled, Exists, Rolls, OwnsRow, Deletes
  <2> QED
    BY <1>a, <1>k, <2>1, <2>3, KeepsLatest
<1>2. CASE CreateRow(o) /\ ~(Return(o) /\ UNCHANGED dep)
  <2>1. PICK m \in Nums : /\ IsNextNumber(a, m)
                          /\ dep' = [dep EXCEPT ![a][m] = "deploying"]
                          /\ op' = [op EXCEPT ![o].pc = "mark", ![o].num = m]
    BY <1>2, <1>a DEF CreateRow
  <2>2. status' = status /\ ctr' = ctr /\ op[o].pc = "row"
    BY <1>2 DEF CreateRow
  <2>3. dep[a][m] = "none" /\ \A k \in Nums : dep[a][k] # "none" => k < m
    BY <2>1, NextNumberIsFree DEF IsNextNumber
  <2>4. dep'[a][m] = "deploying" /\ \A k \in Nums \ {m} : dep'[a][k] = dep[a][k]
    BY <1>0, <2>1
  <2>5. op'[o].pc = "mark" /\ op'[o].app = a /\ op'[o].num = m
    BY <1>0, <1>a, <2>1 DEF Operation
  <2>6. LatestHealthy(a)' = LatestHealthy(a) /\ Running(a)' = Running(a)
    BY <2>2, <2>3, <2>4 DEF LatestHealthy, Running
  <2>7. ctr[a][m] = "absent"
    BY <1>k, <2>3
  <2>8. Others(a, m)' \subseteq LatestHealthy(a)' \cap Running(a)'
    BY <1>k, <2>2, <2>6 DEF Settled, Others
  <2>9. \A k \in Nums : dep'[a][k] # "none" => k <= m
    BY <2>3, <2>4 DEF Nums
  <2>10. Underway(o)'
    BY <2>2, <2>5, <2>7, <2>8, <2>9 DEF Underway, OwnKnown, OthersKnown
  <2>11. \A k \in Nums : ctr'[a][k] # "absent" => dep'[a][k] # "none"
    BY <1>k, <2>2, <2>4
  <2> QED
    BY <1>a, <1>k, <2>2, <2>5, <2>10, <2>11, KeepsLatest DEF Exists, Rolls, OwnsRow, Deletes
<1>3. CASE \/ MarkDeploying(o) \/ Prepare(o) \/ Probe(o) \/ SetScheme(o) \/ MarkRunning(o)
           \/ CutOver(o) \/ ListOld(o, "clear_first", "clearing_first")
           \/ ListOld(o, "clear", "clearing") \/ FailList(o)
  BY <1>3, RollingKeepsLatest
<1>4. CASE \/ Create(o) \/ Start(o) \/ FailRemove(o)
           \/ RemoveListed(o, "clearing_first", "create") \/ RemoveListed(o, "clearing", "finish")
  BY <1>4, ContainersKeepLatest
\* The row of the operation is finished.
<1>5. CASE Finish(o) \/ FailFinish(o)
  <2>1. /\ OwnsRow(o) /\ Rolls(o) /\ op[o].pc # "row"
        /\ status' = status /\ ctr' = ctr
    BY <1>5 DEF Finish, FailFinish, Rolls, OwnsRow
  <2>2. Underway(o) /\ n \in Nums /\ dep[a][n] = "deploying"
    BY <1>k, <1>a, <1>n, <2>1 DEF Underway, OwnershipInv, RowsOwned
  <2>3. Others(a, n) \subseteq LatestHealthy(a) \cap Running(a) /\ n \notin Others(a, n)
    BY <2>2, <1>a, <1>n DEF Underway, OthersKnown, Others
  <2>4. Running(a)' = Running(a) /\ Others(a, n)' = Others(a, n)
    BY <2>1 DEF Running, Others
  <2>5. CASE Finish(o)
    <3>1. dep'[a][n] = "healthy" /\ \A k \in Nums \ {n} : dep'[a][k] = dep[a][k]
      BY <1>0, <1>a, <1>n, <2>2, <2>5 DEF Finish, WithDep
    <3>2. \A m \in Nums : dep[a][m] # "none" => m <= n
      BY <1>a, <1>n, <2>2 DEF Underway
    <3>3. LatestHealthy(a)' = {n}
      BY <2>2, <3>1, <3>2 DEF LatestHealthy, Nums
    <3>4. ctr[a][n] \in Schemes /\ Others(a, n) = {}
      BY <1>a, <1>n, <2>2, <2>5 DEF Finish, Underway, OwnKnown, OthersKnown
    <3>5. Running(a) = {n} /\ \A m \in Nums : ctr[a][m] # "absent" => m = n
      BY <2>2, <3>4 DEF Running, Others, Schemes
    <3>6. Settled(a)'
      BY <2>1, <2>4, <3>3, <3>5 DEF Settled
    <3>7. op'[o].pc = "idle"
      BY <1>0, <2>5 DEF Finish, Return, Resting
    <3>8. \A k \in Nums : ctr'[a][k] # "absent" => dep'[a][k] # "none"
      BY <1>k, <2>1, <3>1
    <3> QED
      BY <1>a, <1>k, <2>1, <3>6, <3>7, <3>8, KeepsLatest DEF Exists, Rolls, OwnsRow, Deletes
  <2>6. CASE FailFinish(o)
    <3>1. dep'[a][n] = "failed" /\ \A k \in Nums \ {n} : dep'[a][k] = dep[a][k]
      BY <1>0, <1>a, <1>n, <2>2, <2>6 DEF FailFinish, WithDep
    <3>2. LatestHealthy(a)' = LatestHealthy(a)
      BY <2>2, <3>1 DEF LatestHealthy
    <3>3. op'[o].pc = "fail_list" /\ op'[o].app = a /\ op'[o].num = n /\ op[o].pc = "fail_finish"
      BY <1>0, <1>a, <1>n, <2>6 DEF FailFinish, Operation
    <3>4. \A m \in Nums : dep'[a][m] # "none" => m <= n
      BY <1>a, <1>n, <2>2, <3>1 DEF Underway
    <3>5. ctr'[a][n] = "absent"
      BY <1>a, <1>n, <2>1, <2>2, <3>3 DEF Underway, OwnKnown
    <3>6. Underway(o)'
      BY <2>2, <2>3, <2>4, <3>2, <3>3, <3>4, <3>5 DEF Underway, OwnKnown, OthersKnown
    <3>7. \A k \in Nums : ctr'[a][k] # "absent" => dep'[a][k] # "none"
      BY <1>k, <2>1, <3>1
    <3> QED
      BY <1>a, <1>k, <2>1, <3>3, <3>6, <3>7, KeepsLatest DEF Exists, Rolls, OwnsRow, Deletes
  <2> QED
    BY <1>5, <2>5, <2>6
<1>6. CASE FailStatus(o)
  <2>1. /\ Rolls(o) /\ op[o].pc = "fail_status" /\ ctr' = ctr /\ dep' = dep
        /\ status'[a] = op[o].verdict /\ op'[o].pc = "idle"
    BY <1>0, <1>6, <1>a, <1>k DEF FailStatus, WithStatus, Return, Resting, Rolls, OwnsRow
  <2>2. Underway(o)
    BY <1>k, <2>1
  <2>3. /\ ctr[a][n] = "absent" /\ Others(a, n) \subseteq LatestHealthy(a) \cap Running(a)
        /\ op[o].verdict = "error" <=> Others(a, n) = {}
    BY <1>a, <1>n, <2>1, <2>2 DEF Underway, OwnKnown, OthersKnown
  <2>4. Running(a) = Others(a, n) /\ \A m \in Nums : ctr[a][m] # "absent" => m \in Running(a)
    BY <2>3 DEF Running, Others, Schemes
  <2>5. Running(a) = LatestHealthy(a) \/ (Running(a) = {} /\ op[o].verdict = "error")
    BY <1>l, <2>3, <2>4 DEF Single
  <2>6. Settled(a)'
    BY <2>1, <2>4, <2>5 DEF Settled, Running, LatestHealthy
  <2>7. Exists(a)'
    BY <1>0, <2>1 DEF Exists, Operation
  <2> QED
    BY <1>a, <1>k, <2>1, <2>6, <2>7, KeepsLatest DEF Rolls, OwnsRow, Deletes
<1>7. CASE Delete(o)
  BY <1>7, <1>k DEF Delete, DeleteList, RemoveListed, LockRoutes, ApplyRoutes, ApplyFails,
     DeleteRow, Deletes
<1> QED
  BY <1>1, <1>2, <1>3, <1>4, <1>5, <1>6, <1>7
  DEF Step, Deploying, ClearFirst, Clear, Fail

LEMMA BeginsKeepsLatest ==
    ASSUME TypeOK, OneAtATime', LatestInv, "delete" \notin Kinds, faults' = faults,
           NEW o \in Ops, NEW b \in Apps, Begins(o, b)
    PROVE  LatestInv'
<1> SUFFICES ASSUME Reported PROVE LatestInv'
  BY DEF LatestInv, Reported
<1>0. /\ op[o].pc = "idle" /\ phase' = phase /\ status' = status /\ dep' = dep /\ ctr' = ctr
      /\ \A p \in Ops \ {o} : op'[p] = op[p]
  BY BeginsIsLocal DEF storeVars
<1>1. op'[o].pc \in {"row", "route_lock"} /\ op'[o].app = b
  BY DEF Begins, BeginDeploy, BeginRollback, BeginRoutes, BeginDelete, Begin, TypeOK, Operation
<1>2. \A c \in Apps : Settled(c)' <=> Settled(c)
  BY <1>0 DEF Settled, Running, LatestHealthy
<1>3. ASSUME NEW p \in Ops, p # o
      PROVE  /\ Rolls(p)' <=> Rolls(p)
             /\ ~Deletes(p)'
             /\ op'[p].pc = "row" => Settled(op[p].app)'
             /\ Rolls(p)' /\ op'[p].pc # "row" => Underway(p)'
  <2>1. op'[p] = op[p]
    BY <1>0, <1>3
  <2>2. Underway(p) => Underway(p)'
    BY <1>0, <2>1 DEF Underway, OwnKnown, OthersKnown, Others, Running, LatestHealthy
  <2>3. PICK c \in Apps : c = op[p].app
    BY DEF TypeOK, Operation
  <2> QED
    BY <1>2, <2>1, <2>2, <2>3 DEF Rolls, OwnsRow, Deletes, LatestInv
<1>4. ~Rolled(b)
  BY <1>0, <1>1 DEF Rolled, Rolls, OwnsRow, OneAtATime, Busy
<1>5. Settled(b)'
  BY <1>2, <1>4 DEF LatestInv
<1>6. ASSUME NEW c \in Apps, ~Rolled(c)' PROVE Settled(c)'
  <2>1. ~Rolled(c)
    BY <1>0, <1>3, <1>6 DEF Rolled, Rolls, OwnsRow
  <2> QED
    BY <1>2, <2>1 DEF LatestInv
<1>7. ASSUME NEW p \in Ops
      PROVE  /\ ~Deletes(p)'
             /\ op'[p].pc = "row" => Settled(op[p].app)'
             /\ Rolls(p)' /\ op'[p].pc # "row" => Underway(p)'
  BY <1>1, <1>3, <1>5 DEF Rolls, OwnsRow, Deletes
<1>8. /\ phase' = "up" /\ \A c \in Apps : Exists(c)'
      /\ \A c \in Apps, m \in Nums : ctr'[c][m] # "absent" => dep'[c][m] # "none"
  BY <1>0 DEF LatestInv, Exists
<1> QED
  BY <1>6, <1>7, <1>8 DEF LatestInv

\* Steps of no operation.
LEMMA OthersKeepLatest ==
    ASSUME LatestInv, faults' = faults,
           \/ \E a \in Apps : PatchStrategy(a)
           \/ Crash
           \/ Boot
           \/ UNCHANGED vars
    PROVE  LatestInv'
<1>1. CASE UNCHANGED <<status, dep, ctr, phase, op>>
  BY <1>1 DEF LatestInv, Reported, Deletes, Exists, Rolled, Rolls, OwnsRow, Settled, Underway,
     OwnKnown, OthersKnown, Others, Running, LatestHealthy
<1>2. CASE Crash \/ Boot
  BY <1>2 DEF Crash, Boot, CleanupOrphans, SweepStuck, BootRoutes, LatestInv, Reported
<1> QED
  BY <1>1, <1>2 DEF PatchStrategy, vars

LEMMA LatestInitially == Init => LatestInv
<1> SUFFICES ASSUME Init PROVE LatestInv
  OBVIOUS
<1>1. \A o \in Ops : ~Rolls(o) /\ ~Deletes(o) /\ op[o].pc # "row"
  BY DEF Init, Resting, Rolls, OwnsRow, Deletes
<1>2. ASSUME NEW a \in Apps
      PROVE  Settled(a) /\ Exists(a) /\ \A m \in Nums : ctr[a][m] # "absent" => dep[a][m] # "none"
  <2>1. PICK first \in {"none", "v2", "legacy"} :
          /\ ctr[a] = [n \in Nums |-> IF n = 1 /\ first # "none" THEN first ELSE "absent"]
          /\ dep[a] = [n \in Nums |-> IF n = 1 /\ first # "none" THEN "healthy" ELSE "none"]
    <3>1. PICK origin \in [Apps -> Origins] :
            /\ scheme = [b \in Apps |-> IF origin[b] = "settled" THEN "v2" ELSE "legacy"]
            /\ dep = [b \in Apps |-> [n \in Nums |->
                        IF n = 1 /\ origin[b] # "fresh" THEN "healthy" ELSE "none"]]
            /\ ctr = [b \in Apps |-> [n \in Nums |->
                        IF n = 1 /\ origin[b] # "fresh" THEN scheme[b] ELSE "absent"]]
      BY DEF Init
    <3> DEFINE first == IF origin[a] = "fresh" THEN "none" ELSE scheme[a]
    <3>2. first \in {"none", "v2", "legacy"}
      BY <3>1
    <3> QED
      BY <3>1, <3>2
  <2>2. Running(a) = LatestHealthy(a)
    BY <2>1, RolloutAssumption DEF Running, LatestHealthy, Schemes, Nums
  <2> QED
    BY <2>1, <2>2 DEF Init, Settled, Running, Schemes, Exists
<1> QED
  BY <1>1, <1>2 DEF Init, LatestInv

LEMMA LatestInductive ==
    ASSUME "delete" \notin Kinds
    PROVE  TypeOK /\ OwnershipInv /\ OneAtATime /\ OneAtATime' /\ LatestInv /\ [Next]_vars
             => LatestInv'
<1> SUFFICES ASSUME TypeOK, OwnershipInv, OneAtATime, OneAtATime', LatestInv, [Next]_vars
             PROVE  LatestInv'
  OBVIOUS
<1>1. ASSUME NEW o \in Ops, Step(o), faults' = faults PROVE LatestInv'
  BY <1>1, StepKeepsLatest
<1>2. ASSUME NEW o \in Ops, NEW b \in Apps, Begins(o, b), faults' = faults PROVE LatestInv'
  BY <1>2, BeginsKeepsLatest
<1>3. CASE /\ (\E a \in Apps : PatchStrategy(a)) \/ Crash \/ Boot
           /\ faults' = faults
  BY <1>3, OthersKeepLatest
<1>4. CASE UNCHANGED vars
  BY <1>4, OthersKeepLatest DEF vars
<1> QED
  BY <1>1, <1>2, <1>3, <1>4 DEF Next

\* As long as the operations on an app come one after the other, none is a
\* delete and every failure is reported: at rest the container of the
\* latest healthy deployment runs and no other, unless a failed replacement
\* left none and the app in error.
THEOREM LatestIsLeftUp == Spec /\ "delete" \notin Kinds /\ []OneAtATime => []LatestIsUp
<1> SUFFICES ASSUME "delete" \notin Kinds PROVE Spec /\ []OneAtATime => []LatestIsUp
  OBVIOUS
<1>1. TypeOK /\ OwnershipInv /\ OneAtATime /\ OneAtATime' /\ LatestInv /\ [Next]_vars => LatestInv'
  BY LatestInductive
<1>2. LatestInv => LatestIsUp
  BY DEF LatestInv, LatestIsUp, AtRest, Busy, Rolled, Rolls, OwnsRow, Settled
<1> QED
  BY <1>1, <1>2, LatestInitially, Ownership, PTL DEF Spec

----------------------------------------------------------------------------
(* A running app is served                                                 *)

Alone == \A o, p \in Ops : Busy(o) /\ Busy(p) => o = p

\* The store and Caddy agree on whether an app has a running container.
Up(a) == status[a] = "running" /\ scheme[a] = "v2" /\ live[a] = "v2"
Agreed(a) == IF Running(a) = {} THEN status[a] # "running" ELSE Up(a)

\* What a rollout has written of its app, and an apply has read.
Written(o) == LET a == op[o].app IN
    /\ op[o].pc = "row" => Agreed(a)
    /\ Rolls(o) /\ op[o].pc # "row" /\ Others(a, op[o].num) # {} =>
          scheme[a] = "v2" /\ live[a] = "v2"
    /\ op[o].pc \in {"running", "lock", "apply", "clear", "clearing", "finish"} =>
          scheme[a] = "v2"
    /\ op[o].pc \in {"lock", "apply", "clear", "clearing", "finish"} => status[a] = "running"
    /\ op[o].pc \in {"clear", "clearing", "finish"} => live[a] = "v2"
    /\ op[o].pc \in {"apply", "route_apply"} => op[o].routes = Routes

ServedInv == Reported =>
    /\ \A a \in Apps, m \in Nums : ctr[a][m] \in {"absent", "created", "v2"}
    /\ \A a \in Apps : ~Rolled(a) => Agreed(a)
    /\ \A o \in Ops : Written(o)

\* A step of an operation changes the alias of its own app only, and the
\* routes of the others to what the store says of them.
LEMMA OwnRoutes ==
    ASSUME TypeOK, NEW o \in Ops, Step(o), ~Deletes(o), Written(o),
           NEW b \in Apps, b # op[o].app
    PROVE  scheme'[b] = scheme[b] /\ live'[b] \in {live[b], Routes[b]}
<1>1. CASE CutOver(o) \/ RefreshRoutes(o)
  BY <1>1 DEF CutOver, RefreshRoutes, LockRoutes, ApplyRoutes, ApplyFails, Written, At, storeVars
<1>2. CASE SetScheme(o)
  BY <1>2 DEF SetScheme, TypeOK, Operation
<1>3. CASE scheme' = scheme /\ live' = live
  BY <1>3
<1> QED
  BY <1>1, <1>2, <1>3
  DEF Step, Deploying, CreateRow, MarkDeploying, Prepare, ClearFirst, ListOld, RemoveListed, Create,
      Start, Probe, MarkRunning, Clear, Finish, Fail, FailRemove, FailFinish, FailList, FailStatus,
      Delete, DeleteList, DeleteRow, LockRoutes, ApplyRoutes, ApplyFails, Deletes, At, storeVars

\* It is enough to look at the operation that takes the step, and its app.
LEMMA KeepsServed ==
    ASSUME TypeOK, Alone, ServedInv, Reported, NEW o \in Ops, Step(o), ~Deletes(o),
           faults' = faults, NEW a \in Apps, a = op[o].app,
           \A m \in Nums : ctr'[a][m] \in {"absent", "created", "v2"},
           Agreed(a)' \/ (Rolls(o)' /\ op'[o].app = a),
           Written(o)'
    PROVE  ServedInv'
<1>0. /\ \A p \in Ops \ {o} : op'[p] = op[p] /\ op[p].pc = "idle"
      /\ Busy(o)
  BY StepIsLocal, StepsAreBusy DEF Alone, Busy
<1>1. ASSUME NEW b \in Apps, b # a
      PROVE  Agreed(b)' /\ \A m \in Nums : ctr'[b][m] \in {"absent", "created", "v2"}
  <2>1. /\ status'[b] = status[b] /\ ctr'[b] = ctr[b] /\ scheme'[b] = scheme[b]
        /\ live'[b] \in {live[b], Routes[b]}
    BY <1>1, OwnContainers, OwnRecords, OwnRoutes DEF ServedInv
  <2>2. ~Rolled(b)
    BY <1>0, <1>1 DEF Rolled, Rolls, OwnsRow
  <2>3. Running(b)' = Running(b)
    BY <2>1 DEF Running
  <2> QED
    BY <2>1, <2>2, <2>3 DEF ServedInv, Agreed, Up, Routes
<1>2. \A p \in Ops : Written(p)'
  BY <1>0 DEF Written, Rolls, OwnsRow
<1>3. ASSUME NEW b \in Apps, ~Rolled(b)' PROVE Agreed(b)'
  BY <1>1, <1>3 DEF Rolled
<1> QED
  BY <1>1, <1>2, <1>3 DEF ServedInv

LEMMA StepKeepsServed ==
    ASSUME TypeOK, OwnershipInv, Alone, OneAtATime, LatestInv, ServedInv,
           NEW o \in Ops, Step(o), faults' = faults
    PROVE  ServedInv'
<1> SUFFICES ASSUME Reported PROVE ServedInv'
  BY DEF ServedInv, Reported
<1>a. PICK a \in Apps : a = op[o].app
  BY DEF TypeOK, Operation
<1>n. PICK n : n = op[o].num
  OBVIOUS
<1>0. /\ op[o] \in Operation /\ op \in [Ops -> Operation]
      /\ ctr \in [Apps -> [Nums -> CtrStates]]
      /\ scheme \in [Apps -> Schemes] /\ status \in [Apps -> Statuses]
      /\ "remove" \notin faults /\ "logged" \notin faults
  BY DEF TypeOK, Reported
<1>k. /\ ~Rolls(o) \/ op[o].pc = "row" => Settled(a)
      /\ Exists(a) /\ ~Deletes(o)
      /\ Rolls(o) /\ op[o].pc # "row" => Underway(o)
  BY <1>a, StepsAreBusy, LatestOf
<1>s. /\ Written(o) /\ \A m \in Nums : ctr[a][m] \in {"absent", "created", "v2"}
      /\ ~Rolls(o) => Agreed(a)
  <2>1. ~Rolls(o) => ~Rolled(a)
    BY StepsAreBusy DEF Rolled, Rolls, OwnsRow, Alone, Busy
  <2> QED
    BY <2>1 DEF ServedInv
<1> USE DEF At, Failing, Goto
\* Steps that write no status, alias or route.
<1>1. CASE RefreshRoutes(o)
  <2>1. /\ ctr' = ctr /\ status' = status /\ scheme' = scheme
        /\ live' \in {live, Routes} /\ ~Rolls(o) /\ op'[o].pc \in {"route_apply", "idle"}
    BY <1>0, <1>1, <1>s DEF RefreshRoutes, LockRoutes, ApplyRoutes, ApplyFails, Return, Resting,
       Rolls, OwnsRow, Written, storeVars, Operation
  <2>2. op'[o].pc = "route_apply" => op'[o].routes = Routes
    BY <1>0, <1>1 DEF RefreshRoutes, LockRoutes, ApplyRoutes, ApplyFails, Return, Resting, Operation
  <2>3. Running(a)' = Running(a) /\ Routes' = Routes /\ (live'[a] = live[a] \/ live'[a] = Routes[a])
    BY <2>1 DEF Running, Routes
  <2>4. Agreed(a)'
    BY <1>s, <2>1, <2>3 DEF Agreed, Up, Routes
  <2>5. Written(o)'
    BY <2>1, <2>2, <2>3 DEF Written, Rolls, OwnsRow
  <2> QED
    BY <1>a, <1>k, <1>s, <2>1, <2>4, <2>5, KeepsServed
<1>2. CASE CreateRow(o)
  <2>1. /\ ctr' = ctr /\ status' = status /\ scheme' = scheme /\ live' = live
        /\ op[o].pc = "row" /\ Agreed(a)
    BY <1>2, <1>s, <1>a DEF CreateRow, Written
  <2>2. Running(a)' = Running(a) /\ Agreed(a)'
    BY <2>1 DEF Running, Agreed, Up
  <2>3. CASE op'[o].pc = "idle"
    BY <1>a, <1>k, <1>s, <2>1, <2>2, <2>3, KeepsServed DEF Written, Rolls, OwnsRow
  <2>4. CASE op'[o].pc = "mark" /\ op'[o].app = a
    <3>1. Running(a) # {} => scheme'[a] = "v2" /\ live'[a] = "v2"
      BY <2>1 DEF Agreed, Up
    <3>2. \A m : Others(a, m)' # {} => Running(a) # {}
      BY <1>k, <2>1 DEF Settled, Others
    <3>3. Written(o)'
      BY <2>4, <3>1, <3>2 DEF Written
    <3> QED
      BY <1>a, <1>k, <1>s, <2>1, <2>2, <3>3, KeepsServed
  <2> QED
    BY <1>0, <1>2, <1>a, <2>3, <2>4 DEF CreateRow, Return, Resting, Operation
\* The operation goes on with its rollout; no other container comes about.
<1>3. ASSUME Rolls(o), op[o].pc # "row", Rolls(o)', op'[o].app = a, op'[o].num = n,
             op'[o].pc # "row",
             \A m \in Nums : ctr'[a][m] \in {"absent", "created", "v2"},
             \A m \in Nums : ctr'[a][m] # "absent" => ctr[a][m] # "absent" \/ m = n,
             scheme'[a] = scheme[a] \/ scheme'[a] = "v2",
             live'[a] = live[a] \/ live'[a] = "v2" \/ Others(a, n) = {},
             op'[o].pc \in {"running", "lock", "apply", "clear", "clearing", "finish"} =>
                scheme'[a] = "v2",
             op'[o].pc \in {"lock", "apply", "clear", "clearing", "finish"} =>
                status'[a] = "running",
             op'[o].pc \in {"clear", "clearing", "finish"} => live'[a] = "v2",
             op'[o].pc = "apply" => op'[o].routes = Routes'
      PROVE  ServedInv'
  <2>1. Others(a, n)' # {} => Others(a, n) # {}
    BY <1>3 DEF Others
  <2>2. Others(a, n) # {} => scheme[a] = "v2" /\ live[a] = "v2"
    BY <1>3, <1>a, <1>n, <1>s DEF Written
  <2>3. op'[o].pc # "route_apply"
    BY <1>3 DEF Rolls, OwnsRow
  <2>4. Written(o)'
    BY <1>3, <2>1, <2>2, <2>3 DEF Written
  <2> QED
    BY <1>3, <1>a, <1>k, <2>4, KeepsServed
<1>4. CASE \/ MarkDeploying(o) \/ Prepare(o) \/ Probe(o) \/ FailList(o) \/ FailFinish(o)
           \/ ListOld(o, "clear_first", "clearing_first")
  <2>1. /\ Rolls(o) /\ op[o].pc # "row" /\ Rolls(o)' /\ op'[o].app = a /\ op'[o].num = n
        /\ op'[o].pc \notin {"row", "running", "lock", "apply", "clear", "clearing", "finish"}
    BY <1>0, <1>4, <1>a, <1>n
    DEF MarkDeploying, Prepare, Probe, FailList, FailFinish, ListOld, Rolls, OwnsRow, Operation
  <2>2. ctr' = ctr /\ scheme' = scheme /\ live' = live
    BY <1>4 DEF MarkDeploying, Prepare, Probe, FailList, FailFinish, ListOld, storeVars
  <2> QED
    BY <1>3, <1>s, <2>1, <2>2
<1>5. CASE SetScheme(o)
  <2>1. /\ Rolls(o) /\ op[o].pc # "row" /\ Rolls(o)' /\ op'[o].app = a /\ op'[o].num = n
        /\ op'[o].pc \in {"running", "fail_remove"}
    BY <1>0, <1>5, <1>a, <1>n DEF SetScheme, Rolls, OwnsRow, Operation
  <2>2. /\ ctr' = ctr /\ live' = live
        /\ scheme'[a] = scheme[a] \/ scheme'[a] = "v2"
        /\ op'[o].pc = "running" => scheme'[a] = "v2"
    BY <1>0, <1>5, <1>a, <1>k DEF SetScheme, Operation
  <2> QED
    BY <1>3, <1>s, <2>1, <2>2
<1>6. CASE MarkRunning(o)
  <2>1. /\ Rolls(o) /\ op[o].pc = "running" /\ Rolls(o)' /\ op'[o].app = a /\ op'[o].num = n
        /\ op'[o].pc \in {"lock", "fail_remove"}
    BY <1>0, <1>6, <1>a, <1>n DEF MarkRunning, Rolls, OwnsRow, Operation
  <2>2. /\ ctr' = ctr /\ live' = live /\ scheme' = scheme
        /\ op'[o].pc = "lock" => status'[a] = "running"
    BY <1>0, <1>6, <1>a, <1>k DEF MarkRunning, WithStatus, Operation
  <2>3. scheme[a] = "v2"
    BY <1>a, <1>s, <2>1 DEF Written
  <2> QED
    BY <1>3, <1>s, <2>1, <2>2, <2>3
<1>7. CASE CutOver(o)
  <2>1. /\ Rolls(o) /\ op[o].pc \in {"lock", "apply"} /\ Rolls(o)'
        /\ op'[o].app = a /\ op'[o].num = n
        /\ op'[o].pc \in {"apply", "clear", "fail_remove"}
    BY <1>0, <1>7, <1>a, <1>n
    DEF CutOver, LockRoutes, ApplyRoutes, ApplyFails, Rolls, OwnsRow, Operation
  <2>2. scheme[a] = "v2" /\ status[a] = "running" /\ Routes[a] = "v2"
    BY <1>a, <1>s, <2>1 DEF Written, Routes
  <2>3. ctr' = ctr /\ scheme' = scheme /\ status' = status
    BY <1>7 DEF CutOver, LockRoutes, ApplyRoutes, ApplyFails, storeVars
  <2>4. /\ live' = live \/ live' = Routes
        /\ op'[o].pc = "clear" => live' = Routes
        /\ op'[o].pc = "apply" => op'[o].routes = Routes
    <3>1. op[o].pc = "apply" => op[o].routes = Routes
      BY <1>s DEF Written
    <3> QED
      BY <1>0, <1>7, <3>1 DEF CutOver, LockRoutes, ApplyRoutes, ApplyFails, Operation
  <2>5. Routes' = Routes
    BY <2>3 DEF Routes
  <2> QED
    BY <1>3, <1>s, <2>1, <2>2, <2>3, <2>4, <2>5
<1>8. CASE ListOld(o, "clear", "clearing")
  <2>1. /\ Rolls(o) /\ op[o].pc = "clear" /\ Rolls(o)' /\ op'[o].app = a /\ op'[o].num = n
        /\ op'[o].pc = "clearing"
        /\ ctr' = ctr /\ scheme' = scheme /\ live' = live /\ status' = status
    BY <1>0, <1>8, <1>a, <1>n DEF ListOld, Rolls, OwnsRow, Operation, storeVars
  <2>2. scheme[a] = "v2" /\ status[a] = "running" /\ live[a] = "v2"
    BY <1>a, <1>s, <2>1 DEF Written
  <2> QED
    BY <1>3, <1>s, <2>1, <2>2
<1>9. CASE \/ Create(o) \/ Start(o) \/ FailRemove(o)
           \/ RemoveListed(o, "clearing_first", "create") \/ RemoveListed(o, "clearing", "finish")
  <2>1. /\ Rolls(o) /\ op[o].pc # "row" /\ Rolls(o)' /\ op'[o].app = a /\ op'[o].num = n
        /\ op'[o].pc \notin {"row", "running", "lock", "apply", "clear"}
        /\ op'[o].pc \in {"clearing", "finish"} => op[o].pc = "clearing"
    <3>1. CASE Create(o) \/ Start(o) \/ FailRemove(o)
      BY <1>0, <1>a, <1>n, <3>1 DEF Create, Start, FailRemove, Rolls, OwnsRow, Operation
    <3>2. CASE RemoveListed(o, "clearing_first", "create")
      BY <1>0, <1>a, <1>n, <3>2 DEF RemoveListed, Rolls, OwnsRow, Operation
    <3>3. CASE RemoveListed(o, "clearing", "finish")
      BY <1>0, <1>a, <1>n, <3>3 DEF RemoveListed, Rolls, OwnsRow, Operation
    <3> QED
      BY <1>9, <3>1, <3>2, <3>3
  <2>2. scheme' = scheme /\ live' = live /\ status' = status
    BY <1>9 DEF Create, Start, FailRemove, RemoveListed, storeVars
  <2>3. n \in Nums
    BY <1>k, <1>n, <2>1 DEF Underway
  <2>4. CASE Create(o) \/ Start(o) \/ FailRemove(o)
    <3>1. \A m \in Nums \ {n} : ctr'[a][m] = ctr[a][m]
      BY <1>0, <1>a, <1>n, <2>4 DEF Create, Start, FailRemove
    <3>2. ctr'[a][n] \in {"absent", "created", "v2"}
      BY <1>0, <1>a, <1>n, <1>s, <2>3, <2>4 DEF Create, Start, FailRemove
    <3>3. op'[o].pc \notin {"clearing", "finish"}
      BY <1>0, <2>4 DEF Create, Start, FailRemove, Operation
    <3> QED
      BY <1>3, <1>s, <2>1, <2>2, <3>1, <3>2, <3>3
  <2>5. CASE RemoveListed(o, "clearing_first", "create") \/ RemoveListed(o, "clearing", "finish")
    <3>1. \A m \in Nums : ctr'[a][m] = ctr[a][m] \/ ctr'[a][m] = "absent"
      <4>1. ctr' = ctr \/ \E m \in op[o].todo : ctr' = [ctr EXCEPT ![a][m] = "absent"]
        BY <1>0, <1>a, <2>5 DEF RemoveListed, Leftovers
      <4> QED
        BY <1>0, <4>1
    <3>2. op[o].pc = "clearing" => scheme[a] = "v2" /\ status[a] = "running" /\ live[a] = "v2"
      BY <1>a, <1>s DEF Written
    <3> QED
      BY <1>3, <1>s, <2>1, <2>2, <3>1, <3>2
  <2> QED
    BY <1>9, <2>4, <2>5
\* The operation returns.
<1>10. CASE Finish(o)
  <2>1. /\ ctr' = ctr /\ scheme' = scheme /\ live' = live /\ status' = status
        /\ op[o].pc = "finish" /\ op'[o].pc = "idle" /\ Rolls(o)
    BY <1>0, <1>10 DEF Finish, Return, Resting, Rolls, OwnsRow
  <2>2. scheme[a] = "v2" /\ status[a] = "running" /\ live[a] = "v2"
    BY <1>a, <1>s, <2>1 DEF Written
  <2>3. n \in Running(a)
    BY <1>a, <1>k, <1>n, <2>1 DEF Underway, OwnKnown, Running
  <2>4. Agreed(a)' /\ Written(o)'
    BY <2>1, <2>2, <2>3 DEF Agreed, Up, Running, Written, Rolls, OwnsRow
  <2> QED
    BY <1>a, <1>k, <1>s, <2>1, <2>4, KeepsServed
<1>11. CASE FailStatus(o)
  <2>1. /\ ctr' = ctr /\ scheme' = scheme /\ live' = live /\ status'[a] = op[o].verdict
        /\ op[o].pc = "fail_status" /\ op'[o].pc = "idle" /\ Rolls(o)
    BY <1>0, <1>11, <1>a, <1>k DEF FailStatus, WithStatus, Return, Resting, Rolls, OwnsRow
  <2>2. /\ ctr[a][n] = "absent" /\ Others(a, n) \subseteq Running(a)
        /\ op[o].verdict = "error" <=> Others(a, n) = {}
    BY <1>a, <1>k, <1>n, <2>1 DEF Underway, OwnKnown, OthersKnown
  <2>3. Running(a) = Others(a, n)
    BY <2>2 DEF Running, Others, Schemes
  <2>4. Others(a, n) # {} => scheme[a] = "v2" /\ live[a] = "v2" /\ op[o].verdict = "running"
    BY <1>0, <1>a, <1>n, <1>s, <2>1, <2>2 DEF Written, Operation
  <2>5. Running(a)' = Running(a)
    BY <2>1 DEF Running
  <2>6. Agreed(a)' /\ Written(o)'
    BY <2>1, <2>2, <2>3, <2>4, <2>5 DEF Agreed, Up, Written, Rolls, OwnsRow
  <2> QED
    BY <1>a, <1>k, <1>s, <2>1, <2>6, KeepsServed
<1>12. CASE Delete(o)
  BY <1>12, <1>k DEF Delete, DeleteList, RemoveListed, LockRoutes, ApplyRoutes, ApplyFails,
     DeleteRow, Deletes
<1> QED
  BY <1>1, <1>2, <1>4, <1>5, <1>6, <1>7, <1>8, <1>9, <1>10, <1>11, <1>12
  DEF Step, Deploying, ClearFirst, Clear, Fail

LEMMA BeginsKeepsServed ==
    ASSUME TypeOK, Alone', ServedInv, faults' = faults,
           NEW o \in Ops, NEW b \in Apps, Begins(o, b)
    PROVE  ServedInv'
<1> SUFFICES ASSUME Reported PROVE ServedInv'
  BY DEF ServedInv, Reported
<1>0. /\ op[o].pc = "idle" /\ UNCHANGED <<status, scheme, ctr, live>>
      /\ op'[o].pc \in {"row", "del_list", "route_lock"}
      /\ \A p \in Ops \ {o} : op'[p] = op[p]
  BY BeginsIsLocal DEF storeVars
<1>1. op'[o].app = b
  BY DEF Begins, BeginDeploy, BeginRollback, BeginRoutes, BeginDelete, Begin, TypeOK, Operation
<1>2. \A p \in Ops : op[p].pc = "idle"
  BY <1>0 DEF Alone, Busy
<1>3. \A c \in Apps : Agreed(c)'
  <2>1. \A c \in Apps : ~Rolled(c)
    BY <1>2 DEF Rolled, Rolls, OwnsRow
  <2> QED
    BY <1>0, <2>1 DEF ServedInv, Agreed, Up, Running
<1>4. Written(o)'
  BY <1>0, <1>1, <1>3 DEF Written, Rolls, OwnsRow
<1>5. \A p \in Ops \ {o} : Written(p)'
  BY <1>0, <1>2 DEF Written, Rolls, OwnsRow
<1> QED
  BY <1>0, <1>3, <1>4, <1>5 DEF ServedInv

LEMMA ServedInitially ==
    ASSUME Init, "legacy" \notin Origins
    PROVE  ServedInv
<1>1. \A o \in Ops : Written(o)
  BY DEF Init, Resting, Written, Rolls, OwnsRow
<1>2. PICK origin \in [Apps -> Origins] :
        /\ status = [b \in Apps |-> IF origin[b] = "fresh" THEN "created" ELSE "running"]
        /\ scheme = [b \in Apps |-> IF origin[b] = "settled" THEN "v2" ELSE "legacy"]
        /\ ctr = [b \in Apps |-> [n \in Nums |->
                    IF n = 1 /\ origin[b] # "fresh" THEN scheme[b] ELSE "absent"]]
        /\ live = [b \in Apps |-> IF origin[b] = "fresh" THEN "none" ELSE scheme[b]]
  BY DEF Init
<1>3. \A b \in Apps : origin[b] \in {"fresh", "settled"}
  BY <1>2, RolloutAssumption
<1>4. ASSUME NEW a \in Apps
      PROVE  Agreed(a) /\ \A m \in Nums : ctr[a][m] \in {"absent", "created", "v2"}
  <2>1. 1 \in Nums
    BY RolloutAssumption DEF Nums
  <2>2. CASE origin[a] = "fresh"
    BY <1>2, <2>2 DEF Agreed, Running, Schemes
  <2>3. CASE origin[a] = "settled"
    <3>1. 1 \in Running(a)
      BY <1>2, <2>1, <2>3 DEF Running, Schemes
    <3> QED
      BY <1>2, <2>3, <3>1 DEF Agreed, Up
  <2> QED
    BY <1>3, <2>2, <2>3
<1> QED
  BY <1>1, <1>4 DEF ServedInv

\* As long as operations come one after the other, none is a delete, no app is
\* older than the present aliases and every failure is reported: at rest an
\* app the store calls running is one Caddy can reach.
THEOREM RunningAppsAreServed ==
    Spec /\ "delete" \notin Kinds /\ "legacy" \notin Origins /\ []Alone => []RunningIsServed
<1> SUFFICES ASSUME "delete" \notin Kinds, "legacy" \notin Origins
             PROVE  Spec /\ []Alone => []RunningIsServed
  OBVIOUS
<1>1. Alone => OneAtATime
  BY DEF Alone, OneAtATime
<1>2. TypeOK /\ OwnershipInv /\ OneAtATime /\ OneAtATime' /\ LatestInv /\ [Next]_vars => LatestInv'
  BY LatestInductive
<1>3. TypeOK /\ OwnershipInv /\ Alone /\ Alone' /\ OneAtATime /\ LatestInv /\ ServedInv /\ [Next]_vars
        => ServedInv'
  <2> SUFFICES ASSUME TypeOK, OwnershipInv, Alone, Alone', OneAtATime, LatestInv, ServedInv, [Next]_vars
               PROVE  ServedInv'
    OBVIOUS
  <2>1. ASSUME NEW o \in Ops, Step(o), faults' = faults PROVE ServedInv'
    BY <2>1, StepKeepsServed
  <2>2. ASSUME NEW o \in Ops, NEW b \in Apps, Begins(o, b), faults' = faults PROVE ServedInv'
    BY <2>2, BeginsKeepsServed
  <2>3. CASE UNCHANGED <<status, scheme, ctr, live, op, faults>>
    BY <2>3 DEF ServedInv, Reported, Agreed, Up, Written, Rolled, Rolls, OwnsRow, Others, Running, Routes
  <2>4. ASSUME NEW a \in Apps, PatchStrategy(a), faults' = faults PROVE ServedInv'
    BY <2>3, <2>4 DEF PatchStrategy
  <2>5. CASE (Crash \/ Boot) /\ faults' = faults
    BY <2>5 DEF Crash, Boot, CleanupOrphans, SweepStuck, BootRoutes, LatestInv, ServedInv, Reported
  <2>6. CASE UNCHANGED vars
    BY <2>3, <2>6 DEF vars
  <2> QED
    BY <2>1, <2>2, <2>4, <2>5, <2>6 DEF Next
<1>4. Init => LatestInv /\ ServedInv
  BY LatestInitially, ServedInitially
<1>5. LatestInv /\ ServedInv => RunningIsServed
  <2> SUFFICES ASSUME ServedInv, AtRest, Reported, NEW a \in Apps, status[a] = "running"
               PROVE  Serving(a)
    BY DEF RunningIsServed
  <2>1. Agreed(a)
    BY DEF ServedInv, AtRest, Busy, Rolled, Rolls, OwnsRow
  <2>2. PICK m \in Running(a) : TRUE
    BY <2>1 DEF Agreed
  <2>3. ctr[a][m] = "v2"
    BY <2>2 DEF Running, Schemes, ServedInv
  <2> QED
    BY <2>1, <2>2, <2>3 DEF Serving, Agreed, Up, Running
<1> QED
  BY <1>1, <1>2, <1>3, <1>4, <1>5, Ownership, PTL DEF Spec



----------------------------------------------------------------------------
(* A failed deploy never takes the app down                                *)

\* What a rollout has written of its app and read of it, up to its end.
NeverKnows(o) == LET a == op[o].app IN
    /\ op[o].pc \in {"clear_first", "clearing_first"} => op[o].plan = "replace"
    /\ op[o].pc \in {"probe", "scheme", "running", "lock", "apply", "clear", "clearing",
                     "finish"} => ctr[a][op[o].num] = "v2"
    /\ op[o].pc = "clearing" => op[o].num \notin op[o].todo
    /\ op[o].pc \in {"running", "lock", "apply", "clear", "clearing", "finish"} =>
          scheme[a] = "v2"
    /\ op[o].pc \in {"lock", "apply", "clear", "clearing", "finish"} => status[a] = "running"
    /\ op[o].pc = "apply" => op[o].routes[a] = "v2"
    /\ op[o].pc \in {"clear", "clearing", "finish"} =>
          live[a] = "v2" /\ \A p \in Ops : Applying(p) => op[p].routes[a] = "v2"

NeverInv == "crash" \notin faults =>
    /\ phase = "up"
    /\ \A o \in Ops : ~Deletes(o)
    /\ \A a \in Apps : Exists(a)
    /\ \A o \in Ops : NeverKnows(o)

\* A step of an operation changes the alias of its own app only.
LEMMA OwnScheme ==
    ASSUME TypeOK, NEW o \in Ops, Step(o), NEW b \in Apps, b # op[o].app
    PROVE  scheme'[b] = scheme[b]
<1>1. CASE SetScheme(o)
  BY <1>1 DEF SetScheme, TypeOK, Operation
<1>2. CASE scheme' = scheme
  BY <1>2
<1> QED
  BY <1>1, <1>2
  DEF Step, Deploying, CreateRow, MarkDeploying, Prepare, ClearFirst, ListOld, RemoveListed, Create,
      Start, Probe, MarkRunning, CutOver, Clear, Finish, Fail, FailRemove, FailFinish, FailList,
      FailStatus, RefreshRoutes, Delete, DeleteList, DeleteRow, LockRoutes, ApplyRoutes, ApplyFails,
      storeVars

\* A step of an operation leaves the routes in Caddy alone, or it applies
\* the ones the operation read.
LEMMA AppliedRoutes ==
    ASSUME TypeOK, NEW o \in Ops, Step(o)
    PROVE  live' = live \/ (Applying(o) /\ live' = op[o].routes)
<1>1. CASE CutOver(o) \/ RefreshRoutes(o) \/ Delete(o)
  BY <1>1 DEF CutOver, RefreshRoutes, Delete, DeleteList, RemoveListed, DeleteRow, LockRoutes,
     ApplyRoutes, ApplyFails, Applying, At
<1>2. CASE live' = live
  BY <1>2
<1> QED
  BY <1>1, <1>2
  DEF Step, Deploying, CreateRow, MarkDeploying, Prepare, ClearFirst, ListOld, RemoveListed, Create,
      Start, Probe, SetScheme, MarkRunning, Clear, Finish, Fail, FailRemove, FailFinish, FailList,
      FailStatus

\* What an operation that is about to apply has read: unchanged, or just read.
LEMMA ReadRoutes ==
    ASSUME TypeOK, NEW o \in Ops, Step(o), ~Deletes(o), Applying(o)'
    PROVE  op'[o].routes = Routes
<1> USE DEF At, Failing, Goto, Return, Resting, Applying
<1>0. op[o] \in Operation
  BY DEF TypeOK
<1>1. CASE CutOver(o) \/ RefreshRoutes(o)
  BY <1>0, <1>1 DEF CutOver, RefreshRoutes, LockRoutes, ApplyRoutes, ApplyFails, TypeOK, Operation
<1>2. CASE CreateRow(o) \/ MarkDeploying(o) \/ Prepare(o) \/ ClearFirst(o)
           \/ Create(o) \/ Start(o) \/ Probe(o) \/ SetScheme(o) \/ MarkRunning(o)
           \/ Clear(o) \/ Finish(o) \/ Fail(o)
  BY <1>2, PlainSteps
<1>3. CASE Delete(o)
  BY <1>3 DEF Delete, DeleteList, RemoveListed, LockRoutes, ApplyRoutes, ApplyFails,
     DeleteRow, Deletes
<1> QED
  BY <1>1, <1>2, <1>3 DEF Step, Deploying

\* What a step of another operation leaves of what a rollout knows.
LEMMA OthersKeepNever ==
    ASSUME TypeOK, MutexInv, OneAtATime, NeverInv, "crash" \notin faults,
           NEW o \in Ops, Step(o), NEW p \in Ops, p # o
    PROVE  NeverKnows(p)'
<1>0. /\ op'[p] = op[p] /\ \A q \in Ops \ {o} : op'[q] = op[q]
      /\ Busy(o) /\ NeverKnows(p) /\ ~Deletes(o) /\ ~Deletes(p)
  BY StepIsLocal, StepsAreBusy DEF NeverInv
<1>1. CASE op[p].pc = "idle"
  BY <1>0, <1>1 DEF NeverKnows
<1>2. CASE op[p].pc # "idle"
  <2>1. PICK a \in Apps : a = op[p].app
    BY DEF TypeOK, Operation
  <2>2. a # op[o].app
    BY <1>0, <1>2, <2>1 DEF OneAtATime, Busy
  <2>3. /\ ctr'[a] = ctr[a] /\ status'[a] = status[a] /\ scheme'[a] = scheme[a]
    BY <2>2, OwnContainers, OwnRecords, OwnScheme
  <2>4. ASSUME op[p].pc \in {"clear", "clearing", "finish"}
        PROVE  live'[a] = "v2" /\ \A q \in Ops : Applying(q)' => op'[q].routes[a] = "v2"
    <3>1. live[a] = "v2" /\ \A q \in Ops : Applying(q) => op[q].routes[a] = "v2"
      BY <1>0, <2>1, <2>4 DEF NeverKnows
    <3>2. live'[a] = "v2"
      BY <3>1, AppliedRoutes
    <3>3. Routes[a] = "v2"
      BY <1>0, <2>1, <2>4 DEF NeverKnows, Routes
    <3>4. Applying(o)' => op'[o].routes[a] = "v2"
      BY <1>0, <3>3, ReadRoutes
    <3>5. \A q \in Ops \ {o} : Applying(q)' => op'[q].routes[a] = "v2"
      BY <1>0, <3>1 DEF Applying
    <3> QED
      BY <3>2, <3>4, <3>5
  <2> QED
    BY <1>0, <2>1, <2>3, <2>4 DEF NeverKnows
<1> QED
  BY <1>1, <1>2

\* ... and of the operation that takes the step.
LEMMA OwnKeepsNever ==
    ASSUME TypeOK, OwnershipInv, MutexInv, OneAtATime, NeverInv, "crash" \notin faults,
           NEW o \in Ops, Step(o)
    PROVE  NeverKnows(o)' /\ ~Deletes(o)' /\ \A b \in Apps : Exists(b)'
<1>a. PICK a \in Apps : a = op[o].app
  BY DEF TypeOK, Operation
<1>n. PICK n : n = op[o].num
  OBVIOUS
<1>0. /\ op[o] \in Operation /\ op \in [Ops -> Operation]
      /\ ctr \in [Apps -> [Nums -> CtrStates]]
      /\ scheme \in [Apps -> Schemes] /\ status \in [Apps -> Statuses]
      /\ OwnsRow(o) => n \in Nums
      /\ NeverKnows(o) /\ ~Deletes(o) /\ \A b \in Apps : Exists(b)
  BY <1>n DEF TypeOK, NeverInv, OwnershipInv, NumsOwned
<1> USE DEF At, Failing, Goto
\* Steps to where nothing is known.
<1>2. CASE \/ CreateRow(o) \/ MarkDeploying(o) \/ Create(o) \/ FailRemove(o) \/ FailFinish(o)
           \/ FailList(o) \/ FailStatus(o) \/ Finish(o) \/ RefreshRoutes(o)
  <2>1. op'[o].pc \in {"idle", "mark", "prepare", "start", "fail_finish", "fail_list",
                       "fail_status", "route_apply"}
    BY <1>0, <1>2 DEF CreateRow, MarkDeploying, Create, FailRemove, FailFinish, FailList, FailStatus,
       Finish, RefreshRoutes, LockRoutes, ApplyRoutes, ApplyFails, Return, Resting, Operation
  <2>2. \A b \in Apps : Exists(b)'
    BY <1>0, <1>2 DEF CreateRow, MarkDeploying, Create, FailRemove, FailFinish, FailList, FailStatus,
       Finish, RefreshRoutes, LockRoutes, ApplyRoutes, ApplyFails, storeVars, Exists, WithStatus,
       Operation
  <2> QED
    BY <2>1, <2>2 DEF NeverKnows, Deletes
<1>3. CASE Prepare(o)
  <2>1. /\ op'[o].pc \in {"clear_first", "create", "fail_finish"}
        /\ op'[o].pc = "clear_first" => op'[o].plan = "replace"
        /\ UNCHANGED status
    BY <1>0, <1>3 DEF Prepare, storeVars, Operation
  <2> QED
    BY <1>0, <2>1 DEF NeverKnows, Deletes, Exists
<1>4. CASE ListOld(o, "clear_first", "clearing_first") \/ RemoveListed(o, "clearing_first", "create")
  <2>1. /\ op'[o].pc \in {"clearing_first", "create"}
        /\ op'[o].plan = op[o].plan /\ op[o].pc \in {"clear_first", "clearing_first"}
        /\ UNCHANGED status
    BY <1>0, <1>4 DEF ListOld, RemoveListed, storeVars, Operation
  <2> QED
    BY <1>0, <2>1 DEF NeverKnows, Deletes, Exists
<1>5. CASE Start(o) \/ Probe(o) \/ SetScheme(o) \/ MarkRunning(o)
  <2>1. /\ op'[o].app = a /\ op'[o].num = n /\ n \in Nums
        /\ op'[o].pc \in {"probe", "scheme", "running", "lock", "fail_remove"}
    BY <1>0, <1>5, <1>a, <1>n DEF Start, Probe, SetScheme, MarkRunning, OwnsRow, Operation
  <2>2. op'[o].pc # "fail_remove" => ctr'[a][n] = "v2"
    <3>1. CASE Start(o)
      BY <1>0, <1>a, <1>n, <2>1, <3>1 DEF Start, Operation
    <3>2. CASE Probe(o) \/ SetScheme(o) \/ MarkRunning(o)
      BY <1>0, <1>a, <1>n, <3>2 DEF Probe, SetScheme, MarkRunning, NeverKnows
    <3> QED
      BY <1>5, <3>1, <3>2
  <2>3. op'[o].pc \in {"running", "lock"} => scheme'[a] = "v2"
    <3>1. CASE SetScheme(o)
      BY <1>0, <1>a, <3>1 DEF SetScheme, Operation
    <3>2. CASE MarkRunning(o)
      BY <1>0, <1>a, <3>2 DEF MarkRunning, NeverKnows
    <3> QED
      BY <1>0, <1>5, <2>1, <3>1, <3>2 DEF Start, Probe, Operation
  <2>4. op'[o].pc = "lock" => status'[a] = "running"
    <3>1. CASE MarkRunning(o)
      BY <1>0, <1>a, <3>1 DEF MarkRunning, WithStatus, Operation
    <3> QED
      BY <1>0, <1>5, <2>1, <3>1 DEF Start, Probe, SetScheme, Operation
  <2>5. \A b \in Apps : Exists(b)'
    BY <1>0, <1>5, <1>a DEF Start, Probe, SetScheme, MarkRunning, storeVars, WithStatus, Exists
  <2> QED
    BY <2>1, <2>2, <2>3, <2>4, <2>5 DEF NeverKnows, Deletes
<1>6. CASE CutOver(o)
  <2>1. UNCHANGED <<storeVars, ctr>> /\ op'[o].app = a /\ op'[o].num = n
    BY <1>0, <1>6, <1>a, <1>n DEF CutOver, LockRoutes, ApplyRoutes, ApplyFails, Operation
  <2>2. ctr[a][n] = "v2" /\ scheme[a] = "v2" /\ status[a] = "running"
    BY <1>0, <1>6, <1>a, <1>n DEF CutOver, LockRoutes, ApplyRoutes, ApplyFails, NeverKnows
  <2>3. op'[o].pc \in {"apply", "clear", "fail_remove"}
    BY <1>0, <1>6 DEF CutOver, LockRoutes, ApplyRoutes, ApplyFails, Operation
  <2>4. op'[o].pc = "apply" => op'[o].routes[a] = "v2"
    BY <1>0, <1>6, <2>2, ReadRoutes DEF Applying, Routes
  <2>5. op'[o].pc = "clear" => live'[a] = "v2" /\ Applying(o)
    BY <1>0, <1>6, <1>a DEF CutOver, LockRoutes, ApplyRoutes, ApplyFails, NeverKnows, Applying,
       Operation
  <2>6. ASSUME op'[o].pc = "clear", NEW q \in Ops PROVE ~Applying(q)'
    <3>1. CASE q = o
      BY <2>6, <3>1 DEF Applying
    <3>2. CASE q # o
      BY <2>5, <2>6, <3>2, StepIsLocal DEF MutexInv, RoutesExclusive, Applying
    <3> QED
      BY <3>1, <3>2
  <2> QED
    BY <1>0, <2>1, <2>2, <2>3, <2>4, <2>5, <2>6 DEF NeverKnows, Deletes, Exists, storeVars
<1>7. CASE ListOld(o, "clear", "clearing") \/ RemoveListed(o, "clearing", "finish")
  <2>1. UNCHANGED <<storeVars, live>> /\ op'[o].app = a /\ op'[o].num = n
    BY <1>0, <1>7, <1>a, <1>n DEF ListOld, RemoveListed, Operation
  <2>2. /\ op[o].pc \in {"clear", "clearing"} /\ op'[o].pc \in {"clearing", "finish"}
        /\ op'[o].pc = "clearing" => n \notin op'[o].todo
    BY <1>0, <1>7, <1>a, <1>n DEF ListOld, RemoveListed, Operation, NeverKnows, Others
  <2>3. /\ scheme[a] = "v2" /\ status[a] = "running" /\ live[a] = "v2" /\ ctr[a][n] = "v2"
        /\ \A q \in Ops : Applying(q) => op[q].routes[a] = "v2"
    BY <1>0, <1>a, <1>n, <2>2 DEF NeverKnows
  <2>4. ctr'[a][n] = "v2"
    <3>1. CASE ListOld(o, "clear", "clearing")
      BY <2>3, <3>1 DEF ListOld
    <3>2. CASE RemoveListed(o, "clearing", "finish")
      <4>1. n \notin op[o].todo /\ n \in Nums
        BY <1>0, <1>n, <3>2 DEF RemoveListed, NeverKnows, OwnsRow
      <4>2. CASE ctr' = ctr
        BY <2>3, <4>2
      <4>3. ASSUME NEW m \in op[o].todo, NEW s, ctr' = [ctr EXCEPT ![a][m] = s]
            PROVE  ctr'[a][n] = "v2"
        BY <1>0, <2>3, <4>1, <4>3
      <4> QED
        BY <1>a, <3>2, <4>2, <4>3 DEF RemoveListed
    <3> QED
      BY <1>7, <3>1, <3>2
  <2>5. \A q \in Ops : Applying(q)' => op'[q].routes[a] = "v2"
    BY <2>2, <2>3, StepIsLocal DEF Applying
  <2> QED
    BY <1>0, <2>1, <2>2, <2>3, <2>4, <2>5 DEF NeverKnows, Deletes, Exists, storeVars
<1>8. CASE Delete(o)
  BY <1>0, <1>8 DEF Delete, DeleteList, RemoveListed, LockRoutes, ApplyRoutes, ApplyFails,
     DeleteRow, Deletes
<1> QED
  BY <1>2, <1>3, <1>4, <1>5, <1>6, <1>7, <1>8 DEF Step, Deploying, ClearFirst, Clear, Fail

LEMMA NeverInductive ==
    ASSUME "delete" \notin Kinds
    PROVE  TypeOK /\ OwnershipInv /\ MutexInv /\ OneAtATime /\ NeverInv /\ [Next]_vars => NeverInv'
<1> SUFFICES ASSUME TypeOK, OwnershipInv, MutexInv, OneAtATime, NeverInv, [Next]_vars,
                    "crash" \notin faults
             PROVE  NeverInv'
  BY DEF NeverInv, Next, vars
<1>0. phase = "up"
  BY DEF NeverInv
<1>1. ASSUME NEW o \in Ops, Step(o) PROVE NeverInv'
  <2>1. \A p \in Ops : NeverKnows(p)' /\ ~Deletes(p)'
    BY <1>1, OwnKeepsNever, OthersKeepNever, StepIsLocal DEF NeverInv, Deletes
  <2> QED
    BY <1>1, <2>1, OwnKeepsNever, StepIsLocal DEF NeverInv
<1>2. ASSUME NEW o \in Ops, NEW b \in Apps, Begins(o, b) PROVE NeverInv'
  <2>1. /\ op'[o].pc \in {"row", "route_lock"} /\ phase' = "up"
        /\ \A p \in Ops \ {o} : op'[p] = op[p]
        /\ UNCHANGED <<status, scheme, ctr, live>>
    <3>1. op'[o].pc \in {"row", "route_lock"}
      BY <1>2 DEF Begins, BeginDeploy, BeginRollback, BeginRoutes, BeginDelete, Begin, TypeOK, Operation
    <3> QED
      BY <1>0, <1>2, <3>1, BeginsIsLocal DEF storeVars
  <2>2. \A p \in Ops : Applying(p)' => p # o /\ Applying(p)
    BY <2>1 DEF Applying
  <2>3. ASSUME NEW p \in Ops PROVE NeverKnows(p)' /\ ~Deletes(p)'
    <3>1. CASE p = o
      BY <2>1, <3>1 DEF NeverKnows, Deletes
    <3>2. CASE p # o
      BY <2>1, <2>2, <3>2 DEF NeverInv, NeverKnows, Deletes
    <3> QED
      BY <3>1, <3>2
  <2> QED
    BY <2>1, <2>3 DEF NeverInv, Exists
<1>3. CASE UNCHANGED <<status, scheme, ctr, live, phase, op>>
  BY <1>3 DEF NeverInv, NeverKnows, Deletes, Exists, Applying
<1>4. ~Crash \/ faults' # faults
  BY DEF Crash
<1>5. ~Boot
  BY <1>0 DEF Boot, CleanupOrphans, SweepStuck, BootRoutes
<1> QED
  BY <1>1, <1>2, <1>3, <1>4, <1>5 DEF Next, PatchStrategy, vars

\* No step of a rollout takes away the container that serves its app, but
\* for the removal of the old ones by a replacement.
LEMMA StepKeepsServing ==
    ASSUME TypeOK, OwnershipInv, OneAtATime, NeverInv, "crash" \notin faults,
           NEW o \in Ops, Step(o), NEW b \in Apps, Working(b), ~Replacing(b),
           op[o].pc # "route_apply", op[o].pc = "apply" => op[o].app = b
    PROVE  Serving(b)'
<1>n. PICK n : n = op[o].num
  OBVIOUS
<1>0. /\ op[o] \in Operation
      /\ ctr \in [Apps -> [Nums -> CtrStates]]
      /\ OwnsRow(o) => n \in Nums
      /\ NeverKnows(o) /\ ~Deletes(o) /\ Busy(o)
  BY <1>n, StepsAreBusy DEF TypeOK, NeverInv, OwnershipInv, NumsOwned
<1>1. PICK m \in Nums : ctr[b][m] = live[b] /\ ~Unproven(b, m)
  BY DEF Working
<1>2. live[b] \in Schemes
  BY DEF Working, TypeOK, Upstreams
<1> USE DEF At, Failing
<1>3. CASE live' # live
  <2>1. op[o].pc = "apply" /\ live' = op[o].routes
    BY <1>0, <1>3, AppliedRoutes DEF Applying, Deletes
  <2>2. live'[b] = "v2" /\ ctr[b][n] = "v2" /\ n \in Nums
    BY <1>0, <1>n, <2>1 DEF NeverKnows, OwnsRow
  <2>3. ctr' = ctr
    BY <2>1 DEF Step, Deploying, CreateRow, MarkDeploying, Prepare, ClearFirst, ListOld, RemoveListed,
       Create, Start, Probe, SetScheme, MarkRunning, CutOver, LockRoutes, ApplyRoutes, ApplyFails,
       Clear, Finish, Fail, FailRemove, FailFinish, FailList, FailStatus, RefreshRoutes, Delete,
       DeleteList, DeleteRow
  <2> QED
    BY <2>2, <2>3 DEF Serving
<1>4. CASE live' = live /\ \E k \in Nums : ctr'[b][k] = live[b]
  BY <1>2, <1>4 DEF Serving, Schemes
<1>5. CASE b # op[o].app \/ ctr' = ctr
  <2>1. ctr'[b] = ctr[b]
    BY <1>5, OwnContainers
  <2> QED
    BY <1>1, <1>3, <1>4, <2>1
<1>6. ASSUME b = op[o].app, ctr' # ctr, Create(o) \/ Start(o) \/ FailRemove(o)
      PROVE  ctr'[b][m] = live[b]
  <2>1. m # n
    BY <1>0, <1>1, <1>2, <1>6, <1>n DEF Create, Start, FailRemove, Unproven, Schemes
  <2> QED
    BY <1>0, <1>1, <1>6, <1>n, <2>1 DEF Create, Start, FailRemove
<1>7. ASSUME b = op[o].app, RemoveListed(o, "clearing", "finish")
      PROVE  ctr'[b][n] = live[b] /\ n \in Nums
  <2>1. n \notin op[o].todo /\ n \in Nums /\ ctr[b][n] = live[b]
    BY <1>0, <1>7, <1>n DEF RemoveListed, NeverKnows, OwnsRow
  <2>2. CASE ctr' = ctr
    BY <2>1, <2>2
  <2>3. ASSUME NEW k \in op[o].todo, NEW s, ctr' = [ctr EXCEPT ![b][k] = s]
        PROVE  ctr'[b][n] = live[b]
    BY <1>0, <2>1, <2>3
  <2> QED
    BY <1>7, <2>1, <2>2, <2>3 DEF RemoveListed
<1>8. CASE b = op[o].app /\ RemoveListed(o, "clearing_first", "create")
  BY <1>0, <1>8 DEF RemoveListed, NeverKnows, Replacing
<1>9. CASE RemoveListed(o, "del_removing", "del_lock")
  BY <1>0, <1>9 DEF RemoveListed, Deletes
<1>10. \/ ctr' = ctr
       \/ Create(o) \/ Start(o) \/ FailRemove(o)
       \/ RemoveListed(o, "clearing_first", "create") \/ RemoveListed(o, "clearing", "finish")
       \/ RemoveListed(o, "del_removing", "del_lock")
  BY DEF Step, Deploying, CreateRow, MarkDeploying, Prepare, ClearFirst, ListOld, Probe, SetScheme,
      MarkRunning, CutOver, LockRoutes, ApplyRoutes, ApplyFails, Clear, Finish, Fail, FailFinish,
      FailList, FailStatus, RefreshRoutes, Delete, DeleteList, DeleteRow
<1> QED
  BY <1>1, <1>3, <1>4, <1>5, <1>6, <1>7, <1>8, <1>9, <1>10

\* As long as the operations on an app come one after the other and none is a
\* delete: whichever of its calls fail, no step of a rollout or a rollback
\* ends the serving of an app that has a completed deployment, unless the
\* strategy is to replace it.
THEOREM FailedDeploysTakeNothingDown == Spec /\ "delete" \notin Kinds /\ []OneAtATime => NeverDown
<1> SUFFICES ASSUME "delete" \notin Kinds PROVE Spec /\ []OneAtATime => NeverDown
  OBVIOUS
<1>1. TypeOK /\ OwnershipInv /\ MutexInv /\ OneAtATime /\ NeverInv /\ [Next]_vars => NeverInv'
  BY NeverInductive
<1>2. Init => NeverInv
  BY DEF Init, NeverInv, NeverKnows, Deletes, Exists, Resting
<1>3. TypeOK /\ OwnershipInv /\ OneAtATime /\ NeverInv /\ [Next]_vars
        => [\A a \in Apps : /\ Working(a) /\ ~Replacing(a)
                            /\ "crash" \notin faults
                            /\ \A o \in Ops : /\ op[o].pc # "route_apply"
                                              /\ op[o].pc = "apply" => op[o].app = a
                            => Serving(a)']_vars
  <2> SUFFICES ASSUME TypeOK, OwnershipInv, OneAtATime, NeverInv, Next, NEW a \in Apps,
                      Working(a), ~Replacing(a), "crash" \notin faults,
                      \A o \in Ops : /\ op[o].pc # "route_apply"
                                     /\ op[o].pc = "apply" => op[o].app = a
               PROVE  Serving(a)'
    OBVIOUS
  <2>1. ASSUME NEW o \in Ops, Step(o) PROVE Serving(a)'
    BY <2>1, StepKeepsServing
  <2>2. CASE UNCHANGED <<ctr, live>>
    BY <2>2 DEF Working, Serving
  <2>3. ASSUME NEW o \in Ops, NEW b \in Apps, Begins(o, b) PROVE Serving(a)'
    BY <2>2, <2>3, BeginsIsLocal
  <2>4. phase = "up" /\ ~Crash /\ ~Boot
    BY DEF NeverInv, Crash, Boot, CleanupOrphans, SweepStuck, BootRoutes
  <2> QED
    BY <2>1, <2>2, <2>3, <2>4 DEF Next, PatchStrategy
<1>4. OwnershipInv /\ RoutesExclusive => MutexInv
  BY DEF OwnershipInv, MutexInv
<1> QED
  BY <1>1, <1>2, <1>3, <1>4, Ownership, RouteUpdatesExclude, PTL DEF Spec, NeverDown

----------------------------------------------------------------------------
(* What is still deploying at rest runs or was replaced                    *)

\* The rows of the app other than number k: one still "deploying" runs, or a
\* later one tells what became of it.
Covered(a, k) == LET running == Running(a) \ {k} IN
    \A n \in Nums \ {k} : dep[a][n] = "deploying" =>
        \/ n \in Running(a)
        \/ \E m \in Nums \ {k} : m > n /\ dep[a][m] = IF running = {} THEN "failed" ELSE "healthy"

\* What a rollout knows of its container and of the rows and the containers
\* before it.
StuckKnows(o) == LET a == op[o].app  k == op[o].num IN
    /\ \A m \in Nums : dep[a][m] # "none" => m <= k
    /\ op[o].pc \in {"mark", "prepare", "clear_first", "clearing_first", "create",
                     "fail_finish"} => ctr[a][k] = "absent"
    /\ op[o].pc = "start" => ctr[a][k] = "created"
    /\ op[o].pc \in {"probe", "scheme", "running", "lock", "apply", "clear", "clearing",
                     "finish"} => ctr[a][k] \in Schemes
    /\ op[o].pc = "clearing_first" => Others(a, k) \subseteq op[o].todo
    /\ op[o].pc \in {"clearing_first", "clearing"} => k \notin op[o].todo
    /\ op[o].pc \in {"mark", "prepare", "clear_first", "create", "start", "probe", "scheme",
                     "running", "lock", "apply", "fail_remove", "fail_finish"} =>
          Covered(a, k) \/ (Running(a) \ {k} = {})
Owned(a) == \E o \in Ops : OwnsRow(o) /\ op[o].app = a

StuckInv == Bookkept =>
    /\ \A o \in Ops : ~Deletes(o)
    /\ \A a \in Apps : Exists(a)
    /\ \A a \in Apps, m \in Nums : ctr[a][m] # "absent" => dep[a][m] # "none"
    /\ phase = "routes" => \A a \in Apps, n \in Nums : dep[a][n] = "deploying" => n \in Running(a)
    /\ phase = "up" => \A a \in Apps : ~Owned(a) => Covered(a, 0)
    /\ \A o \in Ops : OwnsRow(o) => StuckKnows(o)

\* It is enough to look at the operation that takes the step, and its app.
LEMMA KeepsStuck ==
    ASSUME TypeOK, OneAtATime, StuckInv, NEW o \in Ops, Step(o), faults' = faults, Bookkept,
           NEW a \in Apps, a = op[o].app,
           Exists(a)', ~Deletes(o)',
           \A m \in Nums : ctr'[a][m] # "absent" => dep'[a][m] # "none",
           Covered(a, 0)' \/ (OwnsRow(o)' /\ op'[o].app = a),
           OwnsRow(o)' => StuckKnows(o)'
    PROVE  StuckInv'
<1>0. /\ \A p \in Ops \ {o} : op'[p] = op[p]
      /\ phase = "up" /\ phase' = "up" /\ Busy(o)
      /\ \A p \in Ops : op[p].app \in Apps
  BY StepIsLocal, StepsAreBusy DEF TypeOK, Operation
<1>1. ASSUME NEW b \in Apps, b # a
      PROVE  /\ status'[b] = status[b] /\ dep'[b] = dep[b] /\ ctr'[b] = ctr[b]
             /\ Running(b)' = Running(b)
             /\ \A k : (Covered(b, k)' <=> Covered(b, k)) /\ Others(b, k)' = Others(b, k)
  <2>1. status'[b] = status[b] /\ dep'[b] = dep[b] /\ ctr'[b] = ctr[b]
    BY <1>1, OwnContainers, OwnRecords
  <2>2. Running(b)' = Running(b)
    BY <2>1 DEF Running
  <2> QED
    BY <2>1, <2>2 DEF Covered, Others
<1>2. ASSUME NEW p \in Ops PROVE ~Deletes(p)' /\ (OwnsRow(p)' => StuckKnows(p)')
  <2>1. CASE p = o
    BY <2>1
  <2>2. CASE p # o /\ op[p].pc = "idle"
    BY <1>0, <2>2 DEF Deletes, OwnsRow
  <2>3. CASE p # o /\ op[p].pc # "idle"
    <3>1. PICK b \in Apps \ {a} : b = op[p].app
      BY <1>0, <2>3 DEF OneAtATime, Busy
    <3>2. op'[p] = op[p] /\ (OwnsRow(p)' <=> OwnsRow(p))
      BY <1>0, <2>3 DEF OwnsRow
    <3>3. ~Deletes(p) /\ (OwnsRow(p) => StuckKnows(p))
      BY DEF StuckInv
    <3>4. StuckKnows(p) => StuckKnows(p)'
      BY <1>1, <3>1, <3>2 DEF StuckKnows
    <3> QED
      BY <3>2, <3>3, <3>4 DEF Deletes
  <2> QED
    BY <2>1, <2>2, <2>3
<1>3. ASSUME NEW b \in Apps, ~Owned(b)' PROVE Covered(b, 0)'
  <2>1. CASE b = a
    BY <1>3, <2>1 DEF Owned
  <2>2. CASE b # a
    <3>1. ~Owned(b)
      BY <1>0, <1>3, <2>2 DEF Owned, OwnsRow
    <3> QED
      BY <1>0, <1>1, <2>2, <3>1 DEF StuckInv
  <2> QED
    BY <2>1, <2>2
<1>4. \A b \in Apps : Exists(b)' /\ \A m \in Nums : ctr'[b][m] # "absent" => dep'[b][m] # "none"
  BY <1>1 DEF StuckInv, Exists
<1> QED
  BY <1>0, <1>2, <1>3, <1>4 DEF StuckInv

\* What StuckInv says of the operation that takes a step.
LEMMA StuckOf ==
    ASSUME TypeOK, OwnershipInv, OneAtATime, StuckInv, Bookkept, NEW o \in Ops, Step(o),
           NEW a \in Apps, a = op[o].app, NEW k, k = op[o].num
    PROVE  /\ Exists(a) /\ ~Deletes(o)
           /\ \A m \in Nums : ctr[a][m] # "absent" => dep[a][m] # "none"
           /\ ~OwnsRow(o) => Covered(a, 0)
           /\ OwnsRow(o) => k \in Nums /\ dep[a][k] = "deploying" /\ StuckKnows(o)
<1>1. phase = "up"
  BY StepIsLocal
<1>2. ~OwnsRow(o) => ~Owned(a)
  BY StepsAreBusy DEF Owned, OwnsRow, OneAtATime, Busy
<1>3. OwnsRow(o) => k \in Nums /\ dep[a][k] = "deploying"
  BY DEF StuckInv, OwnershipInv, NumsOwned, RowsOwned
<1> QED
  BY <1>1, <1>2, <1>3 DEF StuckInv

\* Steps that change neither a row nor a container.
LEMMA RollingKeepsStuck ==
    ASSUME TypeOK, OwnershipInv, OneAtATime, StuckInv, Bookkept, NEW o \in Ops, faults' = faults, Step(o),
           \/ MarkDeploying(o) \/ Prepare(o) \/ Probe(o) \/ SetScheme(o) \/ MarkRunning(o)
           \/ CutOver(o) \/ ListOld(o, "clear_first", "clearing_first")
           \/ ListOld(o, "clear", "clearing")
    PROVE  StuckInv'
<1>a. PICK a \in Apps : a = op[o].app
  BY DEF TypeOK, Operation
<1>k. PICK k : k = op[o].num
  OBVIOUS
<1>0. op[o] \in Operation /\ op \in [Ops -> Operation]
  BY DEF TypeOK
<1> USE DEF At, Failing, Goto
<1>1. OwnsRow(o) /\ OwnsRow(o)' /\ op'[o].app = a /\ op'[o].num = k
  BY <1>0, <1>a, <1>k DEF MarkDeploying, Prepare, Probe, SetScheme, MarkRunning, CutOver, LockRoutes,
     ApplyRoutes, ApplyFails, ListOld, OwnsRow, Operation
<1>2. ctr' = ctr /\ dep' = dep /\ "list" \notin faults
  BY DEF MarkDeploying, Prepare, Probe, SetScheme, MarkRunning, CutOver, LockRoutes,
     ApplyRoutes, ApplyFails, ListOld, Bookkept, storeVars
<1>3. /\ StuckKnows(o) /\ Exists(a) /\ k \in Nums
      /\ \A m \in Nums : ctr[a][m] # "absent" => dep[a][m] # "none"
  BY <1>1, <1>a, <1>k, StuckOf
<1>4. Exists(a)'
  BY <1>0, <1>3 DEF MarkDeploying, Prepare, Probe, SetScheme, MarkRunning, CutOver, LockRoutes,
     ApplyRoutes, ApplyFails, ListOld, storeVars, WithStatus, Exists, TypeOK
<1>5. /\ Running(a)' = Running(a) /\ Others(a, k)' = Others(a, k)
      /\ Covered(a, k)' <=> Covered(a, k)
  BY <1>2 DEF Running, Others, Covered
<1>6. /\ op'[o].pc \in {"mark", "prepare", "clear_first", "clearing_first", "create", "fail_finish"}
            => op[o].pc \in {"mark", "prepare", "clear_first"}
      /\ op'[o].pc # "start"
      /\ op'[o].pc \in {"probe", "scheme", "running", "lock", "apply", "clear", "clearing", "finish"}
            => \/ op[o].pc \in {"scheme", "running", "lock", "apply", "clear"}
               \/ op[o].pc = "probe" /\ ctr[a][k] \in Schemes
      /\ op'[o].pc \in {"clearing_first", "clearing"} => op'[o].todo = Others(a, k)
      /\ op'[o].pc \in {"mark", "prepare", "clear_first", "create", "start", "probe", "scheme",
                        "running", "lock", "apply", "fail_remove", "fail_finish"}
            => op[o].pc \in {"mark", "prepare", "probe", "scheme", "running", "lock", "apply"}
  BY <1>0, <1>2, <1>a, <1>k
  DEF MarkDeploying, Prepare, Probe, SetScheme, MarkRunning, CutOver, LockRoutes, ApplyRoutes,
      ApplyFails, ListOld, Operation
<1>7. k \notin Others(a, k)
  BY DEF Others
<1>8. StuckKnows(o)'
  BY <1>1, <1>2, <1>3, <1>5, <1>6, <1>7, <1>a, <1>k DEF StuckKnows
<1> QED
  BY <1>1, <1>2, <1>3, <1>4, <1>8, <1>a, KeepsStuck DEF Deletes, OwnsRow

\* Steps that change containers.
LEMMA ContainersKeepStuck ==
    ASSUME TypeOK, OwnershipInv, OneAtATime, StuckInv, Bookkept, NEW o \in Ops, faults' = faults, Step(o),
           \/ Create(o) \/ Start(o) \/ FailRemove(o)
           \/ RemoveListed(o, "clearing_first", "create") \/ RemoveListed(o, "clearing", "finish")
    PROVE  StuckInv'
<1>a. PICK a \in Apps : a = op[o].app
  BY DEF TypeOK, Operation
<1>k. PICK k : k = op[o].num
  OBVIOUS
<1>0. /\ op[o] \in Operation /\ op \in [Ops -> Operation] /\ ctr \in [Apps -> [Nums -> CtrStates]]
      /\ "remove" \notin faults
  BY DEF TypeOK, Bookkept
<1> USE DEF At, Failing, Goto
<1>1. OwnsRow(o)
  BY DEF Create, Start, FailRemove, RemoveListed, OwnsRow
<1>2. status' = status /\ dep' = dep
  BY DEF Create, Start, FailRemove, RemoveListed, storeVars
<1>3. /\ StuckKnows(o) /\ Exists(a) /\ k \in Nums /\ dep[a][k] = "deploying"
      /\ \A m \in Nums : ctr[a][m] # "absent" => dep[a][m] # "none"
  BY <1>1, <1>a, <1>k, StuckOf
\* The rows are the same, and so is the operation's.
<1>4. ASSUME OwnsRow(o)', op'[o].app = a, StuckKnows(o)',
             \A m \in Nums : ctr'[a][m] # "absent" => ctr[a][m] # "absent" \/ m = k
      PROVE  StuckInv'
  <2>1. \A m \in Nums : ctr'[a][m] # "absent" => dep'[a][m] # "none"
    BY <1>2, <1>3, <1>4
  <2>2. Exists(a)' /\ ~Deletes(o)'
    BY <1>2, <1>3, <1>4 DEF Exists, Deletes, OwnsRow
  <2> QED
    BY <1>4, <1>a, <2>1, <2>2, KeepsStuck
<1>5. CASE Create(o) \/ Start(o) \/ FailRemove(o)
  <2>1. /\ OwnsRow(o)' /\ op'[o].app = a /\ op'[o].num = k
        /\ op'[o].pc \in {"start", "probe", "fail_remove", "fail_finish"}
        /\ op[o].pc \in {"create", "start", "fail_remove"}
        /\ \A m \in Nums \ {k} : ctr'[a][m] = ctr[a][m]
    BY <1>0, <1>5, <1>a, <1>k DEF Create, Start, FailRemove, OwnsRow, Operation
  <2>2. /\ op'[o].pc = "start" => ctr'[a][k] = "created"
        /\ op'[o].pc = "probe" => ctr'[a][k] = "v2"
        /\ op'[o].pc = "fail_finish" => ctr'[a][k] = "absent"
    BY <1>0, <1>3, <1>5, <1>a, <1>k
    DEF Create, Start, FailRemove, StuckKnows, Operation
  <2>3. Running(a)' \ {k} = Running(a) \ {k}
    BY <2>1 DEF Running
  <2>4. Covered(a, k)' <=> Covered(a, k)
    BY <1>2, <2>3 DEF Covered
  <2>5. Covered(a, k) \/ (Running(a) \ {k} = {})
    BY <1>3, <1>a, <1>k, <2>1 DEF StuckKnows
  <2>6. \A m \in Nums : dep'[a][m] # "none" => m <= k
    BY <1>2, <1>3, <1>a, <1>k DEF StuckKnows
  <2>7. StuckKnows(o)'
    BY <2>1, <2>2, <2>3, <2>4, <2>5, <2>6 DEF StuckKnows, Schemes
  <2> QED
    BY <1>4, <2>1, <2>7
<1>6. ASSUME NEW each, NEW then, RemoveListed(o, each, then),
             <<each, then>> \in {<<"clearing_first", "create">>, <<"clearing", "finish">>}
      PROVE  StuckInv'
  <2>1. /\ op[o].pc = each /\ k \notin op[o].todo
        /\ each = "clearing_first" => Others(a, k) \subseteq op[o].todo /\ ctr[a][k] = "absent"
        /\ each = "clearing" => ctr[a][k] \in Schemes
        /\ \A m \in Nums : dep'[a][m] # "none" => m <= k
    BY <1>2, <1>3, <1>6, <1>a, <1>k DEF RemoveListed, StuckKnows
  <2>2. CASE \E m \in op[o].todo : /\ \E s \in Leftovers(ctr[a][m]) : ctr' = [ctr EXCEPT ![a][m] = s]
                                   /\ op' = [op EXCEPT ![o].todo = @ \ {m}]
    <3>1. PICK m \in op[o].todo : /\ ctr' = [ctr EXCEPT ![a][m] = "absent"]
                                  /\ op' = [op EXCEPT ![o].todo = @ \ {m}]
      BY <1>0, <2>2 DEF Leftovers
    <3>2. m \in Nums /\ m # k
      BY <1>0, <2>1, <3>1 DEF Operation
    <3>3. /\ op'[o].pc = each /\ op'[o].app = a /\ op'[o].num = k
          /\ op'[o].todo = op[o].todo \ {m}
      BY <1>0, <1>a, <1>k, <2>1, <3>1 DEF Operation
    <3>4. /\ \A i \in Nums \ {m} : ctr'[a][i] = ctr[a][i]
          /\ ctr'[a][m] = "absent"
      BY <1>0, <3>1, <3>2
    <3>5. Others(a, k)' = Others(a, k) \ {m}
      BY <3>4 DEF Others
    <3>6. StuckKnows(o)'
      BY <1>3, <1>6, <2>1, <3>2, <3>3, <3>4, <3>5 DEF StuckKnows
    <3> QED
      BY <1>4, <1>6, <3>3, <3>4, <3>6 DEF OwnsRow
  <2>3. CASE op[o].todo = {} /\ Goto(o, then) /\ UNCHANGED ctr
    <3>1. op'[o].pc = then /\ op'[o].app = a /\ op'[o].num = k
      BY <1>0, <1>a, <1>k, <2>3 DEF Operation
    <3>2. then = "create" => (Running(a) \ {k})' = {}
      BY <1>6, <2>1, <2>3 DEF Running, Others, Schemes
    <3>3. StuckKnows(o)'
      BY <1>6, <2>1, <2>3, <3>1, <3>2 DEF StuckKnows
    <3> QED
      BY <1>4, <1>6, <2>3, <3>1, <3>3 DEF OwnsRow
  <2> QED
    BY <1>6, <1>a, <2>2, <2>3 DEF RemoveListed
<1> QED
  BY <1>5, <1>6

LEMMA StepKeepsStuck ==
    ASSUME TypeOK, OwnershipInv, OneAtATime, StuckInv, NEW o \in Ops, Step(o), faults' = faults
    PROVE  StuckInv'
<1> SUFFICES ASSUME Bookkept PROVE StuckInv'
  BY DEF StuckInv, Bookkept
<1>a. PICK a \in Apps : a = op[o].app
  BY DEF TypeOK, Operation
<1>k. PICK k : k = op[o].num
  OBVIOUS
<1>0. /\ op[o] \in Operation /\ op \in [Ops -> Operation]
      /\ dep \in [Apps -> [Nums -> DepStatuses]] /\ status \in [Apps -> Statuses]
      /\ "logged" \notin faults
  BY DEF TypeOK, Bookkept
<1>1. /\ Exists(a) /\ ~Deletes(o)
      /\ \A m \in Nums : ctr[a][m] # "absent" => dep[a][m] # "none"
      /\ ~OwnsRow(o) => Covered(a, 0)
      /\ OwnsRow(o) => k \in Nums /\ dep[a][k] = "deploying" /\ StuckKnows(o)
  BY <1>a, <1>k, StuckOf
<1>z. \A m \in Nums : m \in Nat /\ m # 0
  BY RolloutAssumption DEF Nums
<1> USE DEF At, Failing, Goto
\* Steps of an operation that has no row, before and after.
<1>2. CASE RefreshRoutes(o) \/ FailList(o) \/ FailStatus(o) \/ (CreateRow(o) /\ Return(o) /\ UNCHANGED dep)
  <2>1. /\ ctr' = ctr /\ dep' = dep /\ ~OwnsRow(o) /\ ~OwnsRow(o)' /\ ~Deletes(o)'
    BY <1>0, <1>2 DEF RefreshRoutes, LockRoutes, ApplyRoutes, ApplyFails, FailList, FailStatus, CreateRow,
       Return, Resting, OwnsRow, Deletes, storeVars, Operation
  <2>2. Exists(a)'
    BY <1>0, <1>1, <1>2, <1>a DEF RefreshRoutes, LockRoutes, ApplyRoutes, ApplyFails, FailList, FailStatus,
       CreateRow, storeVars, WithStatus, Exists, Operation
  <2>3. Covered(a, 0)'
    BY <1>1, <2>1 DEF Covered, Running
  <2> QED
    BY <1>1, <1>a, <2>1, <2>2, <2>3, KeepsStuck
\* The row begins.
<1>3. ASSUME CreateRow(o), NEW n \in Nums, IsNextNumber(a, n),
             dep' = [dep EXCEPT ![a][n] = "deploying"],
             op' = [op EXCEPT ![o].pc = "mark", ![o].num = n]
      PROVE  StuckInv'
  <2>1. dep[a][n] = "none" /\ \A m \in Nums : dep[a][m] # "none" => m < n
    BY <1>3, <1>z DEF IsNextNumber
  <2>2. /\ op'[o].pc = "mark" /\ op'[o].num = n /\ op'[o].app = a
        /\ ctr' = ctr /\ status' = status
    BY <1>0, <1>3, <1>a DEF CreateRow, Operation
  <2>3. /\ dep'[a][n] = "deploying"
        /\ \A m \in Nums \ {n} : dep'[a][m] = dep[a][m]
    BY <1>0, <1>3
  <2>4. ctr[a][n] = "absent"
    BY <1>1, <2>1
  <2>5. ~OwnsRow(o)
    BY <1>3 DEF CreateRow, OwnsRow
  <2>6. Running(a)' = Running(a) /\ n \notin Running(a)
    BY <2>2, <2>4 DEF Running, Schemes
  <2>7. Covered(a, n)'
    <3>1. Covered(a, 0)
      BY <1>1, <2>5
    <3> SUFFICES ASSUME NEW i \in Nums \ {n}, dep[a][i] = "deploying"
                 PROVE  \/ i \in Running(a)
                        \/ \E m \in Nums \ {n} : m > i /\ dep[a][m] =
                               IF Running(a) \ {n} = {} THEN "failed" ELSE "healthy"
      BY <2>3, <2>6 DEF Covered
    <3>2. Running(a) \ {n} = Running(a) /\ Running(a) \ {0} = Running(a)
      BY <1>z, <2>6 DEF Running
    <3>3. CASE i \in Running(a)
      BY <3>3
    <3>4. CASE \E m \in Nums : m > i /\ dep[a][m] = IF Running(a) = {} THEN "failed" ELSE "healthy"
      BY <2>1, <3>2, <3>4
    <3> QED
      BY <1>z, <3>1, <3>2, <3>3, <3>4 DEF Covered
  <2>8. StuckKnows(o)'
    <3>1. \A m \in Nums : dep'[a][m] # "none" => m <= n
      BY <1>z, <2>1, <2>3
    <3> QED
      BY <2>2, <2>4, <2>7, <3>1 DEF StuckKnows
  <2>9. Exists(a)' /\ ~Deletes(o)' /\ OwnsRow(o)'
    BY <1>1, <2>2 DEF Exists, Deletes, OwnsRow
  <2>10. \A m \in Nums : ctr'[a][m] # "absent" => dep'[a][m] # "none"
    BY <1>1, <2>2, <2>3
  <2> QED
    BY <1>a, <2>2, <2>8, <2>9, <2>10, KeepsStuck
\* The row ends.
<1>4. CASE Finish(o) \/ FailFinish(o)
  <2> DEFINE s == IF op[o].pc = "finish" THEN "healthy" ELSE "failed"
  <2>1. /\ OwnsRow(o) /\ ~OwnsRow(o)' /\ ~Deletes(o)' /\ ctr' = ctr /\ status' = status
        /\ op[o].pc \in {"finish", "fail_finish"}
    BY <1>0, <1>4 DEF Finish, FailFinish, Return, Resting, OwnsRow, Deletes, Operation
  <2>2. /\ k \in Nums /\ dep[a][k] = "deploying" /\ StuckKnows(o)
    BY <1>1, <2>1
  <2>3. dep'[a][k] = s /\ \A m \in Nums \ {k} : dep'[a][m] = dep[a][m]
    BY <1>0, <1>4, <1>a, <1>k, <2>2 DEF Finish, FailFinish, WithDep
  <2>4. Running(a)' = Running(a) /\ Running(a) \ {0} = Running(a)
    BY <1>z, <2>1 DEF Running
  <2>5. \A m \in Nums : dep[a][m] # "none" => m <= k
    BY <1>a, <1>k, <2>2 DEF StuckKnows
  <2>6. IF s = "healthy" THEN k \in Running(a)
        ELSE k \notin Running(a) /\ (Covered(a, k) \/ Running(a) \ {k} = {})
    BY <1>a, <1>k, <2>1, <2>2 DEF StuckKnows, Running, Schemes
  <2>7. Covered(a, 0)'
    <3> SUFFICES ASSUME NEW i \in Nums, dep'[a][i] = "deploying"
                 PROVE  \/ i \in Running(a)
                        \/ \E m \in Nums : m > i /\ dep'[a][m] =
                               IF Running(a) = {} THEN "failed" ELSE "healthy"
      BY <1>z, <2>4 DEF Covered
    <3>1. i # k /\ dep[a][i] = "deploying" /\ k > i
      BY <1>z, <2>2, <2>3, <2>5
    <3>2. CASE s = "healthy" \/ Running(a) = {}
      BY <2>2, <2>3, <2>6, <3>1, <3>2
    <3>3. CASE s # "healthy" /\ Running(a) # {}
      <4>1. Running(a) \ {k} = Running(a) /\ Covered(a, k)
        BY <2>6, <3>3
      <4> QED
        BY <2>2, <2>3, <3>1, <3>3, <4>1 DEF Covered
    <3> QED
      BY <3>2, <3>3
  <2>8. Exists(a)' /\ \A m \in Nums : ctr'[a][m] # "absent" => dep'[a][m] # "none"
    BY <1>1, <2>1, <2>3 DEF Exists
  <2> QED
    BY <1>a, <2>1, <2>7, <2>8, KeepsStuck
<1>5. CASE Delete(o)
  BY <1>1, <1>5 DEF Delete, DeleteList, RemoveListed, LockRoutes, ApplyRoutes, ApplyFails,
     DeleteRow, Deletes
<1>6. CASE CreateRow(o)
  BY <1>2, <1>3, <1>6, <1>a DEF CreateRow
<1> QED
  BY <1>2, <1>4, <1>5, <1>6, RollingKeepsStuck, ContainersKeepStuck
  DEF Step, Deploying, ClearFirst, Clear, Fail

\* The boot after a crash: its sweep finishes every row that does not run.
LEMMA BootKeepsStuck ==
    ASSUME TypeOK, OwnershipInv, StuckInv, faults' = faults, Boot
    PROVE  StuckInv'
<1> SUFFICES ASSUME Bookkept PROVE StuckInv'
  BY DEF StuckInv, Bookkept
<1>0. /\ faults \cap {"logged", "remove", "list"} = {}
      /\ ctr \in [Apps -> [Nums -> CtrStates]] /\ dep \in [Apps -> [Nums -> DepStatuses]]
  BY DEF Bookkept, TypeOK
<1>1. /\ op' = op /\ phase # "up"
      /\ \A o \in Ops : ~Busy(o)
  BY DEF Boot, CleanupOrphans, SweepStuck, BootRoutes, OwnershipInv, Quiet
<1>2. \A o \in Ops : ~Deletes(o)' /\ ~OwnsRow(o)'
  BY <1>1 DEF Busy, Deletes, OwnsRow
<1>3. /\ \A a \in Apps : Exists(a)
      /\ \A a \in Apps, m \in Nums : ctr[a][m] # "absent" => dep[a][m] # "none"
  BY DEF StuckInv
<1>4. CASE CleanupOrphans
  <2>1. phase' = "sweep" /\ dep' = dep /\ status' = status
    BY <1>4 DEF CleanupOrphans, storeVars
  <2>2. \A a \in Apps, m \in Nums : ctr'[a][m] # "absent" => ctr[a][m] # "absent"
    BY <1>0, <1>4 DEF CleanupOrphans, Orphans
  <2> QED
    BY <1>2, <1>3, <2>1, <2>2 DEF StuckInv, Exists
<1>5. CASE SweepStuck
  <2>1. phase' = "routes" /\ ctr' = ctr
    BY <1>5 DEF SweepStuck
  <2>2. /\ \A a \in Apps, n \in Nums :
             dep'[a][n] = IF n \in Stuck(a) THEN "failed" ELSE dep[a][n]
        /\ \A a \in Apps : status'[a] \in {status[a], "error", "running"}
    BY <1>0, <1>5 DEF SweepStuck, SweptStatuses
  <2>3. \A a \in Apps, n \in Nums : dep'[a][n] = "deploying" => n \in Running(a)'
    BY <2>1, <2>2 DEF Stuck, Running
  <2>4. \A a \in Apps, n \in Nums : dep[a][n] # "none" => dep'[a][n] # "none"
    BY <2>2
  <2>5. \A a \in Apps : Exists(a)'
    BY <1>3, <2>2 DEF Exists
  <2> QED
    BY <1>2, <1>3, <2>1, <2>3, <2>4, <2>5 DEF StuckInv
<1>6. CASE BootRoutes
  <2>1. phase = "routes" /\ phase' \in {"up", "gc"} /\ UNCHANGED <<status, dep, ctr>>
    BY <1>6 DEF BootRoutes, storeVars
  <2>2. \A a \in Apps, n \in Nums : dep[a][n] = "deploying" => n \in Running(a)
    BY <2>1 DEF StuckInv
  <2>3. \A a \in Apps : Covered(a, 0)'
    BY <2>1, <2>2 DEF Covered, Running
  <2> QED
    BY <1>2, <1>3, <2>1, <2>3 DEF StuckInv, Exists
<1> QED
  BY <1>4, <1>5, <1>6 DEF Boot

LEMMA StuckInductive ==
    ASSUME "delete" \notin Kinds
    PROVE  TypeOK /\ OwnershipInv /\ OneAtATime /\ StuckInv /\ [Next]_vars => StuckInv'
<1> SUFFICES ASSUME TypeOK, OwnershipInv, OneAtATime, StuckInv, [Next]_vars, Bookkept
             PROVE  StuckInv'
  BY DEF StuckInv, Bookkept, Next, vars
<1>1. ASSUME NEW o \in Ops, Step(o), faults' = faults PROVE StuckInv'
  BY <1>1, StepKeepsStuck
<1>2. ASSUME NEW o \in Ops, NEW b \in Apps, Begins(o, b) PROVE StuckInv'
  <2>1. op'[o].pc \in {"row", "route_lock"}
    BY <1>2 DEF Begins, BeginDeploy, BeginRollback, BeginRoutes, BeginDelete, Begin, TypeOK, Operation
  <2>2. /\ op[o].pc = "idle" /\ \A p \in Ops \ {o} : op'[p] = op[p]
        /\ UNCHANGED <<status, dep, ctr, phase>>
    BY <1>2, BeginsIsLocal DEF storeVars
  <2>3. \A c \in Apps : /\ Running(c)' = Running(c)
                        /\ \A k : (Covered(c, k)' <=> Covered(c, k)) /\ Others(c, k)' = Others(c, k)
    BY <2>2 DEF Running, Covered, Others
  <2>4. \A p \in Ops : ~Deletes(p)' /\ (OwnsRow(p)' <=> OwnsRow(p))
    BY <2>1, <2>2 DEF StuckInv, Deletes, OwnsRow
  <2>5. ASSUME NEW p \in Ops, OwnsRow(p) PROVE StuckKnows(p)'
    <3>1. StuckKnows(p) /\ op'[p] = op[p]
      BY <2>2, <2>5 DEF StuckInv, OwnsRow
    <3>2. PICK c \in Apps : c = op[p].app
      BY DEF TypeOK, Operation
    <3> QED
      BY <2>2, <2>3, <3>1, <3>2 DEF StuckKnows
  <2>6. ASSUME NEW c \in Apps PROVE Owned(c)' <=> Owned(c)
    BY <2>1, <2>2 DEF Owned, OwnsRow
  <2> QED
    BY <2>2, <2>3, <2>4, <2>5, <2>6 DEF StuckInv, Exists
<1>3. CASE UNCHANGED <<status, dep, ctr, phase, op>>
  BY <1>3 DEF StuckInv, StuckKnows, Covered, Owned, Running, Others, Deletes, OwnsRow, Exists
<1>4. CASE Crash
  BY <1>4 DEF Crash, StuckInv, Deletes, OwnsRow, Resting, Exists, storeVars
<1>5. CASE Boot /\ faults' = faults
  BY <1>5, BootKeepsStuck
<1> QED
  BY <1>1, <1>2, <1>3, <1>4, <1>5 DEF Next, PatchStrategy, vars

LEMMA StuckInitially == Init => StuckInv
<1> SUFFICES ASSUME Init PROVE StuckInv
  OBVIOUS
<1>1. \A o \in Ops : ~OwnsRow(o) /\ ~Deletes(o)
  BY DEF Init, Resting, OwnsRow, Deletes
<1>2. ASSUME NEW a \in Apps, NEW m \in Nums
      PROVE  /\ dep[a][m] # "deploying"
             /\ ctr[a][m] # "absent" => dep[a][m] # "none"
  BY DEF Init
<1> QED
  BY <1>1, <1>2 DEF Init, StuckInv, Exists, Covered

\* As long as the operations on an app come one after the other and none is a
\* delete, and whatever crashes and failures the operations see: at rest a
\* row is still "deploying" only if its container runs or a later rollout has
\* replaced it since.
THEOREM StuckRowsAreFinished == Spec /\ "delete" \notin Kinds /\ []OneAtATime => []StuckRowsRun
<1> SUFFICES ASSUME "delete" \notin Kinds PROVE Spec /\ []OneAtATime => []StuckRowsRun
  OBVIOUS
<1>1. TypeOK /\ OwnershipInv /\ OneAtATime /\ StuckInv /\ [Next]_vars => StuckInv'
  BY StuckInductive
<1>2. StuckInv => StuckRowsRun
  <2> SUFFICES ASSUME StuckInv, AtRest, Bookkept, NEW a \in Apps, NEW n \in Nums, dep[a][n] = "deploying"
               PROVE  \/ n \in Running(a)
                      \/ \E m \in Nums : m > n /\ dep[a][m] =
                             IF Running(a) = {} THEN "failed" ELSE "healthy"
    BY DEF StuckRowsRun
  <2>1. Covered(a, 0)
    BY DEF StuckInv, AtRest, Owned, OwnsRow, Busy
  <2>2. 0 \notin Nums /\ Running(a) \ {0} = Running(a)
    BY RolloutAssumption DEF Nums, Running
  <2> QED
    BY <2>1, <2>2 DEF Covered
<1> QED
  BY <1>1, <1>2, StuckInitially, Ownership, PTL DEF Spec

----------------------------------------------------------------------------
(* No crash and no boot takes down an app it can recover                   *)

\* A rollout has created its row and not returned yet.
Moves(o) == Rolls(o) /\ op[o].pc # "row"
Moving(a) == \E o \in Ops : Moves(o) /\ op[o].app = a

\* What the store says of an app agrees with its containers ...
Steady(a) ==
    /\ \A m \in Nums : ctr[a][m] \in {"absent", "created", "v2"}
    /\ LatestHealthy(a) # {} => scheme[a] = "v2"
    /\ status[a] = "error" => Running(a) = {}
    /\ status[a] = "created" => LatestHealthy(a) = {}

\* ... and an app that has a completed deployment is left "deploying" only by
\* a rollout all of whose rows are finished.
Calm(a) == status[a] = "deploying" /\ LatestHealthy(a) # {} =>
              \A n \in Nums : dep[a][n] # "deploying"

RestartKnows(o) == LET a == op[o].app IN
    /\ op[o].pc \in {"prepare", "clear_first", "clearing_first", "create", "start", "probe",
                     "scheme", "running"} => status[a] = "deploying"
    /\ op[o].pc \in {"lock", "apply", "clear", "clearing", "finish"} => status[a] = "running"
    /\ op[o].pc \in {"running", "lock", "apply", "clear", "clearing", "finish"} =>
          scheme[a] = "v2"
    /\ op[o].pc \in {"clear_first", "clearing_first"} => op[o].plan = "replace"
    /\ op[o].pc \in {"apply", "route_apply"} => op[o].routes = Routes
    /\ op[o].pc \in {"fail_list", "fail_status"} => ctr[a][op[o].num] = "absent"
    /\ op[o].pc = "fail_status" /\ op[o].verdict = "error" => Running(a) = {}

RestartInv == Bookkept =>
    /\ \A a \in Apps : Steady(a)
    /\ phase \in {"sweep", "routes"} =>
          \A a \in Apps : LatestHealthy(a) # {} => Running(a) \subseteq LatestHealthy(a)
    /\ phase = "up" => \A a \in Apps : ~Moving(a) => Calm(a)
    /\ \A o \in Ops : RestartKnows(o)

\* It is enough to look at the operation that takes the step, and its app.
LEMMA KeepsRestart ==
    ASSUME TypeOK, Alone, RestartInv, NEW o \in Ops, Step(o), faults' = faults, Bookkept,
           NEW a \in Apps, a = op[o].app,
           Steady(a)', Calm(a)' \/ (Moves(o)' /\ op'[o].app = a), RestartKnows(o)'
    PROVE  RestartInv'
<1>0. /\ \A p \in Ops \ {o} : op'[p] = op[p] /\ op[p].pc = "idle"
      /\ phase = "up" /\ phase' = "up"
  BY StepIsLocal, StepsAreBusy DEF Alone, Busy
<1>1. ASSUME NEW b \in Apps, b # a
      PROVE  Steady(b)' /\ Calm(b)'
  <2>1. status'[b] = status[b] /\ dep'[b] = dep[b] /\ ctr'[b] = ctr[b] /\ scheme'[b] = scheme[b]
    BY <1>1, OwnContainers, OwnRecords, OwnScheme
  <2>2. Running(b)' = Running(b) /\ LatestHealthy(b)' = LatestHealthy(b)
    BY <2>1 DEF Running, LatestHealthy
  <2>3. ~Moving(b)
    BY <1>0, <1>1 DEF Moving, Moves, Rolls, OwnsRow
  <2>4. Steady(b) /\ Calm(b)
    BY <1>0, <2>3 DEF RestartInv
  <2> QED
    BY <2>1, <2>2, <2>4 DEF Steady, Calm
<1>2. \A p \in Ops : RestartKnows(p)'
  BY <1>0 DEF RestartKnows
<1>3. ASSUME NEW b \in Apps, ~Moving(b)' PROVE Calm(b)'
  BY <1>1, <1>3 DEF Moving
<1>4. \A b \in Apps : Steady(b)'
  BY <1>1
<1> QED
  BY <1>0, <1>2, <1>3, <1>4 DEF RestartInv

\* What RestartInv says of the operation that takes a step.
LEMMA RestartOf ==
    ASSUME TypeOK, Alone, RestartInv, Bookkept, NEW o \in Ops, Step(o),
           NEW a \in Apps, a = op[o].app
    PROVE  Steady(a) /\ RestartKnows(o) /\ (~Moves(o) => Calm(a))
<1>1. phase = "up"
  BY StepIsLocal
<1>2. ~Moves(o) => ~Moving(a)
  BY StepsAreBusy DEF Moving, Moves, Rolls, OwnsRow, Alone, Busy
<1> QED
  BY <1>1, <1>2 DEF RestartInv

\* Steps that change neither a row nor a container nor the app.
LEMMA ReadingKeepsRestart ==
    ASSUME TypeOK, OwnershipInv, Alone, OneAtATime, StuckInv, RestartInv, Bookkept,
           NEW o \in Ops, faults' = faults, Step(o),
           \/ Prepare(o) \/ Probe(o) \/ CutOver(o) \/ FailList(o) \/ RefreshRoutes(o)
           \/ ListOld(o, "clear_first", "clearing_first") \/ ListOld(o, "clear", "clearing")
           \/ CreateRow(o) /\ Return(o) /\ UNCHANGED dep
    PROVE  RestartInv'
<1>a. PICK a \in Apps : a = op[o].app
  BY DEF TypeOK, Operation
<1>k. PICK k : k = op[o].num
  OBVIOUS
<1>0. op[o] \in Operation /\ op \in [Ops -> Operation]
  BY DEF TypeOK
<1> USE DEF At, Failing, Goto
<1>1. status' = status /\ scheme' = scheme /\ dep' = dep /\ ctr' = ctr /\ "list" \notin faults
  BY DEF Prepare, Probe, CutOver, LockRoutes, ApplyRoutes, ApplyFails, ListOld, FailList,
     RefreshRoutes, CreateRow, Bookkept, storeVars
<1>2. Steady(a) /\ RestartKnows(o) /\ (~Moves(o) => Calm(a)) /\ ~Deletes(o)
  BY <1>a, RestartOf DEF StuckInv
<1>3. /\ Running(a)' = Running(a) /\ LatestHealthy(a)' = LatestHealthy(a)
      /\ Routes' = Routes
  BY <1>1 DEF Running, LatestHealthy, Routes
<1>4. Steady(a)' /\ (Calm(a)' <=> Calm(a))
  BY <1>1, <1>2, <1>3 DEF Steady, Calm
<1>5. \/ ~Moves(o) /\ ~Moves(o)'
      \/ Moves(o) /\ Moves(o)' /\ op'[o].app = a
  BY <1>0, <1>a DEF Prepare, Probe, CutOver, LockRoutes, ApplyRoutes, ApplyFails, ListOld, FailList,
     RefreshRoutes, CreateRow, Return, Resting, Moves, Rolls, OwnsRow, Operation
<1>6. /\ op'[o].pc \in {"prepare", "clear_first", "clearing_first", "create", "start", "probe",
                        "scheme", "running"}
            => op[o].pc \in {"prepare", "clear_first", "probe"} /\ op'[o].app = a
      /\ op'[o].pc \in {"lock", "apply", "clear", "clearing", "finish"}
            => op[o].pc \in {"lock", "apply", "clear"} /\ op'[o].app = a
      /\ op'[o].pc \in {"clear_first", "clearing_first"} =>
            /\ op'[o].plan = op[o].plan
            /\ op[o].pc = "prepare" => op[o].plan = "replace"
            /\ op[o].pc \in {"prepare", "clear_first"}
      /\ op'[o].pc \notin {"running", "fail_list"}
      /\ op'[o].pc = "fail_status" =>
            /\ op[o].pc = "fail_list" /\ op'[o].app = a /\ op'[o].num = k
            /\ op'[o].verdict = "error" => Others(a, k) = {}
  BY <1>0, <1>1, <1>a, <1>k
  DEF Prepare, Probe, CutOver, LockRoutes, ApplyRoutes, ApplyFails, ListOld, FailList,
      RefreshRoutes, CreateRow, Return, Resting, Operation
<1>7. op'[o].pc \in {"apply", "route_apply"} => op'[o].routes = Routes'
  BY <1>2, <1>3, ReadRoutes DEF Applying
<1>8. ctr[a][k] = "absent" /\ Others(a, k) = {} => Running(a) = {}
  BY DEF Others, Running, Schemes
<1>9. RestartKnows(o)'
  <2>1. op'[o].pc \in {"prepare", "clear_first", "clearing_first", "create", "start", "probe",
                       "scheme", "running"} => op'[o].app = a /\ status'[a] = "deploying"
    BY <1>1, <1>2, <1>6, <1>a DEF RestartKnows
  <2>2. op'[o].pc \in {"running", "lock", "apply", "clear", "clearing", "finish"} =>
            op'[o].app = a /\ status'[a] = "running" /\ scheme'[a] = "v2"
    BY <1>1, <1>2, <1>6, <1>a DEF RestartKnows
  <2>3. op'[o].pc \in {"clear_first", "clearing_first"} => op'[o].plan = "replace"
    BY <1>2, <1>6 DEF RestartKnows
  <2>4. op'[o].pc = "fail_status" =>
            /\ op'[o].app = a /\ op'[o].num = k /\ ctr'[a][k] = "absent"
            /\ op'[o].verdict = "error" => Running(a)' = {}
    BY <1>1, <1>2, <1>3, <1>6, <1>8, <1>a, <1>k DEF RestartKnows
  <2> QED
    BY <1>6, <1>7, <2>1, <2>2, <2>3, <2>4 DEF RestartKnows
<1> QED
  BY <1>2, <1>4, <1>5, <1>9, <1>a, KeepsRestart

\* Steps that change the app row.
LEMMA AppRowKeepsRestart ==
    ASSUME TypeOK, OwnershipInv, Alone, OneAtATime, StuckInv, RestartInv, Bookkept,
           NEW o \in Ops, faults' = faults, Step(o),
           MarkDeploying(o) \/ SetScheme(o) \/ MarkRunning(o) \/ FailStatus(o)
    PROVE  RestartInv'
<1>a. PICK a \in Apps : a = op[o].app
  BY DEF TypeOK, Operation
<1>0. /\ op[o] \in Operation /\ op \in [Ops -> Operation]
      /\ status \in [Apps -> Statuses] /\ scheme \in [Apps -> Schemes]
  BY DEF TypeOK
<1> USE DEF At, Failing, Goto
<1>1. dep' = dep /\ ctr' = ctr /\ "logged" \notin faults
  BY DEF MarkDeploying, SetScheme, MarkRunning, FailStatus, Bookkept
<1>2. Steady(a) /\ RestartKnows(o) /\ Exists(a)
  BY <1>a, RestartOf DEF StuckInv
<1>3. Running(a)' = Running(a) /\ LatestHealthy(a)' = LatestHealthy(a)
  BY <1>1 DEF Running, LatestHealthy
<1>4. CASE FailStatus(o)
  <2>1. /\ op[o].pc = "fail_status" /\ op[o].verdict \in {"running", "error"}
        /\ status'[a] = op[o].verdict /\ scheme' = scheme /\ op'[o].pc = "idle"
    BY <1>0, <1>1, <1>2, <1>4, <1>a DEF FailStatus, WithStatus, Return, Resting, Operation
  <2>2. status'[a] = "error" => Running(a) = {}
    BY <1>2, <1>a, <2>1 DEF RestartKnows
  <2>3. Steady(a)' /\ Calm(a)'
    BY <1>1, <1>2, <1>3, <2>1, <2>2 DEF Steady, Calm
  <2>4. RestartKnows(o)'
    BY <2>1 DEF RestartKnows
  <2> QED
    BY <1>a, <2>3, <2>4, KeepsRestart
<1>5. CASE MarkDeploying(o) \/ SetScheme(o) \/ MarkRunning(o)
  <2>1. /\ Moves(o)' /\ op'[o].app = a
        /\ op'[o].pc \in {"prepare", "running", "lock", "fail_finish", "fail_remove"}
    BY <1>0, <1>5, <1>a DEF MarkDeploying, SetScheme, MarkRunning, Moves, Rolls, OwnsRow, Operation
  <2>2. /\ status'[a] \in {status[a], "deploying", "running"}
        /\ scheme'[a] \in {scheme[a], "v2"}
    BY <1>0, <1>5, <1>a DEF MarkDeploying, SetScheme, MarkRunning, WithStatus
  <2>3. Steady(a)'
    BY <1>1, <1>2, <1>3, <2>2 DEF Steady
  <2>4. op'[o].pc = "prepare" => status'[a] = "deploying"
    BY <1>0, <1>2, <1>5, <1>a DEF MarkDeploying, SetScheme, MarkRunning, WithStatus, Operation
  <2>5. op'[o].pc = "running" => status'[a] = "deploying" /\ scheme'[a] = "v2"
    <3>1. op'[o].pc = "running" => SetScheme(o) /\ op[o].pc = "scheme"
      BY <1>0, <1>5 DEF MarkDeploying, SetScheme, MarkRunning, Operation
    <3> QED
      BY <1>0, <1>2, <1>a, <3>1 DEF SetScheme, RestartKnows, Operation
  <2>6. op'[o].pc = "lock" => status'[a] = "running" /\ scheme'[a] = "v2"
    <3>1. op'[o].pc = "lock" => MarkRunning(o) /\ op[o].pc = "running"
      BY <1>0, <1>5 DEF MarkDeploying, SetScheme, MarkRunning, Operation
    <3> QED
      BY <1>0, <1>2, <1>a, <3>1 DEF MarkRunning, WithStatus, RestartKnows, Operation
  <2>7. RestartKnows(o)'
    BY <2>1, <2>4, <2>5, <2>6 DEF RestartKnows
  <2> QED
    BY <1>a, <2>1, <2>3, <2>7, KeepsRestart
<1> QED
  BY <1>4, <1>5

\* Steps that change a deployment row.
LEMMA RowsKeepRestart ==
    ASSUME TypeOK, OwnershipInv, Alone, OneAtATime, StuckInv, RestartInv, Bookkept,
           NEW o \in Ops, faults' = faults, Step(o),
           CreateRow(o) \/ Finish(o) \/ FailFinish(o)
    PROVE  RestartInv'
<1>a. PICK a \in Apps : a = op[o].app
  BY DEF TypeOK, Operation
<1>k. PICK k : k = op[o].num
  OBVIOUS
<1>0. /\ op[o] \in Operation /\ op \in [Ops -> Operation]
      /\ dep \in [Apps -> [Nums -> DepStatuses]]
  BY DEF TypeOK
<1> USE DEF At, Failing, Goto
<1>1. ctr' = ctr /\ status' = status /\ scheme' = scheme /\ "logged" \notin faults
  BY DEF CreateRow, Finish, FailFinish, Bookkept
<1>2. Steady(a) /\ RestartKnows(o)
  BY <1>a, RestartOf
<1>3. OwnsRow(o) => k \in Nums /\ dep[a][k] = "deploying" /\ StuckKnows(o)
  BY <1>a, <1>k, StuckOf
<1>4. Running(a)' = Running(a)
  BY <1>1 DEF Running
<1>5. ASSUME NEW n \in Nums, NEW s \in {"deploying", "failed"}, NEW then \in {"mark", "fail_list"},
             dep[a][n] # "healthy", dep' = [dep EXCEPT ![a][n] = s],
             op'[o].pc = then, op'[o].app = a, op'[o].num = n,
             then = "fail_list" => ctr[a][n] = "absent"
      PROVE  RestartInv'
  <2>1. \A m \in Nums : dep'[a][m] = "healthy" <=> dep[a][m] = "healthy"
    BY <1>0, <1>5
  <2>2. LatestHealthy(a)' = LatestHealthy(a)
    BY <2>1 DEF LatestHealthy
  <2>3. Steady(a)'
    BY <1>1, <1>2, <1>4, <2>2 DEF Steady
  <2>4. RestartKnows(o)' /\ Moves(o)'
    BY <1>1, <1>5 DEF RestartKnows, Moves, Rolls, OwnsRow
  <2> QED
    BY <1>5, <1>a, <2>3, <2>4, KeepsRestart
<1>6. CASE CreateRow(o) /\ ~UNCHANGED dep
  <2>1. PICK n \in Nums : /\ IsNextNumber(a, n)
                          /\ dep' = [dep EXCEPT ![a][n] = "deploying"]
                          /\ op' = [op EXCEPT ![o].pc = "mark", ![o].num = n]
    BY <1>6, <1>a DEF CreateRow
  <2>2. dep[a][n] # "healthy"
    BY <2>1, RolloutAssumption DEF IsNextNumber, Nums
  <2>3. op'[o].pc = "mark" /\ op'[o].app = a /\ op'[o].num = n
    BY <1>0, <1>a, <2>1 DEF Operation
  <2> QED
    BY <1>5, <2>1, <2>2, <2>3
<1>7. CASE FailFinish(o)
  <2>1. /\ k \in Nums /\ dep[a][k] = "deploying" /\ ctr[a][k] = "absent"
    BY <1>3, <1>7, <1>a, <1>k DEF FailFinish, OwnsRow, StuckKnows
  <2>2. dep' = [dep EXCEPT ![a][k] = "failed"]
    BY <1>1, <1>7, <1>a, <1>k, <2>1 DEF FailFinish, WithDep
  <2>3. op'[o].pc = "fail_list" /\ op'[o].app = a /\ op'[o].num = k
    BY <1>0, <1>7, <1>a, <1>k DEF FailFinish, Operation
  <2> QED
    BY <1>5, <2>1, <2>2, <2>3
<1>8. CASE Finish(o)
  <2>1. op[o].pc = "finish" /\ op'[o].pc = "idle"
    BY <1>0, <1>8 DEF Finish, Return, Resting
  <2>2. status'[a] = "running" /\ scheme'[a] = "v2"
    BY <1>1, <1>2, <1>a, <2>1 DEF RestartKnows
  <2>3. Steady(a)' /\ Calm(a)' /\ RestartKnows(o)'
    BY <1>1, <1>2, <1>4, <2>1, <2>2 DEF Steady, Calm, RestartKnows
  <2> QED
    BY <1>a, <2>3, KeepsRestart
<1>9. CASE CreateRow(o) /\ Return(o) /\ UNCHANGED dep
  BY <1>9, ReadingKeepsRestart
<1>10. CreateRow(o) /\ UNCHANGED dep => Return(o)
  <2> SUFFICES ASSUME CreateRow(o), UNCHANGED dep, ~Return(o) PROVE FALSE
    OBVIOUS
  <2>1. PICK n \in Nums : IsNextNumber(a, n) /\ dep' = [dep EXCEPT ![a][n] = "deploying"]
    BY <1>a DEF CreateRow
  <2>2. dep[a][n] # "deploying"
    BY <2>1, RolloutAssumption DEF IsNextNumber, Nums
  <2> QED
    BY <1>0, <2>1, <2>2
<1> QED
  BY <1>6, <1>7, <1>8, <1>9, <1>10

\* Steps that change containers.
LEMMA ContainersKeepRestart ==
    ASSUME TypeOK, OwnershipInv, Alone, OneAtATime, StuckInv, RestartInv, Bookkept,
           NEW o \in Ops, faults' = faults, Step(o),
           \/ Create(o) \/ Start(o) \/ FailRemove(o)
           \/ RemoveListed(o, "clearing_first", "create") \/ RemoveListed(o, "clearing", "finish")
    PROVE  RestartInv'
<1>a. PICK a \in Apps : a = op[o].app
  BY DEF TypeOK, Operation
<1>k. PICK k : k = op[o].num
  OBVIOUS
<1>0. /\ op[o] \in Operation /\ op \in [Ops -> Operation]
      /\ ctr \in [Apps -> [Nums -> CtrStates]] /\ "remove" \notin faults
  BY DEF TypeOK, Bookkept
<1> USE DEF At, Failing, Goto
<1>1. status' = status /\ scheme' = scheme /\ dep' = dep
  BY DEF Create, Start, FailRemove, RemoveListed, storeVars
<1>2. Steady(a) /\ RestartKnows(o)
  BY <1>a, RestartOf
<1>3. Moves(o) /\ Moves(o)' /\ op'[o].app = a
  BY <1>0, <1>a DEF Create, Start, FailRemove, RemoveListed, Moves, Rolls, OwnsRow, Operation
<1>4. LatestHealthy(a)' = LatestHealthy(a)
  BY <1>1 DEF LatestHealthy
<1>5. ASSUME NEW m \in Nums
      PROVE  \/ ctr'[a][m] \in {ctr[a][m], "absent", "created"}
             \/ ctr'[a][m] = "v2" /\ status[a] = "deploying"
  <2>1. CASE Create(o) \/ FailRemove(o)
    BY <1>0, <1>a, <2>1 DEF Create, FailRemove
  <2>2. CASE Start(o)
    <3>1. status[a] = "deploying"
      BY <1>2, <1>a, <2>2 DEF Start, RestartKnows
    <3> QED
      BY <1>0, <1>a, <2>2, <3>1 DEF Start
  <2>3. CASE RemoveListed(o, "clearing_first", "create") \/ RemoveListed(o, "clearing", "finish")
    <3>1. CASE ctr' = ctr
      BY <3>1
    <3>2. ASSUME NEW n \in op[o].todo, NEW s \in Leftovers(ctr[a][n]), ctr' = [ctr EXCEPT ![a][n] = s]
          PROVE  ctr'[a][m] \in {ctr[a][m], "absent"}
      BY <1>0, <3>2 DEF Leftovers
    <3> QED
      BY <1>a, <2>3, <3>1, <3>2 DEF RemoveListed
  <2> QED
    BY <2>1, <2>2, <2>3
<1>6. Steady(a)'
  <2>1. \A m \in Nums : ctr'[a][m] \in {"absent", "created", "v2"}
    BY <1>2, <1>5 DEF Steady
  <2>2. status[a] = "error" => Running(a)' = {}
    BY <1>2, <1>5 DEF Steady, Running, Schemes
  <2> QED
    BY <1>1, <1>2, <1>4, <2>1, <2>2 DEF Steady
<1>7. /\ op'[o].pc \in {"clearing_first", "create", "start", "probe"} =>
            op[o].pc \in {"clearing_first", "create", "start"}
      /\ op'[o].pc = "clearing_first" => op[o].pc = "clearing_first"
      /\ op'[o].pc \in {"clearing", "finish"} => op[o].pc = "clearing"
      /\ op'[o].pc \in {"clearing_first", "create", "start", "probe", "clearing", "finish",
                        "fail_remove", "fail_finish"}
      /\ op'[o].plan = op[o].plan
  BY <1>0 DEF Create, Start, FailRemove, RemoveListed, Operation
<1>8. RestartKnows(o)'
  BY <1>1, <1>2, <1>3, <1>7, <1>a DEF RestartKnows
<1> QED
  BY <1>3, <1>6, <1>8, <1>a, KeepsRestart

\* A boot: the orphan collection leaves the latest healthy container if there
\* is one, and the sweep settles the status.
LEMMA BootKeepsRestart ==
    ASSUME TypeOK, OwnershipInv, StuckInv, RestartInv, faults' = faults, Boot, Bookkept
    PROVE  RestartInv'
<1>0. /\ faults \cap {"logged", "remove", "list"} = {}
      /\ ctr \in [Apps -> [Nums -> CtrStates]] /\ dep \in [Apps -> [Nums -> DepStatuses]]
  BY DEF Bookkept, TypeOK
<1>1. \A o \in Ops : op'[o].pc = "idle"
  BY DEF Boot, CleanupOrphans, SweepStuck, BootRoutes, OwnershipInv, Quiet, Busy
<1>2. \A o \in Ops : RestartKnows(o)'
  BY <1>1 DEF RestartKnows
<1>3. \A a \in Apps : Steady(a) /\ Exists(a)
  BY DEF RestartInv, StuckInv
<1>4. CASE CleanupOrphans
  <2>1. phase' = "sweep" /\ dep' = dep /\ status' = status /\ scheme' = scheme
    BY <1>4 DEF CleanupOrphans, storeVars
  <2>2. \A a \in Apps, n \in Nums :
            ctr'[a][n] = IF n \in Orphans(a) THEN "absent" ELSE ctr[a][n]
    <3>1. PICK kept, stopped \in [Apps -> SUBSET Nums] :
            /\ \A a \in Apps : kept[a] = {} /\ stopped[a] = {}
            /\ ctr' = [a \in Apps |-> [n \in Nums |->
                     IF n \notin Orphans(a) \ kept[a] THEN ctr[a][n]
                     ELSE IF n \in stopped[a] /\ n \in Running(a) THEN "stopped"
                     ELSE "absent"]]
      BY <1>0, <1>4 DEF CleanupOrphans
    <3> QED
      BY <3>1
  <2>3. ASSUME NEW a \in Apps
        PROVE  Steady(a)' /\ (LatestHealthy(a)' # {} => Running(a)' \subseteq LatestHealthy(a)')
    <3>1. LatestHealthy(a)' = LatestHealthy(a)
      BY <2>1 DEF LatestHealthy
    <3>2. Running(a)' \subseteq Running(a)
      BY <2>2 DEF Running, Schemes
    <3>3. LatestHealthy(a) # {} => Running(a)' \subseteq LatestHealthy(a)
      BY <1>3, <2>2 DEF Running, Orphans, Schemes
    <3>4. \A m \in Nums : ctr'[a][m] \in {"absent", "created", "v2"}
      BY <1>3, <2>2 DEF Steady
    <3> QED
      BY <1>3, <2>1, <3>1, <3>2, <3>3, <3>4 DEF Steady
  <2> QED
    BY <1>2, <2>1, <2>3 DEF RestartInv
<1>5. CASE SweepStuck
  <2>1. phase = "sweep" /\ phase' = "routes" /\ ctr' = ctr /\ scheme' = scheme
    BY <1>5 DEF SweepStuck
  <2>2. /\ \A a \in Apps, n \in Nums :
             dep'[a][n] = IF n \in Stuck(a) THEN "failed" ELSE dep[a][n]
        /\ \A a \in Apps : status'[a] \in {status[a], IF Running(a) = {} THEN "error" ELSE "running"}
    BY <1>0, <1>5 DEF SweepStuck, SweptStatuses
  <2>3. ASSUME NEW a \in Apps
        PROVE  Steady(a)' /\ (LatestHealthy(a)' # {} => Running(a)' \subseteq LatestHealthy(a)')
    <3>1. \A n \in Nums : dep'[a][n] = "healthy" <=> dep[a][n] = "healthy"
      BY <2>2 DEF Stuck
    <3>2. LatestHealthy(a)' = LatestHealthy(a)
      BY <3>1 DEF LatestHealthy
    <3>3. Running(a)' = Running(a)
      BY <2>1 DEF Running
    <3>4. LatestHealthy(a) # {} => Running(a) \subseteq LatestHealthy(a)
      BY <2>1 DEF RestartInv
    <3> QED
      BY <1>3, <2>1, <2>2, <3>2, <3>3, <3>4 DEF Steady
  <2> QED
    BY <1>2, <2>1, <2>3 DEF RestartInv
<1>6. CASE BootRoutes
  <2>1. phase = "routes" /\ phase' \in {"up", "gc"} /\ UNCHANGED <<status, scheme, dep, ctr>>
    BY <1>6 DEF BootRoutes, storeVars
  <2>2. ASSUME NEW a \in Apps PROVE Steady(a)' /\ Calm(a)'
    <3>1. Running(a)' = Running(a) /\ LatestHealthy(a)' = LatestHealthy(a)
      BY <2>1 DEF Running, LatestHealthy
    <3>2. Calm(a)
      BY <2>1 DEF StuckInv, RestartInv, Calm, LatestHealthy
    <3> QED
      BY <1>3, <2>1, <3>1, <3>2 DEF Steady, Calm
  <2> QED
    BY <1>2, <2>1, <2>2 DEF RestartInv
<1> QED
  BY <1>4, <1>5, <1>6 DEF Boot

LEMMA BeginsKeepsRestart ==
    ASSUME TypeOK, Alone', RestartInv, faults' = faults, Bookkept,
           NEW o \in Ops, NEW b \in Apps, Begins(o, b)
    PROVE  RestartInv'
<1>0. /\ op[o].pc = "idle" /\ UNCHANGED <<status, scheme, dep, ctr, phase>>
      /\ op'[o].pc \in {"row", "del_list", "route_lock"}
      /\ \A p \in Ops \ {o} : op'[p] = op[p]
  BY BeginsIsLocal DEF storeVars
<1>1. \A p \in Ops : op[p].pc = "idle"
  BY <1>0 DEF Alone, Busy
<1>2. \A p \in Ops : RestartKnows(p)'
  BY <1>0, <1>1 DEF RestartKnows
<1>3. \A c \in Apps : ~Moving(c)
  BY <1>1 DEF Moving, Moves, Rolls, OwnsRow
<1>4. \A c \in Apps : /\ Running(c)' = Running(c)
                      /\ LatestHealthy(c)' = LatestHealthy(c)
                      /\ Steady(c)' <=> Steady(c)
                      /\ Calm(c)' <=> Calm(c)
  BY <1>0 DEF Running, LatestHealthy, Steady, Calm
<1> QED
  BY <1>0, <1>2, <1>3, <1>4 DEF RestartInv

LEMMA RestartInductive ==
    ASSUME "delete" \notin Kinds
    PROVE  /\ TypeOK /\ OwnershipInv /\ Alone /\ Alone' /\ OneAtATime /\ StuckInv /\ RestartInv
           /\ [Next]_vars
           => RestartInv'
<1> SUFFICES ASSUME TypeOK, OwnershipInv, Alone, Alone', OneAtATime, StuckInv, RestartInv,
                    [Next]_vars, Bookkept
             PROVE  RestartInv'
  BY DEF RestartInv, Bookkept, Next, vars
<1>1. ASSUME NEW o \in Ops, Step(o), faults' = faults PROVE RestartInv'
  <2>1. CASE Delete(o)
    BY <2>1 DEF Delete, DeleteList, RemoveListed, LockRoutes, ApplyRoutes, ApplyFails,
       DeleteRow, Deletes, At, StuckInv
  <2> QED
    BY <1>1, <2>1, ReadingKeepsRestart, AppRowKeepsRestart, RowsKeepRestart, ContainersKeepRestart
    DEF Step, Deploying, ClearFirst, Clear, Fail
<1>2. ASSUME NEW o \in Ops, NEW b \in Apps, Begins(o, b), faults' = faults PROVE RestartInv'
  BY <1>2, BeginsKeepsRestart
<1>3. CASE UNCHANGED <<status, scheme, dep, ctr, phase, op>>
  BY <1>3 DEF RestartInv, RestartKnows, Moving, Moves, Rolls, OwnsRow, Steady, Calm, Running,
     LatestHealthy, Routes
<1>4. CASE Crash
  BY <1>4 DEF Crash, RestartInv, RestartKnows, Resting, Steady, Running, LatestHealthy, storeVars
<1>5. CASE Boot /\ faults' = faults
  BY <1>5, BootKeepsRestart
<1> QED
  BY <1>1, <1>2, <1>3, <1>4, <1>5 DEF Next, PatchStrategy, vars

LEMMA RestartInitially ==
    ASSUME Init, "legacy" \notin Origins
    PROVE  RestartInv
<1>1. \A o \in Ops : RestartKnows(o) /\ ~Moves(o)
  BY DEF Init, Resting, RestartKnows, Moves, Rolls, OwnsRow
<1>2. PICK origin \in [Apps -> Origins] :
        /\ status = [b \in Apps |-> IF origin[b] = "fresh" THEN "created" ELSE "running"]
        /\ scheme = [b \in Apps |-> IF origin[b] = "settled" THEN "v2" ELSE "legacy"]
        /\ dep = [b \in Apps |-> [n \in Nums |->
                    IF n = 1 /\ origin[b] # "fresh" THEN "healthy" ELSE "none"]]
        /\ ctr = [b \in Apps |-> [n \in Nums |->
                    IF n = 1 /\ origin[b] # "fresh" THEN scheme[b] ELSE "absent"]]
  BY DEF Init
<1>3. \A b \in Apps : origin[b] \in {"fresh", "settled"}
  BY <1>2, RolloutAssumption
<1>4. ASSUME NEW a \in Apps PROVE Steady(a) /\ Calm(a)
  <2>1. CASE origin[a] = "fresh"
    BY <1>2, <2>1 DEF Steady, Calm, LatestHealthy
  <2>2. CASE origin[a] = "settled"
    BY <1>2, <2>2 DEF Steady, Calm
  <2> QED
    BY <1>3, <2>1, <2>2
<1> QED
  BY <1>1, <1>4 DEF Init, RestartInv

\* An app that is served and recoverable, and that no rollout is at work on, is
\* routed by the store as it is in Caddy, to its latest healthy container.
LEMMA RecoverableIsRouted ==
    ASSUME TypeOK, StuckInv, RestartInv, Bookkept, NEW b \in Apps, Serving(b), Recoverable(b)
    PROVE  /\ live[b] = "v2" /\ scheme[b] = "v2"
           /\ \E m \in LatestHealthy(b) : m \in Nums /\ ctr[b][m] = "v2"
           /\ phase = "routes" \/ (phase = "up" /\ ~Moving(b)) => Routes[b] = "v2"
<1>1. Steady(b) /\ Exists(b)
  BY DEF RestartInv, StuckInv
<1>2. live[b] = "v2"
  BY <1>1 DEF Steady, Serving, TypeOK, Upstreams, Schemes
<1>3. PICK m \in LatestHealthy(b) : m \in Running(b)
  BY DEF Recoverable
<1>4. m \in Nums /\ ctr[b][m] = "v2" /\ scheme[b] = "v2"
  BY <1>1, <1>3 DEF Steady, Running, Schemes
<1>5. ASSUME phase = "routes" \/ (phase = "up" /\ ~Moving(b)), status[b] = "deploying" PROVE FALSE
  <2>1. PICK n \in Nums : dep[b][n] = "deploying"
    BY <1>5 DEF Recoverable
  <2>2. CASE phase = "routes"
    BY <1>3, <2>1, <2>2 DEF StuckInv, RestartInv, LatestHealthy
  <2>3. CASE phase = "up" /\ ~Moving(b)
    BY <1>3, <1>5, <2>1, <2>3 DEF RestartInv, Calm
  <2> QED
    BY <1>5, <2>2, <2>3
<1>6. status[b] \in {"deploying", "running"}
  BY <1>1, <1>3 DEF Steady, Exists, TypeOK, Statuses
<1> QED
  BY <1>2, <1>3, <1>4, <1>5, <1>6 DEF Routes

\* No step of an operation takes down a recoverable app, but for the removal
\* of the old containers by a replacement.
LEMMA StepKeepsRecoverable ==
    ASSUME TypeOK, OwnershipInv, Alone, OneAtATime, StuckInv, RestartInv, Bookkept,
           NEW o \in Ops, Step(o), NEW b \in Apps, Serving(b), Recoverable(b), ~Replacing(b)
    PROVE  Serving(b)'
<1>k. PICK k : k = op[o].num
  OBVIOUS
<1>0. /\ op[o] \in Operation /\ ctr \in [Apps -> [Nums -> CtrStates]]
      /\ RestartKnows(o) /\ ~Deletes(o) /\ Busy(o) /\ phase = "up"
  BY StepsAreBusy, StepIsLocal DEF TypeOK, RestartInv, StuckInv
<1>1. live[b] = "v2" /\ scheme[b] = "v2" /\ (~Moving(b) => Routes[b] = "v2")
  BY <1>0, RecoverableIsRouted
<1>2. PICK m \in LatestHealthy(b) : m \in Nums /\ ctr[b][m] = "v2"
  BY RecoverableIsRouted
<1>3. b = op[o].app /\ OwnsRow(o) => k \in Nums /\ dep[b][k] = "deploying" /\ StuckKnows(o)
  BY <1>k, StuckOf
<1>4. live'[b] = "v2"
  <2>1. CASE live' = live
    BY <1>1, <2>1
  <2>2. CASE live' # live
    <3>1. /\ op[o].pc \in {"apply", "route_apply"} /\ live' = op[o].routes
          /\ op[o].routes = Routes
      BY <1>0, <2>2, AppliedRoutes DEF Applying, Deletes, RestartKnows
    <3>2. CASE Moving(b)
      <4>1. op[o].app = b /\ op[o].pc = "apply"
        BY <1>0, <3>1, <3>2 DEF Moving, Moves, Rolls, OwnsRow, Alone, Busy
      <4> QED
        BY <1>0, <1>1, <3>1, <4>1 DEF RestartKnows, Routes
    <3>3. CASE ~Moving(b)
      BY <1>1, <3>1, <3>3
    <3> QED
      BY <3>2, <3>3
  <2> QED
    BY <2>1, <2>2
<1> USE DEF At, Failing
<1>5. CASE \E n \in Nums : ctr'[b][n] = "v2"
  BY <1>4, <1>5 DEF Serving
<1>6. CASE b # op[o].app \/ ctr' = ctr
  <2>1. ctr'[b] = ctr[b]
    BY <1>6, OwnContainers
  <2> QED
    BY <1>2, <1>5, <2>1
<1>7. ASSUME b = op[o].app, Create(o) \/ Start(o) \/ FailRemove(o) PROVE ctr'[b][m] = "v2"
  <2>1. m # k
    BY <1>2, <1>3, <1>7 DEF Create, Start, FailRemove, OwnsRow, LatestHealthy
  <2> QED
    BY <1>0, <1>2, <1>7, <1>k, <2>1 DEF Create, Start, FailRemove
<1>8. ASSUME b = op[o].app, RemoveListed(o, "clearing", "finish")
      PROVE  k \in Nums /\ ctr'[b][k] = "v2"
  <2>1. k \in Nums /\ k \notin op[o].todo /\ ctr[b][k] \in Schemes
    BY <1>3, <1>8, <1>k DEF RemoveListed, OwnsRow, StuckKnows
  <2>2. ctr[b][k] = "v2"
    BY <2>1 DEF RestartInv, Steady, Schemes
  <2>3. CASE ctr' = ctr
    BY <2>1, <2>2, <2>3
  <2>4. ASSUME NEW n \in op[o].todo, NEW s, ctr' = [ctr EXCEPT ![b][n] = s]
        PROVE  ctr'[b][k] = "v2"
    BY <1>0, <2>1, <2>2, <2>4
  <2> QED
    BY <1>8, <2>1, <2>3, <2>4 DEF RemoveListed
<1>9. CASE b = op[o].app /\ RemoveListed(o, "clearing_first", "create")
  BY <1>0, <1>9 DEF RemoveListed, RestartKnows, Replacing
<1>10. CASE RemoveListed(o, "del_removing", "del_lock")
  BY <1>0, <1>10 DEF RemoveListed, Deletes
<1>11. \/ ctr' = ctr
       \/ Create(o) \/ Start(o) \/ FailRemove(o)
       \/ RemoveListed(o, "clearing_first", "create") \/ RemoveListed(o, "clearing", "finish")
       \/ RemoveListed(o, "del_removing", "del_lock")
  BY DEF Step, Deploying, CreateRow, MarkDeploying, Prepare, ClearFirst, ListOld, Probe, SetScheme,
      MarkRunning, CutOver, LockRoutes, ApplyRoutes, ApplyFails, Clear, Finish, Fail, FailFinish,
      FailList, FailStatus, RefreshRoutes, Delete, DeleteList, DeleteRow
<1> QED
  BY <1>2, <1>5, <1>6, <1>7, <1>8, <1>9, <1>10, <1>11

\* ... and no step of a boot.
LEMMA BootKeepsRecoverable ==
    ASSUME TypeOK, StuckInv, RestartInv, Bookkept, Boot,
           NEW b \in Apps, Serving(b), Recoverable(b)
    PROVE  Serving(b)'
<1>1. live[b] = "v2" /\ (phase = "routes" => Routes[b] = "v2")
  BY RecoverableIsRouted
<1>2. PICK m \in LatestHealthy(b) : m \in Nums /\ ctr[b][m] = "v2"
  BY RecoverableIsRouted
<1>3. live'[b] = "v2"
  BY <1>1 DEF Boot, CleanupOrphans, SweepStuck, BootRoutes
<1>4. ctr'[b][m] = "v2"
  <2>1. CASE CleanupOrphans
    <3>1. m \notin Orphans(b)
      BY <1>2 DEF Orphans, StuckInv
    <3> QED
      BY <1>2, <2>1, <3>1 DEF CleanupOrphans
  <2>2. CASE ctr' = ctr
    BY <1>2, <2>2
  <2> QED
    BY <2>1, <2>2 DEF Boot, SweepStuck, BootRoutes
<1> QED
  BY <1>2, <1>3, <1>4 DEF Serving

\* As long as operations come one after the other, none is a delete and no app
\* is older than the present aliases: no step of the process, no crash at any
\* point of it and no step of the boots after it ends the serving of an app
\* whose latest healthy deployment runs and whose row says what becomes of it.
THEOREM RestartsAreSafe ==
    Spec /\ "delete" \notin Kinds /\ "legacy" \notin Origins /\ []Alone => RestartSafe
<1> SUFFICES ASSUME "delete" \notin Kinds, "legacy" \notin Origins
             PROVE  Spec /\ []Alone => RestartSafe
  OBVIOUS
<1>1. Alone => OneAtATime
  BY DEF Alone, OneAtATime
<1>2. TypeOK /\ OwnershipInv /\ OneAtATime /\ StuckInv /\ [Next]_vars => StuckInv'
  BY StuckInductive
<1>3. TypeOK /\ OwnershipInv /\ Alone /\ Alone' /\ OneAtATime /\ StuckInv /\ RestartInv /\ [Next]_vars
        => RestartInv'
  BY RestartInductive
<1>4. Init => StuckInv /\ RestartInv
  BY StuckInitially, RestartInitially
<1>5. TypeOK /\ OwnershipInv /\ Alone /\ OneAtATime /\ StuckInv /\ RestartInv /\ [Next]_vars
        => [Bookkept => \A a \in Apps :
              ~Replacing(a) /\ Serving(a) /\ Recoverable(a) => Serving(a)']_vars
  <2> SUFFICES ASSUME TypeOK, OwnershipInv, Alone, OneAtATime, StuckInv, RestartInv, Next, Bookkept,
                      NEW a \in Apps, ~Replacing(a), Serving(a), Recoverable(a)
               PROVE  Serving(a)'
    OBVIOUS
  <2>1. ASSUME NEW o \in Ops, Step(o) PROVE Serving(a)'
    BY <2>1, StepKeepsRecoverable
  <2>2. CASE UNCHANGED <<ctr, live>>
    BY <2>2 DEF Serving
  <2>3. ASSUME NEW o \in Ops, NEW b \in Apps, Begins(o, b) PROVE Serving(a)'
    BY <2>2, <2>3, BeginsIsLocal
  <2>4. CASE Boot
    BY <2>4, BootKeepsRecoverable
  <2> QED
    BY <2>1, <2>2, <2>3, <2>4 DEF Next, PatchStrategy, Crash
<1> QED
  BY <1>1, <1>2, <1>3, <1>4, <1>5, Ownership, PTL DEF Spec, RestartSafe
=============================================================================
