------------------------------- MODULE Stack -------------------------------
(***************************************************************************)
(* Compose applies (internal/api/compose.go): a request is read, planned   *)
(* against the store and written to it, service by service, in the         *)
(* handler; a goroutine then deploys the services in the same order. Two   *)
(* applies, and an operator who deletes apps or edits their settings, act  *)
(* between the handler's calls of the store; any of those, and of the      *)
(* goroutine's, may fail, and the process may die anywhere. Two groups of  *)
(* calls are one step: the read of an app with the updates of its port and *)
(* its internal flag, and the writes of the variables of one service.      *)
(*                                                                         *)
(* Abstracted: a rollout is its mark, the creation of its container and    *)
(* its end, in which podman removes what it is told to (Rollout has the    *)
(* rest, and removals that fail); the settings of an app are those that an *)
(* apply writes and the container is created with; an environment variable *)
(* is plain or secret, without its value.                                  *)
(***************************************************************************)
EXTENDS Compose

CONSTANTS Applies,      \* the requests
          Uploads,      \* what a request may carry: records of tar, doc, query, dry
          Slugs, Keys,
          HandMade,     \* the slugs of apps that an operator created
          Conducts,     \* what may happen in a behaviour, see conduct
          MaxRows, MaxOps

IsSequence(s) == Len(s) \in Nat /\ DOMAIN s = 1..Len(s)
IsDocument(doc) ==
    /\ IsSequence(doc.services)
    /\ \A i \in DOMAIN doc.services :
          LET raw == doc.services[i]
          IN  /\ IsSequence(raw.expose)
              /\ \A j \in DOMAIN raw.volumes : raw.volumes[j].form \in {"short", "long"}
              /\ raw.depends.form \in {"list", "map", "bad"}
              /\ raw.depends.form = "list" => IsSequence(raw.depends.names)
              /\ raw.depends.form = "map" => ToSet(raw.depends.names) \subseteq ToSet(Alphabet)

\* An upload has a document; the slugs of an apply's services are among the Slugs.
ASSUME StackAssumption ==
    /\ MaxRows \in Nat /\ MaxOps \in Nat
    /\ IsSequence(Alphabet)
    /\ \A c \in Conducts, a \in Applies : \A u \in Uploads[c.uploads][a] :
          LET project == IF u.query # "" THEN u.query ELSE u.doc.name
          IN  /\ IsDocument(u.doc)
              /\ ~u.dry => \A i \in DOMAIN u.doc.services :
                              <<Normal[project], u.doc.services[i].name>> \in Slugs

NoApp == [id |-> 0]
NoRow == [app |-> 0]

VARIABLES
    req,        \* the state of each request
    apps,       \* slug -> row of the apps table, or NoApp
    rows,       \* the deployments table, by id, and (verdict) what the status of
                \* each was last asked to be: the write may have failed
    cont,       \* slug -> its containers
    dirs,       \* the requests whose upload directory exists
    life,       \* of the process: first, down, second
    ops,        \* steps of the operator so far
    conduct     \* what happens in this behaviour:
                \*   uploads   which of the Uploads the requests carry
                \*   overlap   two applies are under way at once
                \*   careless  an app is deleted, maybe while an apply is under way
                \*   meddle    the environment is written during an apply
                \*   faults    calls of the store fail
                \*   crash     the process dies, once

vars == <<req, apps, rows, cont, dirs, life, ops, conduct>>

Up == life # "down"

\* What a request holds: upload while it is planned, then the plan, the place
\* it has come to and the deployments it has created.
Idle == [pc |-> "idle"]
Ended(r, errored) == [pc |-> "done", items |-> r.items, errored |-> errored]
Write(items, plan, project, at) ==
    [pc |-> "upsert", items |-> items, plan |-> plan, project |-> project, at |-> at,
     app |-> NoApp, left |-> {}, secret |-> {}]
Orchestrate(items) == [pc |-> "chain", items |-> items, at |-> 1, by |-> 0]
Held(a) == IF req[a].pc = "idle" THEN <<>> ELSE req[a].items
Active(a) == req[a].pc \notin {"idle", "done"}

HandMadeApp == [id |-> 1, project |-> "", service |-> "", internal |-> FALSE,
                strategy |-> "zero-downtime", status |-> "running", mounts |-> {},
                env |-> [k \in Keys |-> "none"]]

Init ==
    /\ req = [a \in Applies |-> Idle]
    /\ \E s \in {{}} \cup {{h} : h \in HandMade} :
          apps = [t \in Slugs |-> IF t \in s THEN HandMadeApp ELSE NoApp]
    /\ rows = [n \in 1..MaxRows |-> NoRow]
    /\ cont = [s \in Slugs |-> {}]
    /\ dirs = {}
    /\ life = "first"
    /\ ops = 0
    /\ conduct \in Conducts

Exists(s) == apps[s] # NoApp
SlugsOf(id) == {s \in Slugs : apps[s].id = id}
\* The id SQLite gives a row.
NextOf(used) == 1 + CHOOSE n \in used \cup {0} : \A u \in used : u <= n

\* UPDATE apps ... WHERE id = ?: nothing, when there is no such row.
Update(id, change(_)) == [s \in Slugs |-> IF id # 0 /\ s \in SlugsOf(id) THEN change(apps[s]) ELSE apps[s]]
Goes(a, r) == req' = [req EXCEPT ![a] = r]

----------------------------------------------------------------------------
(* The request *)

\* extractComposeUpload, findComposeFile, Parse and the name of the project.
\* What is not accepted leaves no directory behind.
Begin(a) ==
    /\ Up /\ req[a].pc = "idle"
    /\ conduct.overlap \/ \A b \in Applies : ~Active(b)
    /\ \E u \in Uploads[conduct.uploads][a] :
          LET file == Parse(u.doc)
              project == IF u.query # "" THEN u.query ELSE u.doc.name
          IN  IF u.tar # "ok" \/ ~file.ok \/ project = ""
              THEN Goes(a, Ended([items |-> <<>>], FALSE)) /\ UNCHANGED dirs
              ELSE /\ Goes(a, [pc |-> "existing", items |-> <<>>, doc |-> u.doc, file |-> file,
                               project |-> project, dry |-> u.dry, existing |-> <<>>])
                   /\ dirs' = dirs \cup {a}
    /\ UNCHANGED <<apps, rows, cont, life, ops, conduct>>

\* buildComposePlanContext: the apps of the project, then those of all projects.
Mine(project) == {s \in Slugs : Exists(s) /\ apps[s].project = project /\ apps[s].service # ""}

ReadExisting(a) ==
    /\ Up /\ req[a].pc = "existing"
    /\ LET existing == [n \in {apps[s].service : s \in Mine(req[a].project)} |->
                          CHOOSE s \in Mine(req[a].project) : apps[s].service = n]
       IN  Goes(a, [req[a] EXCEPT !.pc = "taken", !.existing = existing])
    /\ UNCHANGED <<apps, rows, cont, dirs, life, ops, conduct>>

\* Variant: only the aliases of this project.
Taken_Own(a) == DOMAIN req[a].existing

\* ListComposeApps: "this (not every app) is the full set of existing bare-alias claims".
Taken(a) == {apps[s].service : s \in {t \in Slugs : Exists(t)}} \ {""}

\* ... BuildPlan, composeOrphans (read, and only reported) and the dry run.
ReadTaken(a) ==
    /\ Up /\ req[a].pc = "taken"
    /\ LET r == req[a]
           plan == BuildPlan(r.file, r.project, r.existing, Taken(a))
       IN  IF ~plan.ok \/ r.dry THEN Goes(a, Ended(r, FALSE)) /\ dirs' = dirs \ {a}
           ELSE /\ Goes(a, IF plan.services = <<>> THEN Orchestrate(<<>>)
                           ELSE Write(<<>>, plan.services, r.project, 1))
                /\ UNCHANGED dirs
    /\ UNCHANGED <<apps, rows, cont, life, ops, conduct>>

----------------------------------------------------------------------------
(* applyComposePlan: one service after the other *)

Now(a) == req[a].plan[req[a].at]

\* An error of the store, or an app that is not what it was: the handler
\* returns, and leaves what it has written.
Give500(a) == Goes(a, Ended(req[a], TRUE)) /\ dirs' = dirs \ {a}

StoreFails(a) ==
    /\ Up /\ conduct.faults
    /\ req[a].pc \in {"existing", "taken", "upsert", "declare", "listenv", "writeenv", "row"}
    /\ Give500(a)
    /\ UNCHANGED <<apps, rows, cont, life, ops, conduct>>

\* upsertComposeApp. An update takes the app as it is now, a create fails on a
\* slug that is taken.
Upsert(a) ==
    /\ Up /\ req[a].pc = "upsert" /\ req[a].at <= Len(req[a].plan)
    /\ LET sp == Now(a)
           app == apps[sp.slug]
       IN  IF sp.update = Exists(sp.slug)
           THEN /\ apps' = [apps EXCEPT ![sp.slug] =
                     IF sp.update THEN [app EXCEPT !.internal = sp.internal]
                     ELSE [HandMadeApp EXCEPT !.id = NextOf({apps[s].id : s \in Slugs}),
                                              !.project = req[a].project, !.service = sp.name,
                                              !.internal = sp.internal, !.status = "created"]]
                /\ Goes(a, [req[a] EXCEPT !.pc = "declare", !.app = apps'[sp.slug], !.left = sp.mounts])
                /\ UNCHANGED dirs
           ELSE Give500(a) /\ UNCHANGED apps
    /\ UNCHANGED <<rows, cont, life, ops, conduct>>

\* The statements that fail on the foreign key when the app is gone.
HasApp(id) == SlugsOf(id) # {}

\* Variant: the recommendation is only reported.
Strategy_Kept(sp, app) == app.strategy

Strategy(sp, app) == IF sp.strategy # "" THEN sp.strategy ELSE app.strategy

\* UpsertVolume, for each mount: none is ever removed.
Declare(a) ==
    /\ Up /\ req[a].pc = "declare"
    /\ \E m \in req[a].left :
          IF ~HasApp(req[a].app.id) THEN Give500(a) /\ UNCHANGED apps
          ELSE /\ apps' = Update(req[a].app.id, LAMBDA x : [x EXCEPT !.mounts = @ \cup {m}])
               /\ Goes(a, [req[a] EXCEPT !.left = @ \ {m}])
               /\ UNCHANGED dirs
    /\ UNCHANGED <<rows, cont, life, ops, conduct>>

\* UpdateAppDeployStrategy, and the copy that is rolled out.
Recommend(a) ==
    /\ Up /\ req[a].pc = "declare" /\ req[a].left = {}
    /\ LET app == req[a].app
           strategy == Strategy(Now(a), app)
       IN  /\ apps' = Update(app.id, LAMBDA x : [x EXCEPT !.strategy = IF strategy = app.strategy THEN @ ELSE strategy])
           /\ Goes(a, [req[a] EXCEPT !.pc = IF Now(a).env = {} THEN "row" ELSE "listenv",
                                     !.app.strategy = strategy])
    /\ UNCHANGED <<rows, cont, dirs, life, ops, conduct>>

\* applyComposeEnv: the keys that are secret, then the writes.
ListEnv(a) ==
    /\ Up /\ req[a].pc = "listenv"
    /\ LET secret == {k \in Keys : \E s \in SlugsOf(req[a].app.id) : apps[s].env[k] = "secret"}
       IN  Goes(a, [req[a] EXCEPT !.pc = "writeenv", !.secret = secret])
    /\ UNCHANGED <<apps, rows, cont, dirs, life, ops, conduct>>

\* Variant: every key of the file.
Written_All(a) == Now(a).env

Written(a) == Now(a).env \ req[a].secret

WriteEnv(a) ==
    /\ Up /\ req[a].pc = "writeenv"
    /\ IF Written(a) # {} /\ ~HasApp(req[a].app.id) THEN Give500(a) /\ UNCHANGED apps
       ELSE /\ apps' = Update(req[a].app.id, LAMBDA x : [x EXCEPT !.env =
                   [k \in Keys |-> IF k \in Written(a) THEN "plain" ELSE @[k]]])
            /\ Goes(a, [req[a] EXCEPT !.pc = "row"])
            /\ UNCHANGED dirs
    /\ UNCHANGED <<rows, cont, life, ops, conduct>>

\* CreateDeploymentFull. After the last service the handler answers 202 and
\* hands over to the goroutine.
NextRow == NextOf({m \in 1..MaxRows : rows[m] # NoRow})

CreateRow(a) ==
    /\ Up /\ req[a].pc = "row"
    /\ IF ~HasApp(req[a].app.id) THEN Give500(a) /\ UNCHANGED rows
       ELSE /\ NextRow <= MaxRows
            /\ rows' = [rows EXCEPT ![NextRow] = [app |-> req[a].app.id, status |-> "deploying", verdict |-> "none"]]
            /\ LET r == req[a]
                   items == Append(r.items, [sp |-> Now(a), app |-> r.app, row |-> NextRow])
               IN  Goes(a, IF r.at < Len(r.plan) THEN Write(items, r.plan, r.project, r.at + 1)
                           ELSE Orchestrate(items))
            /\ UNCHANGED dirs
    /\ UNCHANGED <<apps, cont, life, ops, conduct>>

----------------------------------------------------------------------------
(* runComposeOrchestration *)

Item(a) == req[a].items[req[a].at]

\* FinishDeployment: UPDATE deployments ... WHERE id = ?. An error is logged, or
\* dropped, and the row stays as it was.
Finish(n, verdict) ==
    \E status \in {verdict} \cup (IF conduct.faults THEN {"deploying"} ELSE {}) :
       rows' = IF rows[n] = NoRow THEN rows ELSE [rows EXCEPT ![n].verdict = verdict, ![n].status = status]

\* UpdateAppStatus where an error of it is logged or dropped, too.
Mark(id, status) ==
    \/ apps' = Update(id, LAMBDA x : [x EXCEPT !.status = status])
    \/ conduct.faults /\ UNCHANGED apps

Others(slug, n) == {c \in cont[slug] : c.row # n}

Moves(a, by) == Goes(a, [req[a] EXCEPT !.pc = "chain", !.at = @ + 1, !.by = by])

\* Variant: goes on with the next service.
FailsAt_None(a) == 0

FailsAt(a) == req[a].at

\* Its turn has come.
IsNext(a) == Up /\ req[a].pc = "chain" /\ req[a].at <= Len(req[a].items) /\ req[a].by = 0

\* deployComposeBuildService, when the context is not in the upload, and
\* markComposeServiceFailed with the status of the app at the time of the apply.
Reject(a) ==
    /\ IsNext(a) /\ Item(a).sp.build
    /\ Finish(Item(a).row, "failed")
    /\ IF Item(a).app.status = "created" THEN Mark(Item(a).app.id, "error") ELSE UNCHANGED apps
    /\ Moves(a, FailsAt(a))
    /\ UNCHANGED <<cont, dirs, life, ops, conduct>>

\* DeployExisting, DeployBuildExisting: the app is marked, the image is made.
Start(a) ==
    /\ IsNext(a)
    /\ apps' = Update(Item(a).app.id, LAMBDA x : [x EXCEPT !.status = "deploying"])
    /\ Goes(a, [req[a] EXCEPT !.pc = "pull"])
    /\ UNCHANGED <<rows, cont, dirs, life, ops, conduct>>

\* runRollout with the app as it was applied, and its volumes as they are now.
CreateContainer(a) ==
    /\ Up /\ req[a].pc = "pull"
    /\ LET it == Item(a)
           old == IF it.app.strategy = "replace" THEN {} ELSE cont[it.sp.slug]
           mounts == UNION {apps[s].mounts : s \in SlugsOf(it.app.id)}
       IN  cont' = [cont EXCEPT ![it.sp.slug] = old \cup {[row |-> it.row, mounts |-> mounts]}]
    /\ Goes(a, [req[a] EXCEPT !.pc = "probe"])
    /\ UNCHANGED <<apps, rows, dirs, life, ops, conduct>>

Succeed(a) ==
    /\ Up /\ req[a].pc = "probe"
    /\ LET it == Item(a)
       IN  /\ cont' = [cont EXCEPT ![it.sp.slug] = @ \ Others(it.sp.slug, it.row)]
           /\ Finish(it.row, "healthy")
           /\ apps' = Update(it.app.id, LAMBDA x : [x EXCEPT !.status = "running"])
    /\ Moves(a, 0)
    /\ UNCHANGED <<dirs, life, ops, conduct>>

\* fail(), when the app cannot be marked or later: the new container goes, the
\* app is what its other containers make it. A replace may have removed those,
\* and a rollout have marked the app before it failed.
Fail(a) ==
    /\ Up /\ (req[a].pc \in {"pull", "probe"} \/ (conduct.faults /\ IsNext(a)))
    /\ LET it == Item(a)
           others == Others(it.sp.slug, it.row)
       IN  \E left \in {others} \cup (IF req[a].pc = "pull" /\ it.app.strategy = "replace" THEN {{}} ELSE {}) :
             /\ cont' = [cont EXCEPT ![it.sp.slug] = left]
             /\ Finish(it.row, "failed")
             /\ \/ Mark(it.app.id, IF left # {} THEN "running" ELSE "error")
                \/ conduct.faults /\ req[a].pc = "probe" /\ Mark(it.app.id, "running")
    /\ Moves(a, FailsAt(a))
    /\ UNCHANGED <<dirs, life, ops, conduct>>

\* "aborted: <service> failed".
Abort(a) ==
    /\ Up /\ req[a].pc = "chain" /\ req[a].at <= Len(req[a].items) /\ req[a].by # 0
    /\ Finish(Item(a).row, "failed")
    /\ Moves(a, req[a].by)
    /\ UNCHANGED <<apps, cont, dirs, life, ops, conduct>>

Return(a) ==
    /\ Up /\ req[a].pc = "chain" /\ req[a].at > Len(req[a].items)
    /\ Goes(a, Ended(req[a], FALSE))
    /\ dirs' = dirs \ {a}
    /\ UNCHANGED <<apps, rows, cont, life, ops, conduct>>

----------------------------------------------------------------------------
(* The operator, and the process *)

Allowed(any) == Up /\ ops < MaxOps /\ (any \/ \A a \in Applies : ~Active(a)) /\ ops' = ops + 1

\* handleDeleteApp: the containers, then the app with its deployments.
DeleteApp(s) ==
    /\ conduct.careless /\ Allowed(TRUE) /\ Exists(s)
    /\ cont' = [cont EXCEPT ![s] = {}]
    /\ apps' = [apps EXCEPT ![s] = NoApp]
    /\ rows' = [n \in 1..MaxRows |-> IF rows[n].app = apps[s].id THEN NoRow ELSE rows[n]]
    /\ UNCHANGED <<req, dirs, life, conduct>>

\* handlePutEnv: ReplaceEnvVars, one transaction.
PutEnv(s) ==
    /\ Allowed(conduct.meddle) /\ Exists(s)
    /\ \E env \in [Keys -> {"none", "secret"}] : apps' = [apps EXCEPT ![s].env = env]
    /\ UNCHANGED <<req, rows, cont, dirs, life, conduct>>

Crash ==
    /\ conduct.crash /\ Allowed(TRUE)
    /\ life = "first"
    /\ life' = "down"
    /\ UNCHANGED <<req, apps, rows, cont, dirs, conduct>>

\* CleanupOrphans and SweepStuckDeployments, before anything is served. The
\* directories under the system's temporary one are nobody's.
Healthy(id) == {n \in 1..MaxRows : rows[n].app = id /\ rows[n] # NoRow /\ rows[n].status = "healthy"}
Keep(s, c) == Exists(s) /\ \A n \in Healthy(apps[s].id) : n <= c.row
                        /\ (Healthy(apps[s].id) # {} => c.row \in Healthy(apps[s].id))
\* ListDeployingDeployments.
Unended == {n \in 1..MaxRows : rows[n] # NoRow /\ rows[n].status = "deploying"}

\* Variant: any container of the app will do.
Stuck_AnyContainer(n, left) == \A s \in SlugsOf(rows[n].app) : left[s] = {}

Stuck(n, left) == \A s \in SlugsOf(rows[n].app) : \A c \in left[s] : c.row # n

\* A call that fails has the boot pass over an app or a row, or leave a status.
Some(S) == IF conduct.faults THEN SUBSET S ELSE {{}}

Reboot ==
    /\ life = "down"
    /\ life' = "second"
    /\ \E spared \in Some({s \in Slugs : cont[s] # {}}), skipped \in Some(Unended), unmarked \in Some(Slugs) :
          LET left == [s \in Slugs |-> {c \in cont[s] : s \in spared \/ Keep(s, c)}]
              stuck == {n \in Unended \ skipped : Stuck(n, left)}
              marked == {s \in Slugs \ unmarked : \E n \in stuck : rows[n].app = apps[s].id}
          IN  /\ cont' = left
              /\ rows' = [n \in 1..MaxRows |-> IF n \in stuck THEN [rows[n] EXCEPT !.verdict = "failed", !.status = "failed"]
                                               ELSE rows[n]]
              /\ apps' = [s \in Slugs |->
                            IF s \in marked THEN [apps[s] EXCEPT !.status = IF left[s] # {} THEN "running" ELSE "error"]
                            ELSE apps[s]]
    /\ req' = [a \in Applies |-> IF req[a].pc = "idle" THEN Idle ELSE Ended(req[a], FALSE)]
    /\ UNCHANGED <<dirs, ops, conduct>>

----------------------------------------------------------------------------

Handler(a) == \/ ReadExisting(a) \/ ReadTaken(a) \/ Upsert(a) \/ Declare(a) \/ Recommend(a)
              \/ ListEnv(a) \/ WriteEnv(a) \/ CreateRow(a)
Deploys(a) == Reject(a) \/ Start(a) \/ CreateContainer(a) \/ Succeed(a) \/ Fail(a) \/ Abort(a) \/ Return(a)

Next == \/ \E a \in Applies : Begin(a) \/ Handler(a) \/ StoreFails(a) \/ Deploys(a)
        \/ \E s \in Slugs : DeleteApp(s) \/ PutEnv(s)
        \/ Crash \/ Reboot

Spec == Init /\ [][Next]_vars

----------------------------------------------------------------------------
(* Properties *)

Ids == Nat \ {0}
Pcs == {"idle", "existing", "taken", "upsert", "declare", "listenv", "writeenv", "row",
        "chain", "pull", "probe", "done"}
IsApp(x) ==
    /\ x = [id |-> x.id, project |-> x.project, service |-> x.service, internal |-> x.internal,
            strategy |-> x.strategy, status |-> x.status, mounts |-> x.mounts, env |-> x.env]
    /\ x.id \in Ids /\ x.strategy \in {"zero-downtime", "replace"}
    /\ x.status \in {"created", "deploying", "running", "error"}
    /\ x.env \in [Keys -> {"none", "plain", "secret"}]
IsRow(x) == /\ x = [app |-> x.app, status |-> x.status, verdict |-> x.verdict]
            /\ x.app \in Ids /\ x.status \in {"deploying", "healthy", "failed"}
            /\ x.verdict \in {"none", "healthy", "failed"}

\* The tables, the containers and the requests are of the types of their code;
\* a strategy is one of ValidDeployStrategy.
TypeOK ==
    /\ apps = [s \in Slugs |-> apps[s]] /\ \A s \in Slugs : Exists(s) => IsApp(apps[s])
    /\ rows = [n \in 1..MaxRows |-> rows[n]] /\ \A n \in 1..MaxRows : rows[n] # NoRow => IsRow(rows[n])
    /\ cont = [s \in Slugs |-> cont[s]]
    /\ \A s \in Slugs : \A c \in cont[s] : c = [row |-> c.row, mounts |-> c.mounts] /\ c.row \in 1..MaxRows
    /\ req = [a \in Applies |-> req[a]] /\ \A a \in Applies : req[a].pc \in Pcs
    /\ dirs \subseteq Applies /\ life \in {"first", "down", "second"} /\ ops \in 0..MaxOps
    /\ conduct \in Conducts

\* BuildPlan's order is, of all the orders in which a service comes after
\* everything in its depends_on, the one closest to the document's; a file is
\* refused for a cycle only if it has one, and the error names one.
PlanIsRight == \A a \in Applies : req[a].pc \in {"existing", "taken"} => PlannedRight(req[a].file)

Translated(raw, svc, warned) ==
    /\ \A k \in raw.others : <<"key", k>> \in warned
    /\ \A i \in DOMAIN raw.expose : svc.expose[1] = raw.expose[i] \/ <<"expose", i>> \in warned
    /\ \A v \in raw.environment : v.key \in svc.env /\ (v.value = "none" => <<"env", v.key>> \in warned)
    /\ \A i \in DOMAIN raw.volumes :
          \/ <<"mount", i>> \in warned
          \/ /\ raw.volumes[i].form = "short" /\ raw.volumes[i].parts[1] \in svc.mounts
             /\ Len(raw.volumes[i].parts) = 3 => raw.volumes[i].parts[3] = ""
          \/ raw.volumes[i].form = "long" /\ raw.volumes[i].source \in svc.mounts
    /\ ToSet(raw.depends.names) \subseteq ToSet(svc.deps)
    /\ "host" \notin svc.mounts

\* What a document asks for is translated or warned of ("nothing is ever
\* silently dropped"): every key, mount, port and variable of a service, every
\* top-level key and volume; and no path of the host is ever mounted. (The
\* options of a mount in the long form are read by nothing, see README.)
NothingDropped ==
    \A a \in Applies : req[a].pc = "existing" =>
        LET doc == req[a].doc
            file == req[a].file
        IN  /\ \A i \in DOMAIN doc.services :
                  Translated(doc.services[i], file.services[i], file.warned[i])
            /\ \A k \in doc.others : <<"top-level key", k>> \in file.warnings
            /\ \A v \in doc.volumes.names :
                  \/ <<"unused", v>> \in file.warnings
                  \/ \E i \in DOMAIN file.services : v \in file.services[i].mounts

\* What has become of each deployment that a request has created. One whose
\* verdict could not be written says "deploying" for good.
Unsaid == [healthy |-> "healthy, unsaid", failed |-> "failed, unsaid"]
Seen(a, i) ==
    LET row == rows[Held(a)[i].row]
    IN  CASE row.status # "deploying" -> row.status
          [] row.status = "deploying" /\ row.verdict # "none" -> Unsaid[row.verdict]
          [] OTHER -> CASE req[a].pc \in {"pull", "probe"} /\ req[a].at = i -> "deploying"
                        [] req[a].pc = "done" /\ ~req[a].errored -> "abandoned"
                        [] OTHER -> "waiting"

\* An id of a deleted deployment may be given again, so the promise is not
\* about apps that are deleted while they are deployed.
Told == [a \in Applies |-> IF conduct.careless THEN <<>>
                            ELSE [i \in DOMAIN Held(a) |-> Seen(a, i)]]

Chain == INSTANCE ComposeChain WITH told <- Told

\* Every apply keeps the promise of ComposeChain: one at a time, in order,
\* none after the first that failed.
ChainContract == Chain!Spec

\* No two containers write to one volume ("Two writers, one volume": the reason
\* for the strategy that an apply forces), as long as one apply at a time is
\* under way and apps are not deleted under it. A failure or a death between the
\* volume and the strategy leaves an app that a later apply without the volume
\* rolls out beside itself: only such an app has them, while it has no strategy.
VolumeWriters ==
    ~conduct.overlap /\ ~conduct.careless /\ ~(conduct.faults /\ conduct.crash) =>
        \A s \in Slugs : \A c, d \in cont[s] :
            c # d /\ c.mounts \cap d.mounts # {} =>
                (conduct.faults \/ conduct.crash) /\ apps[s].strategy = "zero-downtime"

\* A service name is the alias of one app ("caught here, before Task 8 ever
\* touches a container"), as long as one apply at a time is under way.
AliasesUnique ==
    ~conduct.overlap => \A s, t \in Slugs : Exists(s) /\ Exists(t) /\ apps[s].service # ""
                                            /\ apps[s].service = apps[t].service => s = t

\* "A compose env value must never silently overwrite a secret": unless an
\* operator writes the environment during the apply, no step of an apply
\* changes a variable that is secret.
SecretsKept ==
    [][\A s \in Slugs : \A k \in Keys :
          /\ ~conduct.meddle /\ ops' = ops /\ Exists(s) /\ apps'[s].id = apps[s].id
          /\ apps[s].env[k] = "secret"
          => apps'[s].env[k] = "secret"]_<<apps, ops>>

\* When a request has ended its directory is gone, and each of its deployments
\* has ended and says so, unless the process died (the directory is nobody's
\* then, and a first deployment whose container outlived the process stays as it
\* is, even when a later one of the app has replaced it), an error of the store
\* ended the request (what that left is settled by the next boot), or the very
\* write of the outcome, or the boot's of it, failed.
Adopted(it) == /\ life = "second"
               /\ \/ \E c \in cont[it.sp.slug] : c.row = it.row
                  \/ \E n \in 1..MaxRows : n > it.row /\ rows[n].app = it.app.id
Unwritten(n) == conduct.faults /\ (rows[n].verdict # "none" \/ life = "second")
EndedIsSettled ==
    Up => \A a \in Applies : req[a].pc = "done" =>
        /\ a \notin dirs \/ conduct.crash
        /\ \A i \in DOMAIN Held(a) : \/ conduct.careless \/ req[a].errored
                                     \/ rows[Held(a)[i].row].status # "deploying"
                                     \/ Adopted(Held(a)[i])
                                     \/ Unwritten(Held(a)[i].row)
=============================================================================
