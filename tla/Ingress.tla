------------------------------ MODULE Ingress ------------------------------
(***************************************************************************)
(* What Caddy serves: the hostnames of the store (apps and their custom    *)
(* domains, internal/api/domains.go and apps.go), the file current.json    *)
(* and the configuration that runs (Manager.Apply), the bp-caddy container *)
(* (Manager.Ensure, at every boot) and the cached answer of its health     *)
(* check (Manager.Health).                                                 *)
(*                                                                         *)
(* Abstracted: a configuration is the set of the pairs <<owner, host>> it  *)
(* routes; the five attempts of a reload are one step, which has failed    *)
(* when all five did; an app is never deleted here; of a rollout there are *)
(* its writes of the app's status, in their order, and whether the app has *)
(* a container of an earlier one: from the image to the probe it is one    *)
(* step, and no app has two at once (Rollout has the steps, and the two);  *)
(* an app of a stack has its route, as one that is exposed does (an        *)
(* internal one has none); the instance has a dashboard hostname; a drift  *)
(* of the container is one bit.                                            *)
(***************************************************************************)
EXTENDS Naturals, FiniteSets

CONSTANTS Slugs, Hosts,
          Generated,       \* slug -> slug.root_domain
          Custom,          \* the hostnames that requests ask for
          Dashboard,       \* the dashboard's hostname
          Replaces,        \* the apps whose deploy strategy is "replace"
          Requests,
          Conducts,        \* what may happen in a behaviour, see conduct
          MaxPerApp,       \* maxCustomDomainsPerApp
          MaxIds,          \* rows of the domains table
          MaxDeaths,       \* deaths of the basepod process
          TTL              \* caddyHealthCacheTTL, in ticks

ASSUME IngressAssumption ==
    /\ Generated \in [Slugs -> Hosts] /\ Dashboard \in Hosts /\ Custom \subseteq Hosts
    /\ Replaces \subseteq Slugs
    /\ \A s, t \in Slugs : Generated[s] = Generated[t] => s = t
    /\ MaxPerApp \in Nat /\ MaxIds \in Nat /\ MaxDeaths \in Nat /\ TTL \in Nat

VARIABLES
    apps,      \* slug -> absent, or the status of its row
    kept,      \* the apps with a container that an ended rollout has left
    stuck,     \* the apps with a deployment that nobody will finish
    unapplied, \* history: the apps that a rollout has marked or failed since
               \* the routes were last computed
    domains,   \* the domains table by id: [app, host], or NoDomain
    req,       \* the state of each request
    lock,      \* the request that holds routesMu, in a set
    file,      \* current.json
    ctr,       \* the container: owner, fits (what create would build), state
    live,      \* the configuration that runs in it
    boot,      \* the process: down, a step of server.Run, or up
    deaths,
    synced,    \* whether the last apply, of any request or boot, succeeded
    health,    \* the cache: age of the answer (TTL when stale or none), answer
    probe,     \* the probe under way: none, or whether its caller is there
    conduct    \* what happens in this behaviour:
               \*   overlap   requests run beside each other
               \*   compose   an apply of a stack creates apps
               \*   faults    reloads, writes and podman's calls fail, the process dies
               \*   registry  whether an image can be pulled
               \*   watched   /system is polled, and no request is sent

rollouts == <<kept, stuck, unapplied>>
vars == <<apps, rollouts, domains, req, lock, file, ctr, live, boot, deaths, synced, health, probe, conduct>>
served == <<file, ctr, live>>
system == <<boot, deaths, health, probe, conduct>>

NoDomain == [app |-> "none"]
Idle == [pc |-> "idle"]
Done(failed) == [pc |-> "done", failed |-> failed]
NoProbe == "none"
Absent == [owner |-> "nobody", fits |-> TRUE, state |-> "absent"]
Owners == {"us", "unlabeled", "them"}

Ids == 1..MaxIds
Rows == {d \in Ids : domains[d] # NoDomain}
RowsOf(s) == {d \in Rows : domains[d].app = s}
NextId == IF Rows = {} THEN 1 ELSE 1 + CHOOSE d \in Rows : \A e \in Rows : e <= d

\* Routes, and Render with the dashboard's route in front.
ConfigOf(up) == {<<"dashboard", Dashboard>>}
                \cup {<<s, Generated[s]>> : s \in up}
                \cup {<<domains[d].app, domains[d].host>> : d \in {e \in Rows : domains[e].app \in up}}

Running == {s \in Slugs : apps[s] = "running"}
Config == ConfigOf(Running)

Init ==
    /\ apps \in {f \in [Slugs -> {"absent", "running"}] :
                  \A s \in Slugs : f[s] = "running" => Generated[s] # Dashboard}
    /\ kept = Running /\ stuck = {} /\ unapplied = {}
    /\ domains = [d \in Ids |-> NoDomain]
    /\ req = [r \in Requests |-> Idle]
    /\ lock = {}
    /\ ctr \in {Absent} \cup [owner : Owners, fits : BOOLEAN, state : {"created", "running", "stopped"}]
    /\ file = Config /\ live = Config
    /\ boot = "down" /\ deaths = 0 /\ synced = FALSE
    /\ health = [age |-> TTL, up |-> TRUE] /\ probe = NoProbe
    /\ conduct \in Conducts

----------------------------------------------------------------------------
(* Requests. Every call of the store is a step. *)

Active(r) == req[r].pc \notin {"idle", "done"}
Goes(r, to) == req' = [req EXCEPT ![r] = to]
At(r, pc) == boot = "up" /\ req[r].pc = pc
Applying(undo) == [pc |-> "lock", config |-> {}, undo |-> undo]
Step(r, pc) == [req[r] EXCEPT !.pc = pc]
Rollout(pc, s) == [pc |-> pc, app |-> s]

\* The apps that are being rolled out.
Rolling == {s \in Slugs : \E r \in Requests :
              \/ req[r].pc \in {"mark", "attempt", "cutover", "finish", "fail"} /\ req[r].app = s
              \/ req[r].pc \in {"lock", "read", "write", "reload"} /\ req[r].undo = [how |-> "status", app |-> s]}

Begin(r) ==
    /\ At(r, "idle") /\ ~conduct.watched /\ (conduct.overlap \/ \A q \in Requests : ~Active(q))
    /\ \E s \in Slugs :
          \/ \E h \in Custom : apps[s] # "absent" /\ Goes(r, [pc |-> "count", app |-> s, host |-> h])
          \/ \E d \in Ids : apps[s] # "absent" /\ Goes(r, [pc |-> "find", app |-> s, id |-> d])
          \/ Goes(r, [pc |-> "lookup", app |-> s])
          \/ conduct.compose /\ Goes(r, [pc |-> "create", app |-> s])
          \/ apps[s] # "absent" /\ s \notin Rolling /\ Goes(r, Rollout("mark", s))
    /\ UNCHANGED <<apps, rollouts, domains, lock, served, synced, system>>

\* handleAddDomain: the number of the app's domains, the names of all apps and
\* the dashboard, then the insert, which fails if a row has the hostname.
Count(r) ==
    /\ At(r, "count")
    /\ Goes(r, IF Cardinality(RowsOf(req[r].app)) < MaxPerApp THEN Step(r, "compare") ELSE Done(FALSE))
    /\ UNCHANGED <<apps, rollouts, domains, lock, served, synced, system>>

\* Variant: only the app's own name.
Collides_Own(r) == req[r].host \in {Generated[req[r].app], Dashboard}

Collides(r) ==
    req[r].host \in {Generated[s] : s \in {t \in Slugs : apps[t] # "absent"}} \cup {Dashboard}

Compare(r) ==
    /\ At(r, "compare")
    /\ Goes(r, IF Collides(r) THEN Done(FALSE) ELSE Step(r, "insert"))
    /\ UNCHANGED <<apps, rollouts, domains, lock, served, synced, system>>

AddRow(s, h) == IF \E d \in Rows : domains[d].host = h THEN domains
                ELSE [domains EXCEPT ![NextId] = [app |-> s, host |-> h]]

Insert(r) ==
    /\ At(r, "insert") /\ NextId \in Ids
    /\ domains' = AddRow(req[r].app, req[r].host)
    /\ Goes(r, IF domains' = domains THEN Done(FALSE)
               ELSE Applying([how |-> "delete", id |-> NextId]))
    /\ UNCHANGED <<apps, rollouts, lock, served, synced, system>>

\* handleDeleteDomain: the row must be one of the app's when it is looked for.
Find(r) ==
    /\ At(r, "find")
    /\ Goes(r, IF req[r].id \in RowsOf(req[r].app)
               THEN [pc |-> "remove", app |-> req[r].app, id |-> req[r].id,
                     host |-> domains[req[r].id].host]
               ELSE Done(FALSE))
    /\ UNCHANGED <<apps, rollouts, domains, lock, served, synced, system>>

Remove(r) ==
    /\ At(r, "remove")
    /\ domains' = [domains EXCEPT ![req[r].id] = NoDomain]
    /\ Goes(r, Applying([how |-> "insert", app |-> req[r].app, host |-> req[r].host]))
    /\ UNCHANGED <<apps, rollouts, lock, served, synced, system>>

\* handleCreateApp: the dashboard and the domains, then the insert. An apply of
\* a stack (upsertComposeApp) has the insert alone.
Lookup(r) ==
    /\ At(r, "lookup")
    /\ Goes(r, IF \/ Generated[req[r].app] = Dashboard
                  \/ \E d \in Rows : domains[d].host = Generated[req[r].app]
               THEN Done(FALSE) ELSE Step(r, "create"))
    /\ UNCHANGED <<apps, rollouts, domains, lock, served, synced, system>>

Create(r) ==
    /\ At(r, "create")
    /\ apps' = [apps EXCEPT ![req[r].app] = IF @ = "absent" THEN "created" ELSE @]
    /\ Goes(r, Done(FALSE))
    /\ UNCHANGED <<rollouts, domains, lock, served, synced, system>>

----------------------------------------------------------------------------
(* A rollout: its row is there when it begins. It changes the app's status  *)
(* when it starts, when its container is up and when it has failed, and     *)
(* applies the routes at the second only.                                   *)

Status(s, status) == apps' = [apps EXCEPT ![s] = status]

Mark(r) ==
    /\ At(r, "mark")
    /\ Status(req[r].app, "deploying") /\ unapplied' = unapplied \cup {req[r].app}
    /\ Goes(r, Step(r, "attempt"))
    /\ UNCHANGED <<kept, stuck, domains, lock, served, synced, system>>

\* The image, the removal of the old containers under "replace", the new one and
\* its probe.
Attempt(r) ==
    /\ At(r, "attempt")
    /\ \E up \in BOOLEAN :
          /\ kept' \in {kept} \cup (IF req[r].app \in Replaces THEN {kept \ {req[r].app}} ELSE {})
          /\ up /\ req[r].app \in Replaces /\ ~conduct.faults => req[r].app \notin kept'
          /\ Goes(r, Step(r, IF up THEN "cutover" ELSE "fail"))
    /\ UNCHANGED <<apps, stuck, unapplied, domains, lock, served, synced, system>>

Cutover(r) ==
    /\ At(r, "cutover")
    /\ Status(req[r].app, "running")
    /\ Goes(r, Applying([how |-> "status", app |-> req[r].app]))
    /\ UNCHANGED <<rollouts, domains, lock, served, synced, system>>

\* A write that ends a row is only logged when it fails.
Ended(s) == stuck' \in {stuck} \cup (IF conduct.faults THEN {stuck \cup {s}} ELSE {})

Finish(r) ==
    /\ At(r, "finish")
    /\ kept' = kept \cup {req[r].app} /\ Ended(req[r].app)
    /\ Goes(r, Done(FALSE))
    /\ UNCHANGED <<apps, unapplied, domains, lock, served, synced, system>>

\* fail(): the new container is removed, and the app runs if one is left. The
\* removal, the listing and both writes may fail, and are only logged.
Fail(r) ==
    /\ At(r, "fail")
    /\ LET s == req[r].app
       IN  /\ \E status \in {IF s \in kept THEN "running" ELSE "error"}
                            \cup (IF conduct.faults THEN {"error", apps[s]} ELSE {}) : Status(s, status)
           /\ kept' \in {kept} \cup (IF conduct.faults THEN {kept \cup {s}} ELSE {})
           /\ Ended(s)
           /\ unapplied' = unapplied \cup {s}
    /\ Goes(r, Done(TRUE))
    /\ UNCHANGED <<domains, lock, served, synced, system>>

\* A service of a stack is given up after another has failed, or when there is
\* nothing to build it from, which a new app's status says.
Abort(r) ==
    /\ At(r, "mark") /\ conduct.compose
    /\ \/ UNCHANGED apps
       \/ apps[req[r].app] = "created" /\ Status(req[r].app, "error")
    /\ Ended(req[r].app)
    /\ Goes(r, Done(TRUE))
    /\ UNCHANGED <<kept, unapplied, domains, lock, served, synced, system>>

----------------------------------------------------------------------------
(* ApplyRoutes: under routesMu the store is read and the manager applies.  *)

\* Variant: no mutex.
Free_Always == TRUE

Free == lock = {}

Lock(r) ==
    /\ At(r, "lock") /\ Free
    /\ lock' = lock \cup {r}
    /\ Goes(r, Step(r, "read"))
    /\ UNCHANGED <<apps, rollouts, domains, served, synced, system>>

Read(r) ==
    /\ At(r, "read")
    /\ Goes(r, [req[r] EXCEPT !.pc = "write", !.config = Config])
    /\ unapplied' = {}
    /\ UNCHANGED <<apps, kept, stuck, domains, lock, served, synced, system>>

\* After a failed apply a rollout fails, and another request undoes its change.
Failed(r) == IF req[r].undo.how = "status" THEN Rollout("fail", req[r].undo.app) ELSE Step(r, "undo")
Succeeded(r) == IF req[r].undo.how = "status" THEN Rollout("finish", req[r].undo.app) ELSE Done(FALSE)

\* Apply: current.json is replaced, then reloaded. A reload that is reported as
\* failed may have been done.
Write(r) ==
    /\ At(r, "write")
    /\ \/ file' = req[r].config /\ Goes(r, Step(r, "reload")) /\ UNCHANGED <<lock, synced>>
       \/ conduct.faults /\ Goes(r, Failed(r)) /\ lock' = {} /\ synced' = FALSE /\ UNCHANGED file
    /\ UNCHANGED <<apps, rollouts, domains, ctr, live, system>>

Reload(r) ==
    /\ At(r, "reload")
    /\ lock' = lock \ {r}
    /\ \/ ctr.state = "running" /\ live' = file /\ synced' = TRUE /\ Goes(r, Succeeded(r))
       \/ /\ conduct.faults \/ ctr.state # "running"
          /\ live' \in {live} \cup (IF ctr.state = "running" THEN {file} ELSE {})
          /\ synced' = FALSE
          /\ Goes(r, Failed(r))
    /\ UNCHANGED <<apps, rollouts, domains, file, ctr, system>>

\* The row is deleted or inserted again, without a look at the outcome.
Undo(r) ==
    /\ At(r, "undo")
    /\ LET undo == req[r].undo
       IN  \/ /\ undo.how = "delete"
              /\ domains' = [domains EXCEPT ![undo.id] = NoDomain]
           \/ /\ undo.how = "insert" /\ NextId \in Ids
              /\ domains' = AddRow(undo.app, undo.host)
    /\ Goes(r, Done(TRUE))
    /\ UNCHANGED <<apps, rollouts, lock, served, synced, system>>

\* A call of the store fails, a read or a write (AddDomain, DeleteDomain,
\* CreateApp and what is read before them; UpdateAppStatus; Routes): before the
\* row is written the request ends, a rollout fails, and a failed undo leaves
\* the row as it is.
StoreFails(r) ==
    /\ boot = "up" /\ conduct.faults
    /\ \/ req[r].pc \in {"count", "compare", "insert", "find", "remove", "lookup", "create", "undo"}
          /\ Goes(r, Done(TRUE)) /\ UNCHANGED <<lock, synced>>
       \/ req[r].pc \in {"mark", "cutover"} /\ Goes(r, Step(r, "fail")) /\ UNCHANGED <<lock, synced>>
       \/ req[r].pc = "read" /\ Goes(r, Failed(r)) /\ lock' = {} /\ synced' = FALSE
    /\ UNCHANGED <<apps, rollouts, domains, served, system>>

----------------------------------------------------------------------------
(* The process: server.Run ensures the container, removes the orphans and  *)
(* sweeps the stuck deployments, then applies the routes; an error of the  *)
(* first or the last ends it, and it is started again.                     *)

others == <<domains, req, lock, deaths, health, probe, conduct>>
rest == <<apps, rollouts, others>>

Fails(step) == boot = step /\ conduct.faults /\ boot' = "down" /\ UNCHANGED <<rest, served, synced>>

Start == boot = "down" /\ boot' = "inspect" /\ UNCHANGED <<rest, served, synced>>

Drifted == ctr.state = "created" \/ ~ctr.fits

\* Variant: the image is pulled when the old container is gone.
Inspected_PullsLater ==
    IF ctr.state = "absent" THEN "empty"
    ELSE IF ctr.owner = "them" THEN "down"
    ELSE IF Drifted THEN "stop"
    ELSE IF ctr.state = "stopped" THEN "launch" ELSE "sweep"

\* What Ensure does next about the container it has found.
Inspected ==
    IF ctr.state = "absent" THEN "empty"
    ELSE IF ctr.owner = "them" THEN "down"
    ELSE IF Drifted THEN "pull"
    ELSE IF ctr.state = "stopped" THEN "launch" ELSE "sweep"

Inspect == boot = "inspect" /\ boot' = Inspected /\ UNCHANGED <<rest, served, synced>>

\* pullImage, before the old container is touched and again in create.
Pull(step, next) ==
    /\ boot = step
    /\ \/ conduct.registry \in {"up", "flaky"} /\ boot' = next
       \/ conduct.registry \in {"down", "flaky"} /\ boot' = "down"
    /\ UNCHANGED <<rest, served, synced>>

Stop == /\ boot = "stop" /\ boot' = "remove"
        /\ ctr' = [ctr EXCEPT !.state = IF @ = "running" THEN "stopped" ELSE @]
        /\ UNCHANGED <<rest, file, live, synced>>

RemoveOld == /\ boot = "remove" /\ boot' = "empty"
             /\ ctr' = Absent
             /\ UNCHANGED <<rest, file, live, synced>>

Empty == /\ boot = "empty" /\ boot' = "repull"
         /\ file' = {}
         /\ UNCHANGED <<rest, ctr, live, synced>>

Make == /\ boot = "make" /\ boot' = "launch"
        /\ ctr' = [owner |-> "us", fits |-> TRUE, state |-> "created"]
        /\ UNCHANGED <<rest, file, live, synced>>

Launch == /\ boot = "launch" /\ boot' = "sweep"
          /\ ctr' = [ctr EXCEPT !.state = "running"]
          /\ live' = file
          /\ UNCHANGED <<rest, file, synced>>

\* CleanupOrphans and SweepStuckDeployments (Rollout has what each of them
\* does): a stuck row is left alone, or it has failed and its app runs if a
\* container of it does. Only an orphan is removed.
Sweep == /\ boot = "sweep" /\ boot' = "apply"
         /\ \E swept \in SUBSET stuck, up \in SUBSET stuck :
               /\ up \subseteq swept /\ stuck' = stuck \ swept
               /\ apps' = [s \in Slugs |-> IF s \in up THEN "running"
                                           ELSE IF s \in swept THEN "error" ELSE apps[s]]
               /\ IF conduct.faults THEN kept' \in SUBSET (kept \cup stuck) ELSE kept' = kept
               /\ up \subseteq kept'
         /\ unapplied' = unapplied \cup stuck
         /\ UNCHANGED <<others, served, synced>>

BootApply == /\ boot = "apply" /\ boot' = "reload"
             /\ file' = Config /\ unapplied' = {}
             /\ UNCHANGED <<apps, kept, stuck, others, ctr, live, synced>>

BootReload == /\ boot = "reload" /\ ctr.state = "running" /\ boot' = "up"
              /\ live' = file
              /\ synced' = TRUE
              /\ UNCHANGED <<rest, file, ctr>>

Ensure == \/ Start \/ Inspect \/ Pull("pull", "stop") \/ Stop \/ RemoveOld \/ Empty
          \/ Pull("repull", "make") \/ Make \/ Launch \/ Sweep \/ BootApply \/ BootReload
          \/ \E s \in {"inspect", "stop", "remove", "empty", "make", "launch", "apply", "reload"} : Fails(s)

Die == /\ conduct.faults /\ boot # "down" /\ deaths < MaxDeaths
       /\ boot' = "down" /\ deaths' = deaths + 1
       /\ req' = [r \in Requests |-> IF Active(r) THEN Done(TRUE) ELSE req[r]]
       /\ lock' = {} /\ synced' = FALSE /\ stuck' = stuck \cup Rolling
       /\ health' = [age |-> TTL, up |-> TRUE] /\ probe' = NoProbe
       /\ UNCHANGED <<apps, kept, unapplied, domains, served, conduct>>

\* RestartPolicy "always": it starts with what the file holds.
CaddyRestarts == /\ conduct.faults \/ conduct.watched
                 /\ boot = "up" /\ ctr.state \in {"running", "stopped"}
                 /\ ctr' = [ctr EXCEPT !.state = "running"]
                 /\ live' = file
                 /\ UNCHANGED <<rest, boot, file, synced>>
CaddyStops == /\ conduct.watched /\ boot = "up" /\ ctr.state = "running"
              /\ ctr' = [ctr EXCEPT !.state = "stopped"]
              /\ UNCHANGED <<rest, boot, file, live, synced>>

----------------------------------------------------------------------------
(* Health: one probe at a time, its answer cached for TTL. *)

unwatched == <<apps, rollouts, domains, req, lock, served, boot, deaths, synced, conduct>>

Tick == /\ conduct.watched /\ boot = "up" /\ health.age < TTL
        /\ health' = [health EXCEPT !.age = @ + 1]
        /\ UNCHANGED <<unwatched, probe>>

Ask == /\ conduct.watched /\ boot = "up" /\ health.age = TTL /\ probe = NoProbe
       /\ probe' = "caller waits"
       /\ UNCHANGED <<unwatched, health>>

CallerLeaves == /\ probe = "caller waits"
                /\ probe' = "caller gone"
                /\ UNCHANGED <<unwatched, health>>

\* Variant: every answer is cached.
Cached_Always(answer) == [age |-> 0, up |-> answer]

\* A probe without its caller says nothing about Caddy.
Cached(answer) == IF probe = "caller gone" THEN health ELSE [age |-> 0, up |-> answer]

Answer == /\ probe # NoProbe
          /\ probe' = NoProbe
          /\ health' = Cached(probe = "caller waits" /\ ctr.state = "running")
          /\ UNCHANGED unwatched

----------------------------------------------------------------------------

Add(r) == Count(r) \/ Compare(r) \/ Insert(r)
Delete(r) == Find(r) \/ Remove(r)
CreateApp(r) == Lookup(r) \/ Create(r)
RollOut(r) == Mark(r) \/ Attempt(r) \/ Cutover(r) \/ Finish(r) \/ Fail(r) \/ Abort(r)
ApplyRoutes(r) == Lock(r) \/ Read(r) \/ Write(r) \/ Reload(r) \/ Undo(r)

Next == \/ \E r \in Requests : \/ Begin(r) \/ Add(r) \/ Delete(r) \/ CreateApp(r) \/ RollOut(r)
                               \/ ApplyRoutes(r) \/ StoreFails(r)
        \/ Ensure \/ Die \/ CaddyRestarts \/ CaddyStops
        \/ Tick \/ Ask \/ CallerLeaves \/ Answer

Spec == Init /\ [][Next]_vars

----------------------------------------------------------------------------
(* Properties *)

Configs == SUBSET ((Slugs \cup {"dashboard"}) \X Hosts)
Statuses == {"absent", "created", "deploying", "running", "error"}
Undos == [how : {"delete"}, id : Ids] \cup [how : {"insert"}, app : Slugs, host : Custom]
         \cup [how : {"status"}, app : Slugs]
Adds == [pc : {"count", "compare", "insert"}, app : Slugs, host : Custom]
Removes == [pc : {"remove"}, app : Slugs, id : Ids, host : Custom]
Rollouts == [pc : {"mark", "attempt", "cutover", "finish", "fail"}, app : Slugs]
Applies == [pc : {"lock", "read", "write", "reload", "undo"}, config : Configs, undo : Undos]

\* The variables are of the types of their code; a request at a call has what
\* the call needs.
TypeOK ==
    /\ apps \in [Slugs -> Statuses]
    /\ kept \subseteq Slugs /\ stuck \subseteq Slugs /\ unapplied \subseteq Slugs
    /\ domains \in [Ids -> {NoDomain} \cup [app : Slugs, host : Custom]]
    /\ req \in [Requests -> {Idle} \cup [pc : {"done"}, failed : BOOLEAN]
                             \cup Adds \cup [pc : {"find"}, app : Slugs, id : Ids] \cup Removes
                             \cup [pc : {"lookup", "create"}, app : Slugs] \cup Rollouts \cup Applies]
    /\ lock \in SUBSET Requests
    /\ file \in Configs /\ live \in Configs
    /\ ctr \in [owner : Owners \cup {"nobody"}, fits : BOOLEAN, state : {"absent", "created", "running", "stopped"}]
    /\ boot \in {"down", "inspect", "pull", "stop", "remove", "empty", "repull", "make", "launch", "sweep", "apply", "reload", "up"}
    /\ deaths \in Nat /\ synced \in BOOLEAN
    /\ health \in [age : 0..TTL, up : BOOLEAN] /\ probe \in {NoProbe, "caller waits", "caller gone"}
    /\ conduct \in Conducts

\* When no request is under way and the last apply succeeded, Caddy runs what
\* the store says, and would after a restart: routes are computed and applied
\* under one mutex, a failed apply is undone in the store, and every boot starts
\* over. A rollout that marks its app or fails applies nothing, so of the apps
\* whose status has changed since the routes were computed the old routes may be
\* left; but none that the store says runs is without its route, where requests
\* do not overlap and no call fails.
\* (When requests overlap and applies fail, the undone row of one may have been
\* routed by another, and nothing applies again.)
ServedIsStored ==
    /\ ~(conduct.overlap /\ conduct.faults) /\ boot = "up" /\ synced
    /\ \A r \in Requests : ~Active(r)
    => /\ \E left \in SUBSET unapplied : file = ConfigOf((Running \ unapplied) \cup left)
       /\ ~conduct.overlap /\ ~conduct.faults => Config \subseteq file
       /\ ctr.state = "running" => live = file

Names == {<<"dashboard", Dashboard>>}
         \cup {<<s, Generated[s]>> : s \in {t \in Slugs : apps[t] # "absent"}}
         \cup {<<domains[d].app, domains[d].host>> : d \in Rows}

\* A hostname leads to one app, or to the dashboard: a custom domain, a
\* generated name and the dashboard's never meet, as long as requests do not
\* overlap and no stack is applied (an apply checks nothing of this).
HostsUnique ==
    ~conduct.overlap /\ ~conduct.compose =>
        \A m, n \in Names : m[2] = n[2] => m = n

\* A boot never touches the container of another instance, and when no image
\* can be pulled it leaves a container that runs running, and its file full:
\* "a pull failure leaves the old container running rather than tearing down
\* ingress with nothing to replace it".
IngressKept ==
    [][boot' # boot =>
          /\ ctr.owner = "them" => ctr' = ctr /\ file' = file
          /\ conduct.registry = "down" /\ ctr.state = "running" =>
                ctr'.state = "running" /\ file' # {}]_<<boot, ctr, file>>

\* A cached answer was true of Caddy when it was given: "A probe that failed
\* because the caller went away says nothing about Caddy".
HealthHonest ==
    [][health'.age < health.age => health'.up = (ctr.state = "running")]_<<health, ctr>>
=============================================================================
