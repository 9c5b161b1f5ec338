--------------------------- MODULE IngressProofs ---------------------------
(***************************************************************************)
(* Theorems about module Ingress, for any apps, hostnames, requests and    *)
(* conduct: its types, the health cache, what a boot leaves alone, that    *)
(* Caddy serves what the store says, and that a hostname has one owner.    *)
(***************************************************************************)
EXTENDS Ingress, TLAPS

----------------------------------------------------------------------------
(* Types.                                                                  *)

LEMMA TTLNat == TTL \in Nat
BY IngressAssumption DEF IngressAssumption

LEMMA Answered == ASSUME NEW answer \in BOOLEAN PROVE [age |-> 0, up |-> answer] \in [age : 0..TTL, up : BOOLEAN]
BY TTLNat

LEMMA Aged ==
    ASSUME NEW h \in [age : 0..TTL, up : BOOLEAN], h.age < TTL
    PROVE  [h EXCEPT !.age = @ + 1] \in [age : 0..TTL, up : BOOLEAN]
BY TTLNat

\* A request at a call has the record of that call.
LEMMA Shapes ==
    ASSUME TypeOK, NEW r \in Requests
    PROVE  /\ req[r].pc \in {"count", "compare", "insert"} => req[r] \in Adds
           /\ req[r].pc = "find" => req[r].app \in Slugs /\ req[r].id \in Ids
           /\ req[r].pc = "remove" => req[r] \in Removes
           /\ req[r].pc \in {"lookup", "create"} => req[r] \in [pc : {"lookup", "create"}, app : Slugs]
           /\ req[r].pc \in {"mark", "attempt", "cutover", "finish", "fail"} => req[r] \in Rollouts
           /\ req[r].pc \in {"lock", "read", "write", "reload", "undo"} => req[r] \in Applies
<1> USE DEF Idle, Adds, Removes, Applies, Rollouts
<1>1. \/ req[r] = Idle \/ req[r] \in [pc : {"done"}, failed : BOOLEAN] \/ req[r] \in Adds
      \/ req[r] \in [pc : {"find"}, app : Slugs, id : Ids] \/ req[r] \in Removes
      \/ req[r] \in [pc : {"lookup", "create"}, app : Slugs] \/ req[r] \in Rollouts \/ req[r] \in Applies
  BY DEF TypeOK
<1>2. CASE req[r] = Idle \/ req[r] \in [pc : {"done"}, failed : BOOLEAN]
  BY <1>2
<1>3. CASE req[r] \in Adds
  BY <1>3
<1>4. CASE req[r] \in [pc : {"find"}, app : Slugs, id : Ids]
  BY <1>4
<1>5. CASE req[r] \in Removes
  BY <1>5
<1>6. CASE req[r] \in [pc : {"lookup", "create"}, app : Slugs]
  BY <1>6
<1>7. CASE req[r] \in Applies
  BY <1>7
<1>8. CASE req[r] \in Rollouts
  BY <1>8
<1> QED
  BY <1>1, <1>2, <1>3, <1>4, <1>5, <1>6, <1>7, <1>8

\* What the store routes is a configuration.
LEMMA ConfigsTyped == ASSUME TypeOK, NEW up \in SUBSET Slugs PROVE ConfigOf(up) \in Configs
<1>1. \A d \in Rows : domains[d].app \in Slugs /\ domains[d].host \in Hosts
  BY IngressAssumption DEF TypeOK, IngressAssumption, Rows
<1> QED
  BY <1>1, IngressAssumption DEF IngressAssumption, ConfigOf, Configs

LEMMA ConfigTyped == ASSUME TypeOK PROVE Config \in Configs
BY ConfigsTyped DEF Config, Running

\* An insert leaves rows.
LEMMA AddRowTyped ==
    ASSUME TypeOK, NEW s \in Slugs, NEW h \in Custom, NextId \in Ids
    PROVE  AddRow(s, h) \in [Ids -> {NoDomain} \cup [app : Slugs, host : Custom]]
BY DEF TypeOK, AddRow

\* The variables a request does not change, or changes within their types.
RestTyped ==
    /\ boot' = boot /\ deaths' = deaths /\ health' = health /\ probe' = probe /\ conduct' = conduct
    /\ ctr' = ctr

\* The record a request goes on with is one of its calls.
Goal(to) ==
    to \in {Idle} \cup [pc : {"done"}, failed : BOOLEAN]
           \cup Adds \cup [pc : {"find"}, app : Slugs, id : Ids] \cup Removes
           \cup [pc : {"lookup", "create"}, app : Slugs] \cup Rollouts \cup Applies

LEMMA GoesTyped ==
    ASSUME TypeOK, NEW r \in Requests, NEW to, Goal(to), Goes(r, to), RestTyped,
           apps' \in [Slugs -> Statuses], kept' \subseteq Slugs, stuck' \subseteq Slugs, unapplied' \subseteq Slugs,
           domains' \in [Ids -> {NoDomain} \cup [app : Slugs, host : Custom]],
           lock' \in SUBSET Requests, file' \in Configs, live' \in Configs, synced' \in BOOLEAN
    PROVE  TypeOK'
<1>1. req' = [req EXCEPT ![r] = to]
  BY DEF Goes
<1>2. req' \in [Requests -> {Idle} \cup [pc : {"done"}, failed : BOOLEAN]
                             \cup Adds \cup [pc : {"find"}, app : Slugs, id : Ids] \cup Removes
                             \cup [pc : {"lookup", "create"}, app : Slugs] \cup Rollouts \cup Applies]
  BY <1>1 DEF TypeOK, Goal
<1> QED
  BY <1>2 DEF TypeOK, RestTyped, Statuses, Configs, Rows

\* The steps of a request before its apply.
LEMMA EarlyTyped ==
    ASSUME TypeOK, NEW r \in Requests, Begin(r) \/ Add(r) \/ Delete(r) \/ CreateApp(r)
    PROVE  TypeOK'
<1> USE DEF Goal, Done, Adds, Removes, Applies, Undos, Configs
<1>0. ASSUME UNCHANGED rollouts PROVE kept' \subseteq Slugs /\ stuck' \subseteq Slugs /\ unapplied' \subseteq Slugs
  BY <1>0 DEF rollouts, TypeOK
<1>1. ASSUME UNCHANGED system, UNCHANGED served, UNCHANGED <<lock, synced>> PROVE
         RestTyped /\ lock' \in SUBSET Requests /\ file' \in Configs /\ live' \in Configs /\ synced' \in BOOLEAN
  BY <1>1 DEF system, served, RestTyped, TypeOK
<1>2. ASSUME UNCHANGED <<apps, domains>>
      PROVE  /\ apps' \in [Slugs -> Statuses]
             /\ domains' \in [Ids -> {NoDomain} \cup [app : Slugs, host : Custom]]
  BY <1>2 DEF TypeOK
<1>3. CASE Begin(r)
  <2>1. PICK to : Goal(to) /\ Goes(r, to)
    BY <1>3 DEF Begin, Rollout, Rollouts
  <2> QED
    BY <1>0, <1>1, <1>2, <1>3, <2>1, GoesTyped DEF Begin
<1>4. CASE Count(r)
  <2>1. req[r] \in Adds
    BY <1>4, Shapes DEF Count, At
  <2>2. PICK to : Goal(to) /\ Goes(r, to)
    BY <1>4, <2>1 DEF Count, Step
  <2> QED
    BY <1>0, <1>1, <1>2, <1>4, <2>2, GoesTyped DEF Count
<1>5. CASE Compare(r)
  <2>1. req[r] \in Adds
    BY <1>5, Shapes DEF Compare, At
  <2>2. PICK to : Goal(to) /\ Goes(r, to)
    BY <1>5, <2>1 DEF Compare, Step
  <2> QED
    BY <1>0, <1>1, <1>2, <1>5, <2>2, GoesTyped DEF Compare
<1>6. CASE Insert(r)
  <2>1. req[r] \in Adds
    BY <1>6, Shapes DEF Insert, At
  <2>2. NextId \in Ids /\ domains' \in [Ids -> {NoDomain} \cup [app : Slugs, host : Custom]]
    BY <1>6, <2>1, AddRowTyped DEF Insert
  <2>3. PICK to : Goal(to) /\ Goes(r, to)
    BY <1>6, <2>1, <2>2 DEF Insert, Applying
  <2> QED
    BY <1>0, <1>1, <1>6, <2>2, <2>3, GoesTyped DEF Insert, TypeOK
<1>7. CASE Find(r)
  <2>1. req[r].app \in Slugs /\ req[r].id \in Ids
    BY <1>7, Shapes DEF Find, At
  <2>2. req[r].id \in RowsOf(req[r].app) => domains[req[r].id].host \in Custom
    BY <2>1 DEF RowsOf, Rows, TypeOK
  <2>3. PICK to : Goal(to) /\ Goes(r, to)
    BY <1>7, <2>1, <2>2 DEF Find
  <2> QED
    BY <1>0, <1>1, <1>2, <1>7, <2>3, GoesTyped DEF Find
<1>8. CASE Remove(r)
  <2>1. req[r] \in Removes
    BY <1>8, Shapes DEF Remove, At
  <2>2. domains' \in [Ids -> {NoDomain} \cup [app : Slugs, host : Custom]]
    BY <1>8, <2>1 DEF Remove, TypeOK
  <2>3. PICK to : Goal(to) /\ Goes(r, to)
    BY <1>8, <2>1 DEF Remove, Applying
  <2> QED
    BY <1>0, <1>1, <1>8, <2>2, <2>3, GoesTyped DEF Remove, TypeOK
<1>9. CASE Lookup(r)
  <2>1. req[r] \in [pc : {"lookup", "create"}, app : Slugs]
    BY <1>9, Shapes DEF Lookup, At
  <2>2. PICK to : Goal(to) /\ Goes(r, to)
    BY <1>9, <2>1 DEF Lookup, Step
  <2> QED
    BY <1>0, <1>1, <1>2, <1>9, <2>2, GoesTyped DEF Lookup
<1>10. CASE Create(r)
  <2>1. apps' \in [Slugs -> Statuses]
    BY <1>10 DEF Create, TypeOK, Statuses
  <2>2. PICK to : Goal(to) /\ Goes(r, to)
    BY <1>10 DEF Create
  <2> QED
    BY <1>0, <1>1, <1>10, <2>1, <2>2, GoesTyped DEF Create, TypeOK
<1> QED
  BY <1>3, <1>4, <1>5, <1>6, <1>7, <1>8, <1>9, <1>10 DEF Add, Delete, CreateApp

\* The steps of a rollout, apart from its apply.
LEMMA RolloutTyped ==
    ASSUME TypeOK, NEW r \in Requests, RollOut(r)
    PROVE  TypeOK'
<1> USE DEF Goal, Done, Rollouts
<1>1. req[r] \in Rollouts /\ req[r].app \in Slugs
  BY Shapes DEF RollOut, Mark, Attempt, Cutover, Finish, Fail, Abort, At
<1>2. RestTyped /\ lock' \in SUBSET Requests /\ file' \in Configs /\ live' \in Configs /\ synced' \in BOOLEAN
      /\ domains' \in [Ids -> {NoDomain} \cup [app : Slugs, host : Custom]]
  BY DEF RollOut, Mark, Attempt, Cutover, Finish, Fail, Abort, system, served, RestTyped, TypeOK
<1>3. \A status \in Statuses : Status(req[r].app, status) => apps' \in [Slugs -> Statuses]
  BY DEF Status, TypeOK
<1>4. apps' \in [Slugs -> Statuses]
  <2>1. CASE UNCHANGED apps
    BY <2>1 DEF TypeOK
  <2>2. apps[req[r].app] \in Statuses
    BY <1>1 DEF TypeOK
  <2> QED
    BY <1>3, <2>1, <2>2 DEF RollOut, Mark, Attempt, Cutover, Finish, Fail, Abort, Statuses, rollouts
<1>5. kept' \subseteq Slugs /\ stuck' \subseteq Slugs /\ unapplied' \subseteq Slugs
  BY <1>1 DEF RollOut, Mark, Attempt, Cutover, Finish, Fail, Abort, Ended, rollouts, TypeOK
<1>6. PICK to : Goal(to) /\ Goes(r, to)
  <2>1. \A pc \in {"attempt", "cutover", "fail"} : Step(r, pc) \in Rollouts
    BY <1>1 DEF Step
  <2>2. Applying([how |-> "status", app |-> req[r].app]) \in Applies
    BY <1>1 DEF Applying, Applies, Undos, Configs
  <2> QED
    BY <2>1, <2>2 DEF RollOut, Mark, Attempt, Cutover, Finish, Fail, Abort
<1> QED
  BY <1>2, <1>4, <1>5, <1>6, GoesTyped

\* What a request goes on with after its apply.
LEMMA AfterApply ==
    ASSUME NEW r \in Requests, req[r] \in Applies
    PROVE  Goal(Failed(r)) /\ Goal(Succeeded(r))
<1>1. req[r].undo \in Undos /\ Step(r, "undo") \in Applies
  BY DEF Applies, Step
<1>2. req[r].undo.how = "status" => req[r].undo.app \in Slugs
  BY <1>1 DEF Undos
<1> QED
  BY <1>1, <1>2 DEF Goal, Failed, Succeeded, Rollout, Rollouts, Done

\* The steps of its apply.
LEMMA ApplyTyped ==
    ASSUME TypeOK, NEW r \in Requests, ApplyRoutes(r)
    PROVE  TypeOK'
<1> USE DEF Goal, Done, Applies
<1>0. kept' \subseteq Slugs /\ stuck' \subseteq Slugs /\ unapplied' \subseteq Slugs
  BY DEF ApplyRoutes, Lock, Read, Write, Reload, Undo, rollouts, TypeOK
<1>1. req[r] \in Applies
  BY Shapes DEF ApplyRoutes, Lock, Read, Write, Reload, Undo, At
<1>2. CASE Lock(r)
  <2>1. PICK to : Goal(to) /\ Goes(r, to)
    BY <1>1, <1>2 DEF Lock, Step
  <2> QED
    BY <1>2, <1>0, <2>1, GoesTyped DEF Lock, system, served, RestTyped, TypeOK
<1>3. CASE Read(r)
  <2>1. PICK to : Goal(to) /\ Goes(r, to)
    BY <1>1, <1>3, ConfigTyped DEF Read
  <2> QED
    BY <1>3, <1>0, <2>1, GoesTyped DEF Read, system, served, RestTyped, TypeOK
<1>4. CASE Write(r)
  <2>1. PICK to : Goal(to) /\ Goes(r, to)
    BY <1>1, <1>4, AfterApply DEF Write, Step
  <2>2. file' \in Configs /\ lock' \in SUBSET Requests /\ synced' \in BOOLEAN
    BY <1>1, <1>4 DEF Write, TypeOK
  <2> QED
    BY <1>4, <1>0, <2>1, <2>2, GoesTyped DEF Write, system, RestTyped, TypeOK
<1>5. CASE Reload(r)
  <2>1. PICK to : Goal(to) /\ Goes(r, to)
    BY <1>1, <1>5, AfterApply DEF Reload, Step
  <2>2. live' \in Configs /\ lock' \in SUBSET Requests /\ synced' \in BOOLEAN
    BY <1>5 DEF Reload, TypeOK
  <2> QED
    BY <1>5, <1>0, <2>1, <2>2, GoesTyped DEF Reload, system, RestTyped, TypeOK
<1>6. CASE Undo(r)
  <2>1. req[r].undo \in Undos
    BY <1>1
  <2>2. apps' \in [Slugs -> Statuses] /\ domains' \in [Ids -> {NoDomain} \cup [app : Slugs, host : Custom]]
    <3>1. CASE req[r].undo.how = "delete"
      BY <1>6, <2>1, <3>1 DEF Undo, Undos, TypeOK
    <3>2. CASE req[r].undo.how = "insert"
      <4>1. req[r].undo.app \in Slugs /\ req[r].undo.host \in Custom
        BY <2>1, <3>2 DEF Undos
      <4>2. apps' = apps /\ NextId \in Ids /\ domains' = AddRow(req[r].undo.app, req[r].undo.host)
        BY <1>6, <3>2 DEF Undo
      <4> QED
        BY <4>1, <4>2, AddRowTyped DEF TypeOK
    <3> QED
      BY <1>6, <3>1, <3>2 DEF Undo
  <2>3. PICK to : Goal(to) /\ Goes(r, to)
    BY <1>6 DEF Undo
  <2> QED
    BY <1>6, <1>0, <2>2, <2>3, GoesTyped DEF Undo, system, served, RestTyped, TypeOK
<1> QED
  BY <1>2, <1>3, <1>4, <1>5, <1>6 DEF ApplyRoutes

\* Nothing but the boot has changed.
LEMMA SameTyped ==
    ASSUME TypeOK, apps' = apps, kept' = kept, stuck' = stuck, unapplied' = unapplied, domains' = domains,
           req' = req, lock' = lock, file' = file, ctr' = ctr, live' = live, deaths' = deaths, synced' = synced,
           health' = health, probe' = probe, conduct' = conduct,
           boot' \in {"down", "inspect", "pull", "stop", "remove", "empty", "repull", "make", "launch", "sweep",
                      "apply", "reload", "up"}
    PROVE  TypeOK'
BY DEF TypeOK

\* A failure of the store.
LEMMA FailureTyped ==
    ASSUME TypeOK, NEW r \in Requests, StoreFails(r)
    PROVE  TypeOK'
<1>1. PICK to : Goal(to) /\ Goes(r, to)
  <2>1. CASE req[r].pc = "read"
    BY <2>1, Shapes, AfterApply DEF StoreFails
  <2>2. CASE req[r].pc \in {"mark", "cutover"}
    BY <2>2, Shapes DEF StoreFails, Step, Goal, Rollouts
  <2>3. CASE req[r].pc \notin {"mark", "cutover", "read"}
    BY <2>3 DEF StoreFails, Goal, Done
  <2> QED
    BY <2>1, <2>2, <2>3
<1> QED
  BY <1>1, GoesTyped DEF StoreFails, system, served, rollouts, RestTyped, TypeOK

\* The steps of the boot, of Caddy and of the health check, which leave requests
\* alone.
LEMMA SystemTyped ==
    ASSUME TypeOK, Ensure \/ Die \/ CaddyRestarts \/ CaddyStops \/ Tick \/ Ask \/ CallerLeaves \/ Answer
    PROVE  TypeOK'
<1>1. CASE Start \/ Inspect \/ Pull("pull", "stop") \/ Pull("repull", "make")
           \/ \E s \in {"inspect", "stop", "remove", "empty", "make", "launch", "apply", "reload"} : Fails(s)
  <2>1. UNCHANGED <<rest, served, synced>>
        /\ boot' \in {"down", "inspect", "pull", "stop", "empty", "make", "launch", "sweep"}
    BY <1>1 DEF Start, Inspect, Inspected, Pull, Fails
  <2> QED
    BY <2>1, SameTyped DEF rest, others, rollouts, served
<1>2. CASE Stop
  BY <1>2 DEF Stop, rest, others, rollouts, served, TypeOK
<1>3. CASE RemoveOld
  BY <1>3 DEF RemoveOld, rest, others, rollouts, TypeOK, Absent
<1>4. CASE Empty
  BY <1>4 DEF Empty, rest, others, rollouts, TypeOK, Configs
<1>5. CASE Make
  BY <1>5 DEF Make, rest, others, rollouts, TypeOK, Owners
<1>6. CASE Launch
  BY <1>6 DEF Launch, rest, others, rollouts, TypeOK
<1>7. CASE BootApply
  BY <1>7, ConfigTyped DEF BootApply, others, TypeOK
<1>8. CASE BootReload
  BY <1>8 DEF BootReload, rest, others, rollouts, TypeOK
<1>12. CASE Sweep
  <2>1. apps' \in [Slugs -> Statuses]
    <3>1. PICK swept, up : apps' = [s \in Slugs |-> IF s \in up THEN "running"
                                                 ELSE IF s \in swept THEN "error" ELSE apps[s]]
      BY <1>12 DEF Sweep
    <3> QED
      BY <3>1 DEF TypeOK, Statuses
  <2>2. kept' \subseteq Slugs /\ stuck' \subseteq Slugs /\ unapplied' \subseteq Slugs /\ boot' = "apply"
    BY <1>12 DEF Sweep, TypeOK
  <2>3. UNCHANGED <<domains, req, lock, deaths, health, probe, conduct, file, ctr, live, synced>>
    BY <1>12 DEF Sweep, others, served
  <2> QED
    BY <2>1, <2>2, <2>3 DEF TypeOK
<1>9. CASE Die
  <2>1. req' \in [Requests -> {Idle} \cup [pc : {"done"}, failed : BOOLEAN]
                             \cup Adds \cup [pc : {"find"}, app : Slugs, id : Ids] \cup Removes
                             \cup [pc : {"lookup", "create"}, app : Slugs] \cup Rollouts \cup Applies]
    BY <1>9 DEF Die, Done, TypeOK
  <2>2. health' \in [age : 0..TTL, up : BOOLEAN] /\ deaths' \in Nat
    <3>1. TTL \in 0..TTL
      BY TTLNat
    <3>2. deaths \in Nat
      BY DEF TypeOK
    <3>3. health' = [age |-> TTL, up |-> TRUE] /\ deaths' = deaths + 1
      BY <1>9 DEF Die
    <3> QED
      BY <3>1, <3>2, <3>3
  <2>3. apps' = apps /\ domains' = domains /\ file' = file /\ live' = live /\ ctr' = ctr /\ conduct' = conduct
        /\ lock' = {} /\ synced' = FALSE /\ probe' = NoProbe /\ boot' = "down"
        /\ kept' = kept /\ stuck' = stuck \cup Rolling /\ unapplied' = unapplied
    BY <1>9 DEF Die, served
  <2> QED
    BY <2>1, <2>2, <2>3 DEF TypeOK, Rolling
<1>10. CASE CaddyRestarts \/ CaddyStops
  BY <1>10 DEF CaddyRestarts, CaddyStops, rest, others, rollouts, TypeOK, Absent
<1>11. CASE Tick \/ Ask \/ CallerLeaves \/ Answer
  <2>1. UNCHANGED <<apps, kept, stuck, unapplied, domains, req, lock, file, ctr, live, boot, deaths, synced, conduct>>
    BY <1>11 DEF Tick, Ask, CallerLeaves, Answer, unwatched, served, rollouts
  <2>2. probe' \in {NoProbe, "caller waits", "caller gone"} /\ health' \in [age : 0..TTL, up : BOOLEAN]
    <3>1. health \in [age : 0..TTL, up : BOOLEAN] /\ TTL \in Nat
          /\ probe \in {NoProbe, "caller waits", "caller gone"}
      BY TTLNat DEF TypeOK
    <3>2. CASE Tick
      BY <3>1, <3>2, Aged DEF Tick
    <3>3. CASE Ask \/ CallerLeaves
      BY <3>1, <3>3 DEF Ask, CallerLeaves
    <3>4. CASE Answer
      <4> DEFINE answer == probe = "caller waits" /\ ctr.state = "running"
      <4>1. health' = health \/ health' = [age |-> 0, up |-> answer]
        BY <3>4 DEF Answer, Cached
      <4>2. answer \in BOOLEAN
        OBVIOUS
      <4> HIDE DEF answer
      <4>3. [age |-> 0, up |-> answer] \in [age : 0..TTL, up : BOOLEAN]
        BY <4>2, Answered
      <4>4. probe' = NoProbe
        BY <3>4 DEF Answer
      <4> QED
        BY <3>1, <4>1, <4>3, <4>4
    <3> QED
      BY <1>11, <3>2, <3>3, <3>4
  <2> QED
    BY <2>1, <2>2 DEF TypeOK
<1> QED
  BY <1>1, <1>2, <1>3, <1>4, <1>5, <1>6, <1>7, <1>8, <1>9, <1>10, <1>11, <1>12 DEF Ensure

\* The variables have the types of their code, and a request at a call has what
\* the call needs.
THEOREM IngressTyping == Spec => []TypeOK
<1>1. Init => TypeOK
  <2> SUFFICES ASSUME Init PROVE TypeOK
    OBVIOUS
  <2>1. Rows = {}
    BY DEF Init, Rows
  <2>2. apps \in [Slugs -> Statuses]
    BY DEF Init, Statuses
  <2>3. Config \in Configs
    BY <2>1, IngressAssumption DEF IngressAssumption, Config, ConfigOf, Running, Configs
  <2>4. domains \in [Ids -> {NoDomain} \cup [app : Slugs, host : Custom]]
    BY DEF Init
  <2>5. req \in [Requests -> {Idle}]
    BY DEF Init
  <2>6. ctr \in [owner : Owners \cup {"nobody"}, fits : BOOLEAN, state : {"absent", "created", "running", "stopped"}]
    <3>1. ctr = Absent \/ ctr \in [owner : Owners, fits : BOOLEAN, state : {"created", "running", "stopped"}]
      BY DEF Init
    <3>2. CASE ctr = Absent
      BY <3>2 DEF Absent
    <3>3. CASE ctr \in [owner : Owners, fits : BOOLEAN, state : {"created", "running", "stopped"}]
      BY <3>3
    <3> QED
      BY <3>1, <3>2, <3>3
  <2>7. health \in [age : 0..TTL, up : BOOLEAN]
    BY IngressAssumption DEF Init, IngressAssumption
  <2>8. lock \in SUBSET Requests /\ file \in Configs /\ live \in Configs /\ boot = "down" /\ deaths \in Nat
        /\ synced \in BOOLEAN /\ probe = NoProbe /\ conduct \in Conducts
    BY <2>3 DEF Init
  <2>9. kept \subseteq Slugs /\ stuck = {} /\ unapplied = {}
    BY DEF Init, Running
  <2> QED
    BY <2>2, <2>4, <2>5, <2>6, <2>7, <2>8, <2>9 DEF TypeOK
<1>2. TypeOK /\ [Next]_vars => TypeOK'
  <2> SUFFICES ASSUME TypeOK, [Next]_vars PROVE TypeOK'
    OBVIOUS
  <2>1. CASE UNCHANGED vars
    <3>1. /\ apps' = apps /\ kept' = kept /\ stuck' = stuck /\ unapplied' = unapplied /\ domains' = domains /\ req' = req /\ lock' = lock /\ file' = file /\ ctr' = ctr
          /\ live' = live /\ boot' = boot /\ deaths' = deaths /\ synced' = synced /\ health' = health
          /\ probe' = probe /\ conduct' = conduct
      BY <2>1 DEF vars, rollouts
    <3> QED
      BY <3>1, SameTyped DEF TypeOK
  <2> QED
    BY <2>1, EarlyTyped, RolloutTyped, ApplyTyped, FailureTyped, SystemTyped DEF Next
<1> QED
  BY <1>1, <1>2, PTL DEF Spec

----------------------------------------------------------------------------
(* The health check.                                                       *)

\* A cached answer was true of Caddy when it was given (Manager.Health).
THEOREM AnswersAreTrue == Spec => HealthHonest
<1>1. TypeOK /\ [Next]_vars => [health'.age < health.age => health'.up = (ctr.state = "running")]_<<health, ctr>>
  <2> SUFFICES ASSUME TypeOK, Next, health'.age < health.age PROVE health'.up = (ctr.state = "running")
    BY DEF vars
  <2>1. health \in [age : 0..TTL, up : BOOLEAN] /\ health.age \in 0..TTL
    BY DEF TypeOK
  <2>2. ASSUME health' = health PROVE FALSE
    BY <2>1, <2>2, TTLNat
  <2>3. CASE Answer
    <3>1. probe \in {NoProbe, "caller waits", "caller gone"} /\ probe # NoProbe
      BY <2>3 DEF TypeOK, Answer
    <3>2. probe = "caller waits"
      BY <2>2, <2>3, <3>1 DEF Answer, Cached
    <3>3. health' = [age |-> 0, up |-> (ctr.state = "running")]
      BY <2>3, <3>2 DEF Answer, Cached
    <3> QED
      BY <3>3
  <2>4. CASE Die
    <3>1. health'.age = TTL
      BY <2>4 DEF Die
    <3> QED
      BY <2>1, <3>1, TTLNat
  <2>5. CASE Tick
    <3>1. health'.age = health.age + 1
      BY <2>1, <2>5 DEF Tick
    <3> QED
      BY <2>1, <3>1, TTLNat
  <2>6. CASE Ensure
    <3>1. health' = health
      BY <2>6 DEF Ensure, Start, Inspect, Pull, Stop, RemoveOld, Empty, Make, Launch, Sweep, BootApply, BootReload, Fails, rest, others
    <3> QED
      BY <2>2, <3>1
  <2>7. CASE CaddyRestarts \/ CaddyStops \/ Ask \/ CallerLeaves
    BY <2>2, <2>7 DEF CaddyRestarts, CaddyStops, Ask, CallerLeaves, rest, others
  <2>8. ASSUME NEW r \in Requests, Begin(r) \/ Add(r) \/ Delete(r) \/ CreateApp(r) \/ RollOut(r) \/ StoreFails(r)
        PROVE FALSE
    BY <2>2, <2>8 DEF Begin, Add, Count, Compare, Insert, Delete, Find, Remove, CreateApp, Lookup, Create,
       RollOut, Mark, Attempt, Cutover, Finish, Fail, Abort, StoreFails, system
  <2>9. ASSUME NEW r \in Requests, ApplyRoutes(r) PROVE FALSE
    BY <2>2, <2>9 DEF ApplyRoutes, Lock, Read, Write, Reload, Undo, system
  <2> QED
    BY <2>3, <2>4, <2>5, <2>6, <2>7, <2>8, <2>9 DEF Next
<1> QED
  BY <1>1, IngressTyping, PTL DEF Spec, HealthHonest

----------------------------------------------------------------------------
(* The boot.                                                               *)

\* A boot that goes on past the inspection has a container of its own or none;
\* with no image to be pulled it has not begun to replace one, and only when
\* there is none is the file empty.
BootInv ==
    /\ ctr.state = "absent" => ctr.owner = "nobody"
    /\ boot = "launch" => ctr.state # "absent"
    /\ boot \notin {"down", "inspect"} => ctr.owner # "them"
    /\ conduct.registry = "down" =>
         /\ boot \notin {"stop", "remove", "make"}
         /\ boot \in {"empty", "repull"} => ctr.state = "absent"
         /\ ctr.state # "absent" => file # {}
    /\ \A r \in Requests : req[r].pc = "write" => req[r].config # {}

\* A configuration routes the dashboard.
LEMMA ConfigNotEmpty == Config # {}
BY DEF Config, ConfigOf

Moves(r) == Begin(r) \/ Add(r) \/ Delete(r) \/ CreateApp(r) \/ RollOut(r) \/ ApplyRoutes(r) \/ StoreFails(r)

\* What the steps of a request leave alone.
LEMMA RequestsKeep ==
    ASSUME NEW r \in Requests, Moves(r)
    PROVE  boot' = boot /\ ctr' = ctr /\ conduct' = conduct /\ (file' = file \/ Write(r))
<1>1. CASE Begin(r) \/ Add(r) \/ Delete(r) \/ CreateApp(r) \/ RollOut(r) \/ StoreFails(r)
  BY <1>1 DEF Begin, Add, Count, Compare, Insert, Delete, Find, Remove, CreateApp, Lookup, Create,
     RollOut, Mark, Attempt, Cutover, Finish, Fail, Abort, StoreFails, system, served
<1>2. CASE ApplyRoutes(r)
  BY <1>2 DEF ApplyRoutes, Lock, Read, Write, Reload, Undo, system, served
<1> QED
  BY <1>1, <1>2 DEF Moves

\* A request about to write has computed a configuration.
LEMMA RequestsCompute ==
    ASSUME TypeOK, BootInv, NEW r \in Requests, Moves(r)
    PROVE  \A q \in Requests : req'[q].pc = "write" => req'[q].config # {}
<1>1. PICK to : Goes(r, to) /\ (to.pc = "write" => to.config # {})
  <2>1. CASE Begin(r)
    <3>1. PICK s \in Slugs :
            \/ \E h \in Custom : Goes(r, [pc |-> "count", app |-> s, host |-> h])
            \/ \E d \in Ids : Goes(r, [pc |-> "find", app |-> s, id |-> d])
            \/ Goes(r, [pc |-> "lookup", app |-> s])
            \/ Goes(r, [pc |-> "create", app |-> s])
            \/ Goes(r, [pc |-> "mark", app |-> s])
      BY <2>1 DEF Begin, Rollout
    <3>2. ASSUME NEW h \in Custom, Goes(r, [pc |-> "count", app |-> s, host |-> h])
          PROVE  \E to : Goes(r, to) /\ (to.pc = "write" => to.config # {})
      BY <3>2
    <3>3. ASSUME NEW d \in Ids, Goes(r, [pc |-> "find", app |-> s, id |-> d])
          PROVE  \E to : Goes(r, to) /\ (to.pc = "write" => to.config # {})
      BY <3>3
    <3>4. ASSUME NEW pc \in {"lookup", "create", "mark"}, Goes(r, [pc |-> pc, app |-> s])
          PROVE  \E to : Goes(r, to) /\ (to.pc = "write" => to.config # {})
      BY <3>4
    <3> QED
      BY <3>1, <3>2, <3>3, <3>4
  <2>2. CASE Add(r)
    <3>1. req[r] \in Adds
      BY <2>2, Shapes DEF Add, Count, Compare, Insert, At
    <3> QED
      BY <2>2, <3>1 DEF Add, Count, Compare, Insert, Done, Step, Applying, Adds
  <2>3. CASE Delete(r)
    BY <2>3 DEF Delete, Find, Remove, Done, Applying
  <2>4. CASE CreateApp(r)
    <3>1. req[r] \in [pc : {"lookup", "create"}, app : Slugs]
      BY <2>4, Shapes DEF CreateApp, Lookup, Create, At
    <3> QED
      BY <2>4, <3>1 DEF CreateApp, Lookup, Create, Done, Step
  <2>8. CASE RollOut(r)
    <3>1. req[r] \in Rollouts
      BY <2>8, Shapes DEF RollOut, Mark, Attempt, Cutover, Finish, Fail, Abort, At
    <3>2. \A pc \in {"attempt", "cutover", "fail"} : Step(r, pc).pc = pc
      BY <3>1 DEF Step, Rollouts
    <3> QED
      BY <2>8, <3>2 DEF RollOut, Mark, Attempt, Cutover, Finish, Fail, Abort, Done, Applying
  <2>5. CASE Lock(r) \/ Write(r) \/ Reload(r) \/ Undo(r)
    <3>1. req[r] \in Applies
      BY <2>5, Shapes DEF Lock, Write, Reload, Undo, At
    <3> QED
      BY <2>5, <3>1 DEF Lock, Write, Reload, Undo, Failed, Succeeded, Rollout, Done, Step, Applies
  <2>6. CASE Read(r)
    <3>1. req[r] \in Applies
      BY <2>6, Shapes DEF Read, At
    <3> DEFINE to == [req[r] EXCEPT !.pc = "write", !.config = Config]
    <3>2. to.config = Config
      BY <3>1 DEF Applies
    <3>3. Goes(r, to)
      BY <2>6 DEF Read
    <3> QED
      BY <3>2, <3>3, ConfigNotEmpty
  <2>7. CASE StoreFails(r)
    <3>1. /\ req[r].pc = "read" => req[r] \in Applies
          /\ req[r].pc \in {"mark", "cutover"} => req[r] \in Rollouts
      BY Shapes
    <3> QED
      BY <2>7, <3>1 DEF StoreFails, Failed, Rollout, Done, Step, Applies, Rollouts
  <2> QED
    BY <2>1, <2>2, <2>3, <2>4, <2>5, <2>6, <2>7, <2>8 DEF ApplyRoutes, Moves
<1>2. req' = [q \in Requests |-> IF q = r THEN to ELSE req[q]]
  BY <1>1 DEF Goes, TypeOK
<1> QED
  BY <1>1, <1>2 DEF BootInv

\* Every step keeps it.
LEMMA BootSteps == ASSUME TypeOK, BootInv, Next PROVE BootInv'
<1>1. ASSUME NEW r \in Requests, Moves(r) PROVE BootInv'
  <2>1. Write(r) => file' = file \/ (file' = req[r].config /\ req[r].pc = "write")
    BY DEF Write, At
  <2> QED
    BY <1>1, <2>1, RequestsKeep, RequestsCompute DEF BootInv
<1>2. CASE Ensure
  <2>1. req' = req /\ conduct' = conduct
    BY <1>2 DEF Ensure, Start, Inspect, Pull, Stop, RemoveOld, Empty, Make, Launch, Sweep, BootApply, BootReload, Fails, rest, others
  <2> USE DEF BootInv
  <2>2. CASE Start \/ \E s \in {"inspect", "stop", "remove", "empty", "make", "launch", "apply", "reload"} : Fails(s)
    BY <2>1, <2>2 DEF Start, Fails, served
  <2>3. CASE Inspect
    <3>1. boot' = Inspected /\ ctr' = ctr /\ file' = file
      BY <2>3 DEF Inspect, served
    <3>2. /\ boot' \in {"empty", "down", "pull", "launch", "sweep"}
          /\ boot' = "empty" => ctr.state = "absent"
          /\ boot' = "launch" => ctr.state = "stopped"
          /\ boot' # "down" => ctr.owner # "them"
      BY <3>1 DEF Inspected
    <3> QED
      BY <2>1, <3>1, <3>2
  <2>4. CASE Pull("pull", "stop") \/ Pull("repull", "make")
    BY <2>1, <2>4 DEF Pull, served
  <2>5. CASE Stop
    <3>1. ctr'.owner = ctr.owner /\ (ctr'.state = "absent" <=> ctr.state = "absent")
      BY <2>5 DEF Stop, TypeOK
    <3> QED
      BY <2>1, <2>5, <3>1 DEF Stop
  <2>8. CASE RemoveOld
    <3>1. ctr'.owner = "nobody" /\ ctr'.state = "absent"
      BY <2>8 DEF RemoveOld, Absent
    <3> QED
      BY <2>1, <2>8, <3>1 DEF RemoveOld
  <2>9. CASE Empty
    BY <2>1, <2>9 DEF Empty
  <2>10. CASE Make
    <3>1. ctr'.owner = "us" /\ ctr'.state = "created"
      BY <2>10 DEF Make
    <3> QED
      BY <2>1, <2>10, <3>1 DEF Make
  <2>6. CASE Launch
    BY <2>1, <2>6 DEF Launch, TypeOK
  <2>7. CASE BootApply \/ BootReload
    BY <2>1, <2>7, ConfigNotEmpty DEF BootApply, BootReload
  <2>11. CASE Sweep
    BY <2>1, <2>11 DEF Sweep, served
  <2> QED
    BY <1>2, <2>2, <2>3, <2>4, <2>5, <2>6, <2>7, <2>8, <2>9, <2>10, <2>11 DEF Ensure
<1>3. CASE Die
  <2>1. \A r \in Requests : req'[r].pc = "write" => req[r].pc = "write" /\ req'[r] = req[r]
    BY <1>3 DEF Die, Done
  <2> QED
    BY <1>3, <2>1 DEF Die, served, BootInv
<1>4. CASE CaddyRestarts \/ CaddyStops
  BY <1>4 DEF CaddyRestarts, CaddyStops, rest, others, BootInv, TypeOK
<1>5. CASE Tick \/ Ask \/ CallerLeaves \/ Answer
  <2>1. boot' = boot /\ ctr' = ctr /\ file' = file /\ req' = req /\ conduct' = conduct
    BY <1>5 DEF Tick, Ask, CallerLeaves, Answer, unwatched, served
  <2> QED
    BY <2>1 DEF BootInv
<1> QED
  BY <1>1, <1>2, <1>3, <1>4, <1>5 DEF Next, Moves

\* A boot leaves another instance's container alone, and while no image can be
\* pulled it takes down nothing that runs (Manager.Ensure).
THEOREM BootsTakeNothingDown == Spec => IngressKept
<1> DEFINE Kept == boot' # boot =>
                      /\ ctr.owner = "them" => ctr' = ctr /\ file' = file
                      /\ conduct.registry = "down" /\ ctr.state = "running" =>
                            ctr'.state = "running" /\ file' # {}
<1>1. Init => BootInv
  BY ConfigNotEmpty DEF Init, BootInv, Absent, Idle
<1>2. TypeOK /\ BootInv /\ [Next]_vars => BootInv'
  <2>1. TypeOK /\ BootInv /\ UNCHANGED vars => BootInv'
    BY DEF vars, BootInv
  <2> QED
    BY <2>1, BootSteps
<1>3. TypeOK /\ BootInv /\ [Next]_vars => [Kept]_<<boot, ctr, file>>
  <2> SUFFICES ASSUME TypeOK, BootInv, Next, boot' # boot PROVE Kept
    BY DEF vars
  <2>1. Ensure \/ Die
    BY RequestsKeep DEF Next, Moves, CaddyRestarts, CaddyStops, Tick, Ask, CallerLeaves, Answer, unwatched, rest, others
  <2>2. CASE Die
    BY <2>2 DEF Die, served, BootInv
  <2> USE DEF BootInv
  <2>3. CASE Start \/ \E s \in {"inspect", "stop", "remove", "empty", "make", "launch", "apply", "reload"} : Fails(s)
    BY <2>3 DEF Start, Fails, served
  <2>4. CASE Inspect \/ Pull("pull", "stop") \/ Pull("repull", "make")
    BY <2>4 DEF Inspect, Pull, served
  <2>5. CASE Stop \/ RemoveOld \/ Empty \/ Make
    BY <2>5 DEF Stop, RemoveOld, Empty, Make
  <2>6. CASE Launch
    BY <2>6 DEF Launch, TypeOK
  <2>7. CASE BootApply \/ BootReload
    BY <2>7, ConfigNotEmpty DEF BootApply, BootReload
  <2>8. CASE Sweep
    BY <2>8 DEF Sweep, served
  <2> QED
    BY <2>1, <2>2, <2>3, <2>4, <2>5, <2>6, <2>7, <2>8 DEF Ensure
<1> QED
  BY <1>1, <1>2, <1>3, IngressTyping, PTL DEF Spec, IngressKept

----------------------------------------------------------------------------
(* Requests.                                                               *)

\* Requests run one at a time where they do not overlap, and only while the
\* process serves; Caddy runs then, unless it is stopped behind its back.
QuietInv ==
    /\ ~conduct.overlap => \A q, r \in Requests : Active(q) /\ Active(r) => q = r
    /\ boot # "up" \/ conduct.watched => \A r \in Requests : ~Active(r)
    /\ boot = "up" /\ ~conduct.watched => ctr.state = "running"

\* A step of a request is of one that is under way, or begins it.
LEMMA Moved ==
    ASSUME TypeOK, NEW r \in Requests, Moves(r)
    PROVE  /\ \A q \in Requests : q # r => req'[q] = req[q]
           /\ boot = "up" /\ (Active(r) \/ Begin(r))
<1>1. \E to : Goes(r, to)
  BY DEF Moves, Begin, Add, Count, Compare, Insert, Delete, Find, Remove, CreateApp, Lookup, Create,
     RollOut, Mark, Attempt, Cutover, Finish, Fail, Abort, ApplyRoutes, Lock, Read, Write, Reload, Undo, StoreFails
<1>2. boot = "up" /\ (Active(r) \/ Begin(r))
  BY DEF Moves, Begin, Add, Count, Compare, Insert, Delete, Find, Remove, CreateApp, Lookup, Create,
     RollOut, Mark, Attempt, Cutover, Finish, Fail, Abort, ApplyRoutes, Lock, Read, Write, Reload, Undo, StoreFails, At, Active
<1> QED
  BY <1>1, <1>2 DEF Goes, TypeOK

\* What no request does.
LEMMA SystemQuiet ==
    ASSUME Ensure \/ Die \/ CaddyRestarts \/ CaddyStops \/ Tick \/ Ask \/ CallerLeaves \/ Answer
    PROVE  /\ domains' = domains /\ conduct' = conduct
           /\ Sweep \/ apps' = apps
           /\ Die \/ (req' = req /\ lock' = lock)
<1>1. CASE Ensure
  BY <1>1 DEF Ensure, Start, Inspect, Pull, Stop, RemoveOld, Empty, Make, Launch, Sweep, BootApply, BootReload, Fails, rest, others
<1>2. CASE Die
  BY <1>2 DEF Die
<1>3. CASE CaddyRestarts \/ CaddyStops
  BY <1>3 DEF CaddyRestarts, CaddyStops, rest, others
<1>4. CASE Tick \/ Ask \/ CallerLeaves \/ Answer
  BY <1>4 DEF Tick, Ask, CallerLeaves, Answer, unwatched
<1> QED
  BY <1>1, <1>2, <1>3, <1>4

\* A death ends every request.
LEMMA DieEnds == ASSUME TypeOK, Die PROVE \A r \in Requests : ~Active(r)' /\ req'[r].pc \in {"idle", "done"}
BY DEF Die, Active, Done, TypeOK

\* Every step keeps the invariant.
LEMMA QuietSteps == ASSUME TypeOK, QuietInv, [Next]_vars PROVE QuietInv'
<1>1. ASSUME NEW r \in Requests, Moves(r) PROVE QuietInv'
  <2>1. boot' = boot /\ ctr' = ctr /\ conduct' = conduct
    BY <1>1, RequestsKeep
  <2>2. \A q \in Requests : q # r => Active(q)' = Active(q)
    BY <1>1, Moved DEF Active
  <2>3. Active(r) \/ (~conduct.watched /\ (conduct.overlap \/ \A q \in Requests : ~Active(q)))
    BY <1>1, Moved DEF Begin
  <2>4. boot = "up"
    BY <1>1, Moved
  <2> QED
    BY <2>1, <2>2, <2>3, <2>4 DEF QuietInv
<1>2. CASE Die
  <2>1. boot' = "down" /\ conduct' = conduct
    BY <1>2 DEF Die
  <2> QED
    BY <1>2, <2>1, DieEnds DEF QuietInv
<1>3. CASE Ensure
  <2>1. req' = req /\ conduct' = conduct
    BY <1>3, SystemQuiet DEF Ensure, Start, Inspect, Pull, Stop, RemoveOld, Empty, Make, Launch, Sweep, BootApply,
       BootReload, Fails, rest, others
  <2>2. boot # "up"
    BY <1>3 DEF Ensure, Start, Inspect, Pull, Stop, RemoveOld, Empty, Make, Launch, Sweep, BootApply, BootReload, Fails
  <2>3. boot' = "up" => ctr'.state = "running"
    BY <1>3, <2>2 DEF Ensure, Start, Inspect, Inspected, Pull, Stop, RemoveOld, Empty, Make, Launch, Sweep, BootApply,
       BootReload, Fails
  <2>4. \A q \in Requests : Active(q)' = Active(q)
    BY <2>1 DEF Active
  <2> QED
    BY <2>1, <2>2, <2>3, <2>4 DEF QuietInv
<1>4. CASE CaddyRestarts \/ CaddyStops \/ Tick \/ Ask \/ CallerLeaves \/ Answer
  <2>1. req' = req /\ conduct' = conduct /\ boot' = boot
    BY <1>4 DEF CaddyRestarts, CaddyStops, rest, others, Tick, Ask, CallerLeaves, Answer, unwatched
  <2>2. ctr'.state = ctr.state \/ ctr'.state = "running" \/ conduct.watched
    BY <1>4 DEF CaddyRestarts, CaddyStops, Tick, Ask, CallerLeaves, Answer, unwatched, served, TypeOK
  <2>3. \A q \in Requests : Active(q)' = Active(q)
    BY <2>1 DEF Active
  <2> QED
    BY <2>1, <2>2, <2>3 DEF QuietInv
<1>5. CASE UNCHANGED vars
  BY <1>5 DEF vars, QuietInv, Active
<1> QED
  BY <1>1, <1>2, <1>3, <1>4, <1>5 DEF Next, Moves

LEMMA QuietStart == ASSUME Init PROVE QuietInv
BY DEF Init, QuietInv, Active, Idle

----------------------------------------------------------------------------
(* Hostnames.                                                              *)

\* A hostname that no app and not the dashboard has by its name.
Clear(h) == h # Dashboard /\ \A s \in Slugs : apps[s] # "absent" => h # Generated[s]

Held(h) == \E d \in Rows : domains[d].host = h

\* What a request that has checked its hostname or its app relies on.
Ready(r) ==
    /\ req[r].pc \in {"insert", "remove"} => Clear(req[r].host)
    /\ req[r].pc = "create" =>
         apps[req[r].app] # "absent" \/ (Generated[req[r].app] # Dashboard /\ ~Held(Generated[req[r].app]))
    /\ req[r].pc \in {"mark", "attempt", "cutover", "finish", "fail"} => apps[req[r].app] # "absent"
    /\ req[r].pc \in {"lock", "read", "write", "reload", "undo"} =>
         /\ req[r].undo.how = "insert" => Clear(req[r].undo.host)
         /\ req[r].undo.how = "status" => apps[req[r].undo.app] # "absent"

RowsUnique ==
    /\ \A d \in Rows : Clear(domains[d].host)
    /\ \A d, e \in Rows : domains[d].host = domains[e].host => d = e
    /\ \A s \in Slugs : apps[s] # "absent" => Generated[s] # Dashboard
    /\ \A s \in stuck : apps[s] # "absent"

Alone == ~conduct.overlap /\ ~conduct.compose

UniqueInv == Alone => RowsUnique /\ \A r \in Requests : Ready(r)

LEMMA NamesUnique == ASSUME TypeOK, UniqueInv PROVE HostsUnique
<1> SUFFICES ASSUME RowsUnique, NEW m \in Names, NEW n \in Names, m[2] = n[2] PROVE m = n
  BY DEF UniqueInv, HostsUnique, Alone
<1> DEFINE App(p, s) == s \in Slugs /\ apps[s] # "absent" /\ p = <<s, Generated[s]>>
           Row(p, d) == d \in Rows /\ p = <<domains[d].app, domains[d].host>>
<1>1. \A p \in Names : p = <<"dashboard", Dashboard>> \/ (\E s : App(p, s)) \/ (\E d : Row(p, d))
  BY DEF Names
<1>2. ASSUME NEW p, p = <<"dashboard", Dashboard>>, NEW q, NEW s, App(q, s) PROVE p[2] # q[2]
  BY <1>2 DEF RowsUnique
<1>3. ASSUME NEW p, p = <<"dashboard", Dashboard>>, NEW q, NEW d, Row(q, d) PROVE p[2] # q[2]
  BY <1>3 DEF RowsUnique, Clear
<1>4. ASSUME NEW p, NEW s, App(p, s), NEW q, NEW t, App(q, t), p[2] = q[2] PROVE p = q
  BY <1>4, IngressAssumption DEF IngressAssumption
<1>5. ASSUME NEW p, NEW s, App(p, s), NEW q, NEW d, Row(q, d) PROVE p[2] # q[2]
  BY <1>5 DEF RowsUnique, Clear
<1>6. ASSUME NEW p, NEW d, Row(p, d), NEW q, NEW e, Row(q, e), p[2] = q[2] PROVE p = q
  BY <1>6 DEF RowsUnique
<1> HIDE DEF App, Row
<1> QED
  BY <1>1, <1>2, <1>3, <1>4, <1>5, <1>6

\* An inserted row is one that was checked.
LEMMA AddRowUnique ==
    ASSUME TypeOK, RowsUnique, NEW s \in Slugs, NEW h \in Custom, Clear(h), NextId \in Ids,
           apps' = apps, stuck' = stuck, domains' = AddRow(s, h)
    PROVE  RowsUnique'
<1>1. CASE \E d \in Rows : domains[d].host = h
  BY <1>1 DEF AddRow, RowsUnique, Rows, Clear
<1>2. CASE ~\E d \in Rows : domains[d].host = h
  <2>1. domains' = [domains EXCEPT ![NextId] = [app |-> s, host |-> h]]
    BY <1>2 DEF AddRow
  <2>2. \A d \in Rows' : \/ d = NextId /\ domains'[d].host = h
                         \/ d # NextId /\ d \in Rows /\ domains'[d] = domains[d]
    <3>1. domains' = [d \in Ids |-> IF d = NextId THEN [app |-> s, host |-> h] ELSE domains[d]]
      BY <2>1 DEF TypeOK
    <3> HIDE DEF NextId
    <3> QED
      BY <3>1 DEF Rows
  <2>3. \A d \in Rows' : Clear(domains'[d].host)
    BY <2>2 DEF RowsUnique
  <2>4. \A d, e \in Rows' : domains'[d].host = domains'[e].host => d = e
    BY <1>2, <2>2 DEF RowsUnique
  <2> QED
    BY <2>3, <2>4 DEF RowsUnique, Clear
<1> QED
  BY <1>1, <1>2

\* So is what is left when one is removed.
LEMMA RemoveUnique ==
    ASSUME TypeOK, RowsUnique, NEW d \in Ids, apps' = apps, stuck' = stuck, domains' = [domains EXCEPT ![d] = NoDomain]
    PROVE  RowsUnique'
<1>1. \A e \in Rows' : e \in Rows /\ domains'[e] = domains[e]
  BY DEF TypeOK, Rows
<1> QED
  BY <1>1 DEF RowsUnique, Clear

\* A request leaves the others idle, so what they rely on holds.
LEMMA OthersReady ==
    ASSUME TypeOK, QuietInv, ~conduct.overlap, NEW r \in Requests, Moves(r), Ready(r)', RowsUnique'
    PROVE  RowsUnique' /\ \A q \in Requests : Ready(q)'
<1>1. ASSUME NEW q \in Requests, q # r PROVE Ready(q)'
  <2>1. ~Active(q)
    BY <1>1, Moved DEF QuietInv, Begin
  <2>2. req'[q].pc \in {"idle", "done"}
    BY <1>1, <2>1, Moved DEF Active
  <2> QED
    BY <2>2 DEF Ready
<1> QED
  BY <1>1

\* The steps of a request before its apply keep hostnames apart.
LEMMA EarlyUnique ==
    ASSUME TypeOK, Alone, RowsUnique, NEW r \in Requests, Ready(r),
           Begin(r) \/ Add(r) \/ Delete(r) \/ CreateApp(r)
    PROVE  RowsUnique' /\ Ready(r)'
<1> USE DEF Goes
<1>0. stuck' = stuck
  BY DEF Begin, Add, Count, Compare, Insert, Delete, Find, Remove, CreateApp, Lookup, Create, rollouts
<1>1. ASSUME UNCHANGED <<apps, domains>> PROVE RowsUnique'
  BY <1>0, <1>1 DEF RowsUnique, Clear, Rows
<1>2. CASE Begin(r)
  <2>1. apps' = apps /\ domains' = domains
    BY <1>2 DEF Begin
  <2>2. req'[r].pc \in {"count", "find", "lookup", "mark"} /\ (req'[r].pc = "mark" => apps[req'[r].app] # "absent")
    <3>1. PICK s \in Slugs :
            \/ \E h \in Custom : req' = [req EXCEPT ![r] = [pc |-> "count", app |-> s, host |-> h]]
            \/ \E d \in Ids : req' = [req EXCEPT ![r] = [pc |-> "find", app |-> s, id |-> d]]
            \/ req' = [req EXCEPT ![r] = [pc |-> "lookup", app |-> s]]
            \/ apps[s] # "absent" /\ req' = [req EXCEPT ![r] = [pc |-> "mark", app |-> s]]
      BY <1>2 DEF Begin, Alone, Rollout
    <3>2. \A to : req' = [req EXCEPT ![r] = to] => req'[r] = to
      BY DEF TypeOK
    <3>3. ASSUME NEW h, req'[r] = [pc |-> "count", app |-> s, host |-> h] PROVE req'[r].pc = "count"
      BY <3>3
    <3>4. ASSUME NEW d, req'[r] = [pc |-> "find", app |-> s, id |-> d] PROVE req'[r].pc = "find"
      BY <3>4
    <3>5. CASE req'[r] = [pc |-> "lookup", app |-> s]
      BY <3>5
    <3>6. CASE apps[s] # "absent" /\ req'[r] = [pc |-> "mark", app |-> s]
      BY <3>6
    <3> QED
      BY <3>1, <3>2, <3>3, <3>4, <3>5, <3>6
  <2> QED
    BY <1>1, <2>1, <2>2 DEF Ready
<1>3. CASE Count(r)
  <2>1. req[r] \in Adds /\ apps' = apps /\ domains' = domains
    BY <1>3, Shapes DEF Count, At
  <2>2. req'[r].pc \in {"compare", "done"}
    BY <1>3, <2>1 DEF Count, Step, Done, TypeOK, Adds
  <2> QED
    BY <1>1, <2>1, <2>2 DEF Ready
<1>4. CASE Compare(r)
  <2>1. req[r] \in Adds /\ apps' = apps /\ domains' = domains
    BY <1>4, Shapes DEF Compare, At
  <2>2. \/ req'[r].pc = "done"
        \/ ~Collides(r) /\ req'[r].pc = "insert" /\ req'[r].host = req[r].host
    BY <1>4, <2>1 DEF Compare, Step, Done, TypeOK, Adds
  <2>3. ~Collides(r) => Clear(req[r].host)
    BY DEF Collides, Clear
  <2> QED
    BY <1>1, <2>1, <2>2, <2>3 DEF Ready, Clear
<1>5. CASE Insert(r)
  <2>1. req[r] \in Adds /\ apps' = apps /\ NextId \in Ids /\ domains' = AddRow(req[r].app, req[r].host)
        /\ req[r].pc = "insert"
    BY <1>5, Shapes DEF Insert, At
  <2>2. RowsUnique'
    BY <1>0, <2>1, AddRowUnique DEF Ready, Adds
  <2>3. req'[r].pc = "done" \/ (req'[r].pc = "lock" /\ req'[r].undo.how = "delete")
    BY <1>5 DEF Insert, Done, Applying, TypeOK
  <2> QED
    BY <2>2, <2>3 DEF Ready
<1>6. CASE Find(r)
  <2>1. apps' = apps /\ domains' = domains
    BY <1>6 DEF Find
  <2>2. \/ req'[r].pc = "done"
        \/ req'[r].pc = "remove" /\ req[r].id \in Rows /\ req'[r].host = domains[req[r].id].host
    BY <1>6 DEF Find, Done, RowsOf, TypeOK
  <2> QED
    BY <1>1, <2>1, <2>2 DEF Ready, RowsUnique, Clear
<1>7. CASE Remove(r)
  <2>1. req[r] \in Removes /\ req[r].pc = "remove" /\ apps' = apps
        /\ domains' = [domains EXCEPT ![req[r].id] = NoDomain]
    BY <1>7, Shapes DEF Remove, At
  <2>2. RowsUnique'
    BY <1>0, <2>1, RemoveUnique DEF Removes
  <2>3. req'[r].pc = "lock" /\ req'[r].undo = [how |-> "insert", app |-> req[r].app, host |-> req[r].host]
    BY <1>7 DEF Remove, Applying, TypeOK
  <2> QED
    BY <1>7, <2>1, <2>2, <2>3 DEF Ready, Clear
<1>8. CASE Lookup(r)
  <2>1. req[r] \in [pc : {"lookup", "create"}, app : Slugs] /\ apps' = apps /\ domains' = domains
    BY <1>8, Shapes DEF Lookup, At
  <2>2. \/ req'[r].pc = "done"
        \/ /\ req'[r].pc = "create" /\ req'[r].app = req[r].app
           /\ Generated[req[r].app] # Dashboard /\ ~Held(Generated[req[r].app])
    BY <1>8, <2>1 DEF Lookup, Step, Done, TypeOK, Held
  <2> QED
    BY <1>1, <2>1, <2>2 DEF Ready, Held, Rows
<1>9. CASE Create(r)
  <2>1. req[r] \in [pc : {"lookup", "create"}, app : Slugs] /\ req[r].pc = "create" /\ domains' = domains
        /\ apps' = [apps EXCEPT ![req[r].app] = IF @ = "absent" THEN "created" ELSE @]
    BY <1>9, Shapes DEF Create, At
  <2>2. \A s \in Slugs : apps'[s] # "absent" => s = req[r].app \/ apps[s] # "absent"
    BY <2>1 DEF TypeOK
  <2>3. apps[req[r].app] # "absent" \/ (Generated[req[r].app] # Dashboard /\ ~Held(Generated[req[r].app]))
    BY <2>1 DEF Ready
  <2>4. \A s \in Slugs : apps'[s] # "absent" => Generated[s] # Dashboard
    BY <2>2, <2>3 DEF RowsUnique
  <2>5. \A d \in Rows : Clear(domains[d].host)'
    BY <2>1, <2>2, <2>3 DEF RowsUnique, Clear, Held
  <2>6. Rows' = Rows
    BY <2>1 DEF Rows
  <2>8. \A s \in stuck : apps[s] # "absent" => apps'[s] # "absent"
    BY <2>1 DEF TypeOK
  <2>7. req'[r].pc = "done"
    BY <1>9 DEF Create, Done, TypeOK
  <2> QED
    BY <1>0, <2>1, <2>4, <2>5, <2>6, <2>7, <2>8 DEF RowsUnique, Ready
<1> QED
  BY <1>2, <1>3, <1>4, <1>5, <1>6, <1>7, <1>8, <1>9 DEF Add, Delete, CreateApp

\* So do those of a rollout, which changes no app that is absent.
LEMMA RolloutUnique ==
    ASSUME TypeOK, RowsUnique, NEW r \in Requests, Ready(r), RollOut(r)
    PROVE  RowsUnique' /\ Ready(r)'
<1>1. req[r] \in Rollouts /\ req[r].app \in Slugs /\ apps[req[r].app] # "absent" /\ domains' = domains
  BY Shapes DEF RollOut, Mark, Attempt, Cutover, Finish, Fail, Abort, At, Rollouts, Ready
<1>2. /\ \A s \in Slugs : apps'[s] # "absent" => apps[s] # "absent"
      /\ \A s \in Slugs : apps[s] # "absent" => apps'[s] # "absent"
  BY <1>1 DEF RollOut, Mark, Attempt, Cutover, Finish, Fail, Abort, Status, TypeOK, rollouts
<1>3. stuck' \subseteq stuck \cup {req[r].app}
  BY <1>1 DEF RollOut, Mark, Attempt, Cutover, Finish, Fail, Abort, Ended, rollouts
<1>4. RowsUnique'
  <2>1. Rows' = Rows /\ \A d \in Rows : domains'[d] = domains[d]
    BY <1>1 DEF Rows
  <2>2. /\ \A d \in Rows : Clear(domains[d].host)'
        /\ \A s \in Slugs : apps'[s] # "absent" => Generated[s] # Dashboard
    BY <1>1, <1>2 DEF RowsUnique, Clear
  <2>3. \A s \in stuck' : apps'[s] # "absent"
    BY <1>1, <1>2, <1>3 DEF RowsUnique, TypeOK
  <2> QED
    BY <1>1, <2>1, <2>2, <2>3 DEF RowsUnique
<1>5. \/ req'[r].pc = "done"
      \/ req'[r].pc \in {"attempt", "cutover", "fail"} /\ req'[r].app = req[r].app
      \/ req'[r].pc = "lock" /\ req'[r].undo = [how |-> "status", app |-> req[r].app]
  <2>1. \A to : Goes(r, to) => req'[r] = to
    BY DEF Goes, TypeOK
  <2>2. \A pc \in {"attempt", "cutover", "fail"} : Step(r, pc).pc = pc /\ Step(r, pc).app = req[r].app
    BY <1>1 DEF Step, Rollouts
  <2> QED
    BY <2>1, <2>2 DEF RollOut, Mark, Attempt, Cutover, Finish, Fail, Abort, Done, Applying
<1> QED
  BY <1>1, <1>2, <1>4, <1>5 DEF Ready

\* So do the steps of its apply, and its failure.
LEMMA ApplyUnique ==
    ASSUME TypeOK, RowsUnique, NEW r \in Requests, Ready(r), ApplyRoutes(r) \/ StoreFails(r)
    PROVE  RowsUnique' /\ Ready(r)'
<1>0. stuck' = stuck
  BY DEF ApplyRoutes, Lock, Read, Write, Reload, Undo, StoreFails, rollouts
<1>1. CASE /\ apps' = apps /\ domains' = domains /\ req[r] \in Applies
           /\ \/ req'[r].pc \in {"read", "write", "reload", "undo"} /\ req'[r].undo = req[r].undo
              \/ req'[r].pc = "done"
              \/ /\ req'[r].pc \in {"finish", "fail"}
                 /\ req[r].undo.how = "status" /\ req'[r].app = req[r].undo.app
           /\ req[r].pc \in {"lock", "read", "write", "reload"}
  BY <1>0, <1>1 DEF RowsUnique, Rows, Ready, Clear
<1>5. ASSUME req[r] \in Applies
      PROVE  /\ \A pc \in {"read", "reload", "undo"} : Step(r, pc).pc = pc /\ Step(r, pc).undo = req[r].undo
             /\ \A to \in {Failed(r), Succeeded(r)} :
                   \/ to.pc = "undo" /\ to.undo = req[r].undo
                   \/ to.pc = "done"
                   \/ to.pc \in {"finish", "fail"} /\ req[r].undo.how = "status" /\ to.app = req[r].undo.app
  BY <1>5 DEF Step, Failed, Succeeded, Rollout, Done, Applies
<1>6. \A to : Goes(r, to) => req'[r] = to
  BY DEF Goes, TypeOK
<1>2. CASE Lock(r) \/ Read(r) \/ Write(r) \/ Reload(r)
  <2>1. req[r] \in Applies /\ req[r].pc \in {"lock", "read", "write", "reload"}
    BY <1>2, Shapes DEF Lock, Read, Write, Reload, At
  <2>2. apps' = apps /\ domains' = domains
    BY <1>2 DEF Lock, Read, Write, Reload
  <2>3. CASE Read(r)
    <3>1. req'[r] = [req[r] EXCEPT !.pc = "write", !.config = Config]
      BY <1>6, <2>3 DEF Read
    <3>2. req'[r].pc = "write" /\ req'[r].undo = req[r].undo
      BY <2>1, <3>1 DEF Applies
    <3> QED
      BY <1>1, <2>1, <2>2, <3>2
  <2>4. CASE Lock(r) \/ Write(r) \/ Reload(r)
    <3>1. req'[r] \in {Step(r, "read"), Step(r, "reload"), Failed(r), Succeeded(r)}
      BY <1>6, <2>4 DEF Lock, Write, Reload
    <3> HIDE DEF Failed, Succeeded, Step
    <3> QED
      BY <1>1, <1>5, <2>1, <2>2, <3>1
  <2> QED
    BY <1>2, <2>3, <2>4
<1>3. CASE StoreFails(r)
  <2>1. apps' = apps /\ domains' = domains
    BY <1>3 DEF StoreFails
  <2>2. CASE req[r].pc = "read"
    <3>1. req[r] \in Applies /\ req'[r] = Failed(r)
      BY <1>3, <1>6, <2>2, Shapes DEF StoreFails
    <3> QED
      BY <1>1, <1>5, <2>1, <2>2, <3>1
  <2>3. CASE req[r].pc \in {"mark", "cutover"}
    <3>1. req[r] \in Rollouts /\ req'[r] = Step(r, "fail")
      BY <1>3, <1>6, <2>3, Shapes DEF StoreFails
    <3>2. req'[r].pc = "fail" /\ req'[r].app = req[r].app
      BY <3>1 DEF Step, Rollouts
    <3> QED
      BY <1>0, <2>1, <2>3, <3>2 DEF RowsUnique, Rows, Ready, Clear
  <2>4. CASE req[r].pc \notin {"mark", "cutover", "read"}
    <3>1. req'[r].pc = "done"
      BY <1>3, <1>6, <2>4 DEF StoreFails, Done
    <3> QED
      BY <1>0, <2>1, <3>1 DEF RowsUnique, Rows, Ready, Clear
  <2> QED
    BY <2>2, <2>3, <2>4
<1>4. CASE Undo(r)
  <2>1. req[r] \in Applies /\ req[r].pc = "undo" /\ req[r].undo \in Undos
    BY <1>4, Shapes DEF Undo, At, Applies
  <2>2. Ready(r)'
    <3>1. req'[r].pc = "done"
      BY <1>4 DEF Undo, Goes, Done, TypeOK
    <3> QED
      BY <3>1 DEF Ready
  <2>3. CASE req[r].undo.how = "delete"
    <3>1. apps' = apps /\ domains' = [domains EXCEPT ![req[r].undo.id] = NoDomain] /\ req[r].undo.id \in Ids
      BY <1>4, <2>1, <2>3 DEF Undo, Undos
    <3> QED
      BY <1>0, <2>2, <3>1, RemoveUnique
  <2>4. CASE req[r].undo.how = "insert"
    <3>1. apps' = apps /\ NextId \in Ids /\ domains' = AddRow(req[r].undo.app, req[r].undo.host)
      BY <1>4, <2>4 DEF Undo
    <3>2. req[r].undo.app \in Slugs /\ req[r].undo.host \in Custom /\ Clear(req[r].undo.host)
      BY <2>1, <2>4 DEF Undos, Ready
    <3> QED
      BY <1>0, <2>2, <3>1, <3>2, AddRowUnique
  <2> QED
    BY <1>4, <2>3, <2>4 DEF Undo
<1> QED
  BY <1>2, <1>3, <1>4 DEF ApplyRoutes

\* A hostname leads to one app or to the dashboard, as long as requests do not
\* overlap and no stack is applied (handleAddDomain, handleCreateApp).
THEOREM HostnamesAreUnique == Spec => []HostsUnique
<1>1. Init => UniqueInv
  <2> SUFFICES ASSUME Init PROVE UniqueInv
    OBVIOUS
  <2>1. Rows = {}
    BY DEF Init, Rows
  <2>2. \A s \in Slugs : apps[s] # "absent" => Generated[s] # Dashboard
    BY DEF Init
  <2>3. \A r \in Requests : req[r].pc = "idle"
    BY DEF Init, Idle
  <2> QED
    BY <2>1, <2>2, <2>3 DEF Init, UniqueInv, RowsUnique, Ready
<1>2. TypeOK /\ QuietInv /\ UniqueInv /\ [Next]_vars => UniqueInv'
  <2> SUFFICES ASSUME TypeOK, QuietInv, UniqueInv, [Next]_vars, Alone' PROVE RowsUnique' /\ \A r \in Requests : Ready(r)'
    BY DEF UniqueInv
  <2>1. ASSUME NEW r \in Requests, Moves(r) PROVE RowsUnique' /\ \A q \in Requests : Ready(q)'
    <3>1. Alone
      BY <2>1, RequestsKeep DEF Alone
    <3>2. RowsUnique' /\ Ready(r)'
      BY <2>1, <3>1, EarlyUnique, RolloutUnique, ApplyUnique DEF UniqueInv, Moves
    <3> QED
      BY <2>1, <3>1, <3>2, OthersReady DEF Alone
  <2>2. ASSUME apps' = apps, stuck' = stuck, domains' = domains, conduct' = conduct,
               \A r \in Requests : req'[r] = req[r] \/ req'[r].pc \in {"idle", "done"}
        PROVE  RowsUnique' /\ \A r \in Requests : Ready(r)'
    BY <2>2 DEF UniqueInv, Alone, RowsUnique, Rows, Ready, Clear, Held
  <2>3. CASE UNCHANGED vars
    BY <2>2, <2>3 DEF vars, rollouts
  <2>4. CASE Die
    <3>1. RowsUnique /\ \A r \in Requests : Ready(r)
      BY <2>4 DEF UniqueInv, Alone, Die
    <3>2. \A s \in Rolling : apps[s] # "absent"
      BY <3>1 DEF Rolling, Ready
    <3>3. RowsUnique'
      BY <2>4, <3>1, <3>2 DEF Die, RowsUnique, Rows, Clear
    <3>4. \A r \in Requests : Ready(r)'
      BY <2>4, DieEnds DEF Ready
    <3> QED
      BY <3>3, <3>4
  <2>5. CASE Sweep
    <3>1. conduct' = conduct /\ domains' = domains /\ req' = req /\ stuck' \subseteq stuck
      BY <2>5 DEF Sweep, others
    <3>2. RowsUnique /\ \A r \in Requests : Ready(r)
      BY <3>1 DEF UniqueInv, Alone
    <3>3. \A s \in Slugs : apps'[s] # "absent" <=> apps[s] # "absent"
      <4>1. PICK swept \in SUBSET stuck, up \in SUBSET stuck :
              apps' = [s \in Slugs |-> IF s \in up THEN "running" ELSE IF s \in swept THEN "error" ELSE apps[s]]
        BY <2>5 DEF Sweep
      <4> QED
        BY <3>2, <4>1 DEF RowsUnique
    <3>4. RowsUnique'
      BY <3>1, <3>2, <3>3 DEF RowsUnique, Rows, Clear, TypeOK
    <3>5. \A r \in Requests : Ready(r)'
      <4>1. boot # "up"
        BY <2>5 DEF Sweep
      <4>2. \A r \in Requests : req'[r].pc \in {"idle", "done"}
        BY <3>1, <4>1 DEF QuietInv, Active
      <4> QED
        BY <4>2 DEF Ready
    <3> QED
      BY <3>4, <3>5
  <2>6. ASSUME ~Sweep, ~Die,
               Ensure \/ CaddyRestarts \/ CaddyStops \/ Tick \/ Ask \/ CallerLeaves \/ Answer
        PROVE  stuck' = stuck
    BY <2>6 DEF Ensure, Start, Inspect, Pull, Stop, RemoveOld, Empty, Make, Launch, BootApply, BootReload, Fails, rest,
       rollouts, CaddyRestarts, CaddyStops, Tick, Ask, CallerLeaves, Answer, unwatched
  <2>7. CASE Ensure \/ Die \/ CaddyRestarts \/ CaddyStops \/ Tick \/ Ask \/ CallerLeaves \/ Answer
    BY <2>2, <2>4, <2>5, <2>6, <2>7, SystemQuiet
  <2> QED
    BY <2>1, <2>3, <2>7 DEF Next, Moves
<1>3. TypeOK /\ UniqueInv => HostsUnique
  BY NamesUnique
<1>4. Init => QuietInv
  BY QuietStart
<1>5. TypeOK /\ QuietInv /\ [Next]_vars => QuietInv'
  BY QuietSteps
<1> QED
  BY <1>1, <1>2, <1>3, <1>4, <1>5, IngressTyping, PTL DEF Spec

----------------------------------------------------------------------------
(* What Caddy serves.                                                      *)

Holds(r) == req[r].pc \in {"read", "write", "reload"}

\* A change of the rows that no read of the store has seen yet may be around.
Pending == \E r \in Requests : req[r].pc \in {"lock", "read"}

Orderly == ~(conduct.overlap /\ conduct.faults)

\* The mutex is held from the read to the reload, by one request; what is undone
\* was not applied.
HoldInv ==
    /\ lock = {r \in Requests : Holds(r)}
    /\ \A q, r \in lock : q = r
    /\ \A r \in Requests : req[r].pc = "undo" => ~conduct.overlap /\ ~synced

\* What may have been read of the store before the last rollouts were marked or
\* failed.
Allowed == {ConfigOf((Running \ unapplied) \cup left) : left \in SUBSET unapplied}

\* Behind the last change of the rows the snapshot that is on its way is the
\* store's.
FreshInv ==
    /\ boot = "reload" => file = Config /\ unapplied = {}
    /\ boot = "up" /\ ~Pending =>
         /\ \A r \in Requests : req[r].pc = "write" => req[r].config \in Allowed
         /\ \A r \in Requests : req[r].pc = "reload" => file \in Allowed
         /\ lock = {} /\ synced => file \in Allowed /\ (ctr.state = "running" => live = file)

ServedInv == Orderly => HoldInv /\ FreshInv

LEMMA ConfigSame == ASSUME apps' = apps, domains' = domains PROVE Config' = Config
BY DEF Config, ConfigOf, Running, Rows

LEMMA ConfigAllowed == ASSUME TypeOK PROVE Config \in Allowed
<1> DEFINE left == Running \cap unapplied
<1>1. left \in SUBSET unapplied /\ Running = (Running \ unapplied) \cup left
  OBVIOUS
<1> HIDE DEF left
<1> QED
  BY <1>1 DEF Config, Allowed

LEMMA AllowedSame ==
    ASSUME Running' = Running, domains' = domains, unapplied' = unapplied PROVE Allowed' = Allowed
BY DEF Allowed, ConfigOf, Rows

\* When a rollout has marked or failed an app, its old routes may be left.
LEMMA AllowedGrows ==
    ASSUME TypeOK, domains' = domains, NEW S \in SUBSET Slugs, unapplied' = unapplied \cup S,
           \A s \in Slugs \ S : apps'[s] = apps[s]
    PROVE  Allowed \subseteq Allowed'
<1>1. SUFFICES ASSUME NEW left \in SUBSET unapplied, NEW up, up = (Running \ unapplied) \cup left
               PROVE  ConfigOf(up) \in Allowed'
  BY DEF Allowed
<1> DEFINE more == left \cup ((Running \ unapplied) \cap S)
<1>2. more \in SUBSET unapplied' /\ up = (Running' \ unapplied') \cup more
  BY <1>1 DEF Running
<1> HIDE DEF more
<1> QED
  BY <1>2 DEF Allowed, ConfigOf, Rows

\* A step of a request that has nothing to do with an apply.
LEMMA Bystander ==
    ASSUME TypeOK, HoldInv, FreshInv, NEW r \in Requests, Moves(r), Allowed \subseteq Allowed',
           file' = file, live' = live, lock' = lock, synced' = synced,
           req[r].pc \notin {"lock", "read", "write", "reload"},
           req'[r].pc \notin {"lock", "read", "write", "reload", "undo"}
    PROVE  HoldInv' /\ FreshInv'
<1>1. boot = "up" /\ boot' = boot /\ ctr' = ctr /\ conduct' = conduct
  BY Moved, RequestsKeep
<1>2. \A q \in Requests : req'[q] = req[q] \/ q = r
  BY Moved
<1>3. \A q \in Requests : Holds(q)' <=> Holds(q)
  BY <1>2 DEF Holds
<1>4. Pending' <=> Pending
  BY <1>2 DEF Pending
<1>5. HoldInv'
  BY <1>1, <1>2, <1>3 DEF HoldInv
<1>6. FreshInv'
  BY <1>1, <1>2, <1>4 DEF FreshInv
<1> QED
  BY <1>5, <1>6

\* A step of a request that changes a row and goes on to its apply.
LEMMA Changer ==
    ASSUME TypeOK, HoldInv, FreshInv, NEW r \in Requests, Moves(r),
           file' = file, live' = live, lock' = lock, synced' = synced,
           req[r].pc \notin {"lock", "read", "write", "reload", "undo"}, req'[r].pc = "lock"
    PROVE  HoldInv' /\ FreshInv'
<1>1. boot = "up" /\ boot' = boot /\ conduct' = conduct
  BY Moved, RequestsKeep
<1>2. \A q \in Requests : req'[q] = req[q] \/ q = r
  BY Moved
<1>3. \A q \in Requests : Holds(q)' <=> Holds(q)
  BY <1>2 DEF Holds
<1>4. Pending'
  BY DEF Pending
<1>5. HoldInv'
  BY <1>1, <1>2, <1>3 DEF HoldInv
<1> QED
  BY <1>1, <1>4, <1>5 DEF FreshInv

\* The steps of a request before its apply.
LEMMA EarlyServed ==
    ASSUME TypeOK, HoldInv, FreshInv, NEW r \in Requests,
           Begin(r) \/ Add(r) \/ Delete(r) \/ CreateApp(r)
    PROVE  HoldInv' /\ FreshInv'
<1> USE DEF Moves
<1>0. UNCHANGED <<file, live, lock, synced, unapplied>>
  BY DEF Begin, Add, Count, Compare, Insert, Delete, Find, Remove, CreateApp, Lookup, Create, served, rollouts
<1>10. apps' = apps => Running' = Running
  BY DEF Running
<1>1. \A to : Goes(r, to) => req'[r] = to
  BY DEF Goes, TypeOK
<1>2. CASE Begin(r)
  <2>1. apps' = apps /\ domains' = domains /\ req[r].pc = "idle"
    BY <1>2 DEF Begin, At
  <2>2. PICK s \in Slugs :
            \/ \E h \in Custom : Goes(r, [pc |-> "count", app |-> s, host |-> h])
            \/ \E d \in Ids : Goes(r, [pc |-> "find", app |-> s, id |-> d])
            \/ \E pc \in {"lookup", "create", "mark"} : Goes(r, [pc |-> pc, app |-> s])
    BY <1>2 DEF Begin, Rollout
  <2>3. req'[r].pc \in {"count", "find", "lookup", "create", "mark"}
    <3>1. ASSUME NEW h, req'[r] = [pc |-> "count", app |-> s, host |-> h] PROVE req'[r].pc = "count"
      BY <3>1
    <3>2. ASSUME NEW d, req'[r] = [pc |-> "find", app |-> s, id |-> d] PROVE req'[r].pc = "find"
      BY <3>2
    <3>3. ASSUME NEW pc \in {"lookup", "create", "mark"}, req'[r] = [pc |-> pc, app |-> s] PROVE req'[r].pc = pc
      BY <3>3
    <3> QED
      BY <1>1, <2>2, <3>1, <3>2, <3>3
  <2> QED
    BY <1>0, <1>2, <2>1, <2>3, <1>10, AllowedSame, Bystander
<1>3. CASE Count(r) \/ Compare(r)
  <2>1. req[r] \in Adds /\ apps' = apps /\ domains' = domains /\ req[r].pc \in {"count", "compare"}
    BY <1>3, Shapes DEF Count, Compare, At
  <2>2. \E to : Goes(r, to) /\ to.pc \in {"done", "compare", "insert"}
    BY <1>3, <2>1 DEF Count, Compare, Step, Done, Adds
  <2>3. req'[r].pc \in {"done", "compare", "insert"}
    BY <1>1, <2>2
  <2> QED
    BY <1>0, <1>3, <2>1, <2>3, <1>10, AllowedSame, Bystander DEF Add
<1>4. CASE Insert(r)
  <2>1. req[r].pc = "insert" /\ apps' = apps
    BY <1>4 DEF Insert, At
  <2>2. CASE domains' = domains
    <3>1. req'[r].pc = "done"
      BY <1>1, <1>4, <2>2 DEF Insert, Done
    <3> QED
      BY <1>0, <1>4, <2>1, <2>2, <3>1, <1>10, AllowedSame, Bystander DEF Add
  <2>3. CASE domains' # domains
    <3>1. req'[r].pc = "lock"
      BY <1>1, <1>4, <2>3 DEF Insert, Applying
    <3> QED
      BY <1>0, <1>4, <2>1, <3>1, Changer DEF Add
  <2> QED
    BY <2>2, <2>3
<1>5. CASE Find(r)
  <2>1. req[r].pc = "find" /\ apps' = apps /\ domains' = domains
    BY <1>5 DEF Find, At
  <2>2. req'[r].pc \in {"remove", "done"}
    BY <1>1, <1>5 DEF Find, Done
  <2> QED
    BY <1>0, <1>5, <2>1, <2>2, <1>10, AllowedSame, Bystander DEF Delete
<1>6. CASE Remove(r)
  <2>1. req[r].pc = "remove" /\ req'[r].pc = "lock"
    BY <1>1, <1>6 DEF Remove, At, Applying
  <2> QED
    BY <1>0, <1>6, <2>1, Changer DEF Delete
<1>7. CASE Lookup(r)
  <2>1. req[r] \in [pc : {"lookup", "create"}, app : Slugs] /\ apps' = apps /\ domains' = domains
        /\ req[r].pc = "lookup"
    BY <1>7, Shapes DEF Lookup, At
  <2>2. \E to : Goes(r, to) /\ to.pc \in {"done", "create"}
    BY <1>7, <2>1 DEF Lookup, Step, Done
  <2>3. req'[r].pc \in {"done", "create"}
    BY <1>1, <2>2
  <2> QED
    BY <1>0, <1>7, <2>1, <2>3, <1>10, AllowedSame, Bystander DEF CreateApp
<1>8. CASE Create(r)
  <2>1. req[r].pc = "create" /\ req'[r].pc = "done" /\ domains' = domains
    BY <1>1, <1>8 DEF Create, At, Done
  <2>2. Running' = Running
    BY <1>8 DEF Create, TypeOK, Running
  <2> QED
    BY <1>0, <1>8, <2>1, <2>2, AllowedSame, Bystander DEF CreateApp
<1> QED
  BY <1>2, <1>3, <1>4, <1>5, <1>6, <1>7, <1>8 DEF Add, Delete, CreateApp

\* The steps of a rollout: those before and after the cutover apply nothing.
LEMMA RolloutServed ==
    ASSUME TypeOK, HoldInv, FreshInv, NEW r \in Requests, RollOut(r)
    PROVE  HoldInv' /\ FreshInv'
<1>1. req[r] \in Rollouts /\ req[r].app \in Slugs
  BY Shapes DEF RollOut, Mark, Attempt, Cutover, Finish, Fail, Abort, At, Rollouts
<1>2. UNCHANGED <<file, live, lock, synced, domains>>
  BY DEF RollOut, Mark, Attempt, Cutover, Finish, Fail, Abort, served
<1>3. \A to : Goes(r, to) => req'[r] = to
  BY DEF Goes, TypeOK
<1>4. req[r].pc \notin {"lock", "read", "write", "reload", "undo"}
  BY <1>1 DEF Rollouts
<1>5. CASE Cutover(r)
  <2>1. req'[r].pc = "lock"
    BY <1>3, <1>5 DEF Cutover, Applying
  <2> QED
    BY <1>2, <1>4, <2>1, Changer DEF Moves
<1>6. CASE Mark(r) \/ Attempt(r) \/ Finish(r) \/ Fail(r) \/ Abort(r)
  <2>1. req'[r].pc \in {"attempt", "cutover", "fail", "done"}
    <3>1. \A pc \in {"attempt", "cutover", "fail"} : Step(r, pc).pc = pc
      BY <1>1 DEF Step, Rollouts
    <3> QED
      BY <1>3, <1>6, <3>1 DEF Mark, Attempt, Finish, Fail, Abort, Done
  <2>2. CASE Mark(r) \/ Fail(r)
    <3>1. unapplied' = unapplied \cup {req[r].app} /\ \A s \in Slugs \ {req[r].app} : apps'[s] = apps[s]
      BY <2>2 DEF Mark, Fail, Status, TypeOK
    <3> QED
      BY <1>1, <1>2, <1>4, <2>1, <3>1, AllowedGrows, Bystander DEF Moves
  <2>3. CASE Attempt(r) \/ Finish(r) \/ Abort(r)
    <3>1. unapplied' = unapplied /\ Running' = Running
      BY <1>1, <2>3 DEF Attempt, Finish, Abort, Status, Running, TypeOK
    <3> QED
      BY <1>2, <1>4, <2>1, <3>1, AllowedSame, Bystander DEF Moves
  <2> QED
    BY <1>6, <2>2, <2>3
<1> QED
  BY <1>5, <1>6 DEF RollOut

\* The steps of its apply: the holder of the mutex reads the store as it is, and
\* whoever changes it later is still to come.
LEMMA ApplyServed ==
    ASSUME TypeOK, QuietInv, Orderly, HoldInv, FreshInv, NEW r \in Requests, ApplyRoutes(r)
    PROVE  HoldInv' /\ FreshInv'
<1>1. \A to : Goes(r, to) => req'[r] = to
  BY DEF Goes, TypeOK
<1>2. boot = "up" /\ boot' = boot /\ ctr' = ctr /\ conduct' = conduct /\ \A q \in Requests : q # r => req'[q] = req[q]
  BY Moved, RequestsKeep DEF Moves
<1>3. req[r] \in Applies
  BY Shapes DEF ApplyRoutes, Lock, Read, Write, Reload, Undo, At
<1>4. Active(r) => ctr.state = "running"
  BY <1>2 DEF QuietInv
<1>5. ASSUME NEW pc \in {"read", "reload"}, Goes(r, Step(r, pc)) PROVE req'[r].pc = pc
  BY <1>1, <1>3, <1>5 DEF Step, Applies
<1>12. /\ Goes(r, Failed(r)) => req'[r].pc \in {"undo", "fail"}
       /\ Goes(r, Succeeded(r)) => req'[r].pc \in {"done", "finish"}
  BY <1>1, <1>3 DEF Failed, Succeeded, Step, Rollout, Done, Applies
<1>13. ~Read(r) => unapplied' = unapplied
  BY DEF ApplyRoutes, Lock, Write, Reload, Undo, rollouts
<1>14. ~Read(r) /\ domains' = domains => Allowed' = Allowed
  <2>1. ~Read(r) => apps' = apps
    BY DEF ApplyRoutes, Lock, Write, Reload, Undo
  <2> QED
    BY <1>13, <2>1, AllowedSame DEF Running
<1>6. CASE Lock(r)
  <2>1. req[r].pc = "lock" /\ req'[r].pc = "read" /\ lock = {} /\ lock' = {r} /\ synced' = synced
    BY <1>5, <1>6 DEF Lock, At, Free
  <2>2. \A q \in Requests : q # r => ~Holds(q)
    BY <2>1 DEF HoldInv
  <2>3. HoldInv'
    BY <1>2, <2>1, <2>2 DEF HoldInv, Holds
  <2>4. Pending'
    BY <2>1 DEF Pending
  <2> QED
    BY <1>2, <2>3, <2>4 DEF FreshInv
<1>7. ASSUME Holds(r) PROVE lock = {r} /\ \A q \in Requests : q # r => ~Holds(q)
  BY <1>7 DEF HoldInv
<1>8. CASE Read(r)
  <2>1. req[r].pc = "read" /\ req'[r].pc = "write" /\ req'[r].config = Config
    <3>1. req'[r] = [req[r] EXCEPT !.pc = "write", !.config = Config] /\ req[r].pc = "read"
      BY <1>1, <1>8 DEF Read, At
    <3> QED
      BY <1>3, <3>1 DEF Applies
  <2>2. Config' = Config /\ lock' = lock /\ file' = file /\ live' = live /\ synced' = synced
    BY <1>8, ConfigSame DEF Read, served
  <2>6. Config' \in Allowed'
    <3>1. Running' = (Running' \ unapplied') \cup {} /\ {} \in SUBSET unapplied'
      BY <1>8 DEF Read
    <3> QED
      BY <3>1 DEF Config, Allowed
  <2>3. lock = {r} /\ \A q \in Requests : q # r => ~Holds(q)
    BY <1>7, <2>1 DEF Holds
  <2>4. HoldInv'
    BY <1>2, <2>1, <2>2, <2>3 DEF HoldInv, Holds
  <2>5. FreshInv'
    BY <1>2, <2>1, <2>2, <2>3, <2>6 DEF FreshInv, Holds
  <2> QED
    BY <2>4, <2>5
<1>9. CASE Write(r)
  <2>1. req[r].pc = "write" /\ Allowed' = Allowed /\ live' = live
    BY <1>9, <1>14 DEF Write, Read, At
  <2>2. lock = {r} /\ \A q \in Requests : q # r => ~Holds(q)
    BY <1>7, <2>1 DEF Holds
  <2>3. CASE file' = req[r].config /\ Goes(r, Step(r, "reload")) /\ UNCHANGED <<lock, synced>>
    <3>1. req'[r].pc = "reload"
      BY <1>5, <2>3
    <3>2. Pending' <=> Pending
      BY <1>2, <2>1, <3>1 DEF Pending
    <3>3. HoldInv'
      BY <1>2, <2>1, <2>2, <2>3, <3>1 DEF HoldInv, Holds
    <3>4. FreshInv'
      BY <1>2, <2>1, <2>2, <2>3, <3>1, <3>2 DEF FreshInv, Holds
    <3> QED
      BY <3>3, <3>4
  <2>4. CASE conduct.faults /\ Goes(r, Failed(r)) /\ lock' = {} /\ synced' = FALSE
    <3>1. req'[r].pc \in {"undo", "fail"} /\ ~conduct.overlap
      BY <1>12, <2>4 DEF Orderly
    <3>2. HoldInv'
      BY <1>2, <2>2, <2>4, <3>1 DEF HoldInv, Holds
    <3>3. FreshInv'
      BY <1>2, <2>2, <2>4, <3>1 DEF FreshInv, Holds
    <3> QED
      BY <3>2, <3>3
  <2> QED
    BY <1>9, <2>3, <2>4 DEF Write
<1>10. CASE Reload(r)
  <2>1. req[r].pc = "reload" /\ Allowed' = Allowed /\ file' = file /\ lock' = lock \ {r}
    BY <1>10, <1>14 DEF Reload, Read, At
  <2>2. lock = {r} /\ \A q \in Requests : q # r => ~Holds(q)
    BY <1>7, <2>1 DEF Holds
  <2>3. lock' = {}
    BY <2>1, <2>2
  <2>4. CASE live' = file /\ synced' = TRUE /\ Goes(r, Succeeded(r))
    <3>1. req'[r].pc \in {"done", "finish"}
      BY <1>12, <2>4
    <3>2. Pending' <=> Pending
      BY <1>2, <2>1, <3>1 DEF Pending
    <3>3. \A q \in Requests : req[q].pc = "undo" => FALSE
      <4> SUFFICES ASSUME NEW q \in Requests, req[q].pc = "undo" PROVE FALSE
        OBVIOUS
      <4>1. Active(q) /\ Active(r) /\ ~conduct.overlap
        BY <2>1 DEF Active, HoldInv
      <4> QED
        BY <2>1, <4>1 DEF QuietInv
    <3>4. HoldInv'
      BY <1>2, <2>2, <2>3, <3>1, <3>3 DEF HoldInv, Holds
    <3>5. FreshInv'
      BY <1>2, <2>1, <2>2, <2>4, <3>1, <3>2 DEF FreshInv, Holds
    <3> QED
      BY <3>4, <3>5
  <2>5. CASE (conduct.faults \/ ctr.state # "running") /\ synced' = FALSE /\ Goes(r, Failed(r))
    <3>1. req'[r].pc \in {"undo", "fail"} /\ ~conduct.overlap
      BY <1>4, <1>12, <2>1, <2>5 DEF Orderly, Active
    <3>2. HoldInv'
      BY <1>2, <2>2, <2>3, <2>5, <3>1 DEF HoldInv, Holds
    <3>3. FreshInv'
      BY <1>2, <2>2, <2>5, <3>1 DEF FreshInv, Holds
    <3> QED
      BY <3>2, <3>3
  <2> QED
    BY <1>10, <2>4, <2>5 DEF Reload
<1>11. CASE Undo(r)
  <2>1. req[r].pc = "undo" /\ req'[r].pc = "done" /\ lock' = lock /\ synced' = synced
    BY <1>1, <1>11 DEF Undo, At, Done
  <2>2. ~conduct.overlap /\ ~synced
    BY <2>1 DEF HoldInv
  <2>3. \A q \in Requests : q # r => req[q].pc \in {"idle", "done"}
    BY <2>1, <2>2 DEF QuietInv, Active
  <2>4. HoldInv'
    BY <1>2, <2>1, <2>2, <2>3 DEF HoldInv, Holds
  <2>5. FreshInv'
    BY <1>2, <2>1, <2>2, <2>3 DEF FreshInv
  <2> QED
    BY <2>4, <2>5
<1> QED
  BY <1>6, <1>8, <1>9, <1>10, <1>11 DEF ApplyRoutes

\* A failure of the store ends a request that has changed nothing, or is undone.
LEMMA FailureServed ==
    ASSUME TypeOK, Orderly, HoldInv, FreshInv, NEW r \in Requests, StoreFails(r)
    PROVE  HoldInv' /\ FreshInv'
<1>1. \A to : Goes(r, to) => req'[r] = to
  BY DEF Goes, TypeOK
<1>2. boot = "up" /\ boot' = boot /\ ctr' = ctr /\ conduct' = conduct /\ \A q \in Requests : q # r => req'[q] = req[q]
  BY Moved, RequestsKeep DEF Moves
<1>3. Allowed' = Allowed /\ file' = file /\ live' = live /\ ~conduct.overlap
  BY AllowedSame DEF StoreFails, served, Orderly, rollouts, Running
<1>4. CASE req[r].pc = "read"
  <2>1. Goes(r, Failed(r)) /\ lock' = {} /\ synced' = FALSE
    BY <1>4 DEF StoreFails
  <2>2. req'[r].pc \in {"undo", "fail"}
    BY <1>1, <1>4, <2>1, Shapes DEF Failed, Step, Rollout, Applies
  <2>3. lock = {r} /\ \A q \in Requests : q # r => ~Holds(q)
    BY <1>4 DEF HoldInv, Holds
  <2>4. HoldInv'
    BY <1>2, <1>3, <2>1, <2>2, <2>3 DEF HoldInv, Holds
  <2>5. FreshInv'
    BY <1>2, <1>3, <2>1, <2>2, <2>3 DEF FreshInv, Holds
  <2> QED
    BY <2>4, <2>5
<1>5. CASE req[r].pc # "read"
  <2>1. lock' = lock /\ synced' = synced /\ req[r].pc \notin {"lock", "read", "write", "reload"}
    BY <1>5 DEF StoreFails
  <2>2. req'[r].pc \in {"done", "fail"}
    BY <1>1, <1>5, Shapes DEF StoreFails, Done, Step, Rollouts
  <2> QED
    BY <1>3, <2>1, <2>2, Bystander DEF Moves
<1> QED
  BY <1>4, <1>5

\* The boot starts over, and Caddy with it or by itself.
LEMMA SystemServed ==
    ASSUME TypeOK, QuietInv, HoldInv, FreshInv,
           Ensure \/ Die \/ CaddyRestarts \/ CaddyStops \/ Tick \/ Ask \/ CallerLeaves \/ Answer
    PROVE  HoldInv' /\ FreshInv'
<1>1. conduct' = conduct
  BY SystemQuiet
<1>2. CASE Die
  <2>1. lock' = {} /\ boot' = "down" /\ synced' = FALSE
    BY <1>2 DEF Die
  <2> QED
    BY <1>2, <2>1, DieEnds DEF HoldInv, FreshInv, Holds
<1>3. CASE Ensure
  <2>1. req' = req /\ lock' = lock
    BY <1>3, SystemQuiet DEF Ensure, Start, Inspect, Pull, Stop, RemoveOld, Empty, Make, Launch, Sweep, BootApply,
       BootReload, Fails, rest, others
  <2>2. boot # "up"
    BY <1>3 DEF Ensure, Start, Inspect, Pull, Stop, RemoveOld, Empty, Make, Launch, Sweep, BootApply, BootReload, Fails
  <2>3. \A r \in Requests : req[r].pc \in {"idle", "done"}
    BY <2>2 DEF QuietInv, Active
  <2>4. HoldInv'
    BY <1>1, <2>1, <2>3 DEF HoldInv, Holds
  <2>5. CASE BootApply
    BY <1>1, <2>4, <2>5, ConfigSame DEF BootApply, FreshInv, others
  <2>6. CASE BootReload
    <3>1. file = Config /\ file' = file /\ live' = file
      BY <2>6 DEF BootReload, FreshInv
    <3>2. Allowed' = Allowed /\ Config \in Allowed
      BY <2>6, AllowedSame, ConfigAllowed DEF BootReload, rest, rollouts, others, Running
    <3> QED
      BY <1>1, <2>1, <2>3, <2>4, <2>6, <3>1, <3>2 DEF BootReload, FreshInv
  <2>7. CASE ~BootApply /\ ~BootReload
    <3>1. boot' \notin {"reload", "up"}
      BY <1>3, <2>7 DEF Ensure, Start, Inspect, Inspected, Pull, Stop, RemoveOld, Empty, Make, Launch, Sweep, Fails
    <3> QED
      BY <2>4, <3>1 DEF FreshInv
  <2> QED
    BY <2>4, <2>5, <2>6, <2>7
<1>4. CASE CaddyRestarts \/ CaddyStops
  <2>1. req' = req /\ lock' = lock /\ boot' = boot /\ boot = "up" /\ synced' = synced /\ file' = file
        /\ (live' = file \/ ctr'.state # "running")
    BY <1>4 DEF CaddyRestarts, CaddyStops, rest, others, TypeOK
  <2>2. Allowed' = Allowed
    BY <1>4, AllowedSame DEF CaddyRestarts, CaddyStops, rest, rollouts, others, Running
  <2> QED
    BY <1>1, <2>1, <2>2 DEF HoldInv, Holds, FreshInv, Pending
<1>5. CASE Tick \/ Ask \/ CallerLeaves \/ Answer
  <2>1. req' = req /\ lock' = lock /\ boot' = boot /\ synced' = synced /\ file' = file /\ live' = live /\ ctr' = ctr
        /\ UNCHANGED <<apps, domains, unapplied>>
    BY <1>5 DEF Tick, Ask, CallerLeaves, Answer, unwatched, served, rollouts
  <2>2. Allowed' = Allowed /\ Config' = Config
    BY <2>1, AllowedSame, ConfigSame DEF Running
  <2> QED
    BY <1>1, <2>1, <2>2 DEF HoldInv, Holds, FreshInv, Pending
<1> QED
  BY <1>2, <1>3, <1>4, <1>5

----------------------------------------------------------------------------
(* What runs has its route.                                                *)

Calm == ~conduct.overlap /\ ~conduct.faults

ApplyPcs == {"lock", "read", "write", "reload"}

\* An app between the first write of its status and the last.
Undergoing(r, s) ==
    \/ req[r].pc \in {"attempt", "cutover", "finish", "fail"} /\ req[r].app = s
    \/ req[r].pc \in ApplyPcs /\ req[r].undo = [how |-> "status", app |-> s]

Finishing == {s \in Slugs : \E r \in Requests : req[r].pc = "finish" /\ req[r].app = s}

\* An app has the status "running" when a rollout of it has left a container.
Settled == \A s \in Slugs : (\A r \in Requests : ~Undergoing(r, s)) => (s \in kept <=> apps[s] = "running")

\* A rollout past its cutover; nothing comes between the read and the reload,
\* and no apply fails.
Rolled(r) ==
    /\ req[r].pc = "finish" => apps[req[r].app] = "running"
    /\ req[r].pc \in ApplyPcs /\ req[r].undo.how = "status" => apps[req[r].undo.app] = "running"
    /\ req[r].pc \in {"write", "reload"} => unapplied = {}
    /\ req[r].pc # "undo"

Routed == boot = "up" /\ (\A r \in Requests : req[r].pc \notin ApplyPcs) => ConfigOf(kept \cup Finishing) \subseteq file

RouteInv == Calm => stuck = {} /\ Settled /\ Routed /\ \A r \in Requests : Rolled(r)

LEMMA ConfigGrows ==
    ASSUME NEW up, NEW more, up \subseteq more PROVE ConfigOf(up) \subseteq ConfigOf(more)
BY DEF ConfigOf

LEMMA ConfigStays == ASSUME domains' = domains, NEW up PROVE ConfigOf(up)' = ConfigOf(up)
BY DEF ConfigOf, Rows

\* With no overlap the others are idle.
LEMMA OthersIdle ==
    ASSUME TypeOK, QuietInv, ~conduct.overlap, NEW r \in Requests, Moves(r)
    PROVE  \A q \in Requests : q # r => req[q].pc \in {"idle", "done"} /\ req'[q] = req[q]
BY Moved DEF QuietInv, Begin, Active

\* What is left to show of a request's step.
LEMMA RouteStep ==
    ASSUME TypeOK, QuietInv, RouteInv, Calm, NEW r \in Requests, Moves(r),
           stuck' = stuck, Rolled(r)',
           \A s \in Slugs : ~Undergoing(r, s)' => (s \in kept' <=> apps'[s] = "running"),
           req'[r].pc \notin ApplyPcs => ConfigOf(kept \cup Finishing)' \subseteq file'
    PROVE  RouteInv'
<1>1. \A q \in Requests : q # r => req[q].pc \in {"idle", "done"} /\ req'[q] = req[q]
  BY OthersIdle DEF Calm
<1>2. \A q \in Requests : Rolled(q)'
  BY <1>1 DEF Rolled, ApplyPcs
<1>3. Settled'
  BY DEF Settled
<1>4. Routed'
  BY DEF Routed
<1> QED
  BY <1>2, <1>3, <1>4 DEF RouteInv

\* The hostnames and the file are as they were, and no app more has routes.
LEMMA RoutesLeft ==
    ASSUME domains' = domains, file' = file, NEW up, (kept \cup Finishing)' \subseteq up, ConfigOf(up) \subseteq file
    PROVE  ConfigOf(kept \cup Finishing)' \subseteq file'
BY DEF ConfigOf, Rows

\* The apps past their cutover, when one request is not idle.
LEMMA FinishingOne ==
    ASSUME TypeOK, QuietInv, Calm, NEW r \in Requests, Moves(r)
    PROVE  /\ Finishing = IF req[r].pc = "finish" THEN {req[r].app} \cap Slugs ELSE {}
           /\ Finishing' = IF req'[r].pc = "finish" THEN {req'[r].app} \cap Slugs ELSE {}
<1>1. \A q \in Requests : q # r => req[q].pc \in {"idle", "done"} /\ req'[q] = req[q]
  BY OthersIdle DEF Calm
<1> QED
  BY <1>1 DEF Finishing

\* Before its step the file has the routes of what is left and of what finishes.
LEMMA RoutesBefore ==
    ASSUME TypeOK, QuietInv, RouteInv, Calm, NEW r \in Requests, Moves(r), req[r].pc \notin ApplyPcs
    PROVE  ConfigOf(kept \cup Finishing) \subseteq file
<1>1. \A q \in Requests : q # r => req[q].pc \in {"idle", "done"}
  BY OthersIdle DEF Calm
<1> QED
  BY <1>1, Moved DEF RouteInv, Routed, ApplyPcs

\* A step that leaves the containers alone and what runs, of a request that is
\* neither rolling out nor applying, before and after.
LEMMA RouteBystander ==
    ASSUME TypeOK, QuietInv, RouteInv, Calm, NEW r \in Requests, Moves(r),
           UNCHANGED <<kept, stuck, domains, file>>,
           \A s \in Slugs : apps'[s] = "running" <=> apps[s] = "running",
           req[r].pc \notin ApplyPcs \cup {"attempt", "cutover", "finish", "fail"},
           req'[r].pc \notin ApplyPcs \cup {"attempt", "cutover", "finish", "fail", "undo"}
    PROVE  RouteInv'
<1>1. \A q \in Requests : q # r => req[q].pc \in {"idle", "done"}
  BY OthersIdle DEF Calm
<1>2. Rolled(r)'
  BY DEF Rolled, ApplyPcs
<1>3. \A s \in Slugs : s \in kept <=> apps[s] = "running"
  <2>1. \A q \in Requests, s \in Slugs : ~Undergoing(q, s)
    BY <1>1 DEF Undergoing, ApplyPcs
  <2> QED
    BY <2>1 DEF RouteInv, Settled
<1>4. Finishing = {} /\ Finishing' = {}
  BY FinishingOne
<1>5. ConfigOf(kept \cup Finishing)' \subseteq file'
  BY <1>4, RoutesBefore, RoutesLeft
<1> QED
  BY <1>2, <1>3, <1>5, RouteStep

\* The first step of a request, by its kind.
LEMMA Begun ==
    ASSUME TypeOK, NEW r \in Requests, Begin(r)
    PROVE  req'[r].pc \in {"count", "find", "lookup", "create", "mark"}
<1>1. \A to : Goes(r, to) => req'[r] = to
  BY DEF Goes, TypeOK
<1>2. PICK s \in Slugs :
          \/ \E h \in Custom : Goes(r, [pc |-> "count", app |-> s, host |-> h])
          \/ \E d \in Ids : Goes(r, [pc |-> "find", app |-> s, id |-> d])
          \/ Goes(r, [pc |-> "lookup", app |-> s])
          \/ Goes(r, [pc |-> "create", app |-> s])
          \/ Goes(r, Rollout("mark", s))
  BY DEF Begin
<1>3. CASE \E h \in Custom : Goes(r, [pc |-> "count", app |-> s, host |-> h])
  BY <1>1, <1>3
<1>4. CASE \E d \in Ids : Goes(r, [pc |-> "find", app |-> s, id |-> d])
  BY <1>1, <1>4
<1>5. CASE Goes(r, [pc |-> "lookup", app |-> s]) \/ Goes(r, [pc |-> "create", app |-> s]) \/ Goes(r, Rollout("mark", s))
  BY <1>1, <1>5 DEF Rollout
<1> QED
  BY <1>2, <1>3, <1>4, <1>5

\* A request of the store, up to its apply.
LEMMA RouteEarly ==
    ASSUME TypeOK, QuietInv, RouteInv, Calm, NEW r \in Requests,
           Begin(r) \/ Add(r) \/ Delete(r) \/ CreateApp(r)
    PROVE  RouteInv'
<1>1. Moves(r) /\ UNCHANGED <<kept, stuck, file>>
  BY DEF Moves, Begin, Add, Count, Compare, Insert, Delete, Find, Remove, CreateApp, Lookup, Create, served, rollouts
<1>2. \A to : Goes(r, to) => req'[r] = to
  BY DEF Goes, TypeOK
<1>3. req[r].pc \in {"idle", "count", "compare", "insert", "find", "remove", "lookup", "create"}
  BY DEF Begin, Add, Count, Compare, Insert, Delete, Find, Remove, CreateApp, Lookup, Create, At
<1>4. \A s \in Slugs : apps'[s] = "running" <=> apps[s] = "running"
  <2>1. CASE Create(r)
    BY <2>1, Shapes DEF Create, TypeOK
  <2>2. CASE Begin(r) \/ Add(r) \/ Delete(r) \/ Lookup(r)
    BY <2>2 DEF Begin, Add, Count, Compare, Insert, Delete, Find, Remove, Lookup
  <2> QED
    BY <2>1, <2>2 DEF CreateApp
<1>5. CASE req'[r].pc = "lock"
  <2>1. Rolled(r)'
    <3>1. req'[r].undo.how # "status"
      <4>1. CASE Insert(r)
        BY <1>2, <1>5, <4>1 DEF Insert, Applying, Done
      <4>2. CASE Remove(r)
        BY <1>2, <4>2 DEF Remove, Applying
      <4>3. CASE Begin(r) \/ Count(r) \/ Compare(r) \/ Find(r) \/ CreateApp(r)
        <5>1. \A pc : req[r] \in Adds \cup [pc : {"lookup", "create"}, app : Slugs] => Step(r, pc).pc = pc
          BY DEF Step, Adds
        <5>2. Count(r) \/ Compare(r) => req[r] \in Adds
          BY Shapes DEF Count, Compare, At
        <5>3. Lookup(r) => req[r] \in [pc : {"lookup", "create"}, app : Slugs]
          BY Shapes DEF Lookup, At
        <5>4. ~Begin(r)
          BY <1>5, Begun
        <5>5. ~Count(r) /\ ~Compare(r)
          BY <1>2, <1>5, <5>1, <5>2 DEF Count, Compare, Done
        <5>6. ~Find(r) /\ ~Create(r)
          BY <1>2, <1>5 DEF Find, Create, Done
        <5>7. ~Lookup(r)
          BY <1>2, <1>5, <5>1, <5>3 DEF Lookup, Done
        <5> QED
          BY <4>3, <5>4, <5>5, <5>6, <5>7 DEF CreateApp
      <4> QED
        BY <4>1, <4>2, <4>3 DEF Add, Delete
    <3> QED
      BY <1>5, <3>1 DEF Rolled, ApplyPcs
  <2>2. \A s \in Slugs : s \in kept <=> apps[s] = "running"
    <3>1. \A q \in Requests, s \in Slugs : ~Undergoing(q, s)
      BY <1>1, <1>3, OthersIdle DEF Undergoing, ApplyPcs, Calm
    <3> QED
      BY <3>1 DEF RouteInv, Settled
  <2> QED
    BY <1>1, <1>4, <1>5, <2>1, <2>2, RouteStep DEF ApplyPcs
<1>6. CASE req'[r].pc # "lock"
  <2>1. req'[r].pc \in {"count", "find", "lookup", "create", "mark", "compare", "insert", "remove", "done"}
    <3>1. \A pc \in {"compare", "insert", "create"} :
             req[r] \in Adds \cup [pc : {"lookup", "create"}, app : Slugs] => Step(r, pc).pc = pc
      BY DEF Step, Adds
    <3>2. CASE Begin(r)
      BY <3>2, Begun
    <3>3. CASE Add(r)
      <4>1. req[r] \in Adds
        BY <3>3, Shapes DEF Add, Count, Compare, Insert, At
      <4> QED
        BY <1>2, <1>6, <3>1, <3>3, <4>1 DEF Add, Count, Compare, Insert, Applying, Done
    <3>4. CASE Delete(r)
      BY <1>2, <1>6, <3>4 DEF Delete, Find, Remove, Applying, Done
    <3>5. CASE CreateApp(r)
      <4>1. req[r] \in [pc : {"lookup", "create"}, app : Slugs]
        BY <3>5, Shapes DEF CreateApp, Lookup, Create, At
      <4> QED
        BY <1>2, <3>1, <3>5, <4>1 DEF CreateApp, Lookup, Create, Done
    <3> QED
      BY <3>2, <3>3, <3>4, <3>5
  <2>2. domains' = domains
    <3>1. CASE Insert(r)
      <4>1. ~Goes(r, Applying([how |-> "delete", id |-> NextId]))
        BY <1>2, <1>6 DEF Applying
      <4> QED
        BY <3>1, <4>1 DEF Insert
    <3>2. CASE Remove(r)
      BY <1>2, <1>6, <3>2 DEF Remove, Applying
    <3>3. CASE Begin(r) \/ Count(r) \/ Compare(r) \/ Find(r) \/ CreateApp(r)
      BY <3>3 DEF Begin, Count, Compare, Find, CreateApp, Lookup, Create
    <3> QED
      BY <3>1, <3>2, <3>3 DEF Add, Delete
  <2>3. req[r].pc \notin ApplyPcs \cup {"attempt", "cutover", "finish", "fail"}
        /\ req'[r].pc \notin ApplyPcs \cup {"attempt", "cutover", "finish", "fail", "undo"}
    BY <1>3, <2>1 DEF ApplyPcs
  <2> QED
    BY <1>1, <1>4, <2>2, <2>3, RouteBystander
<1> QED
  BY <1>5, <1>6

\* A rollout.
LEMMA RouteRollout ==
    ASSUME TypeOK, QuietInv, RouteInv, Calm, NEW r \in Requests, RollOut(r)
    PROVE  RouteInv'
<1> DEFINE a == req[r].app
<1>1. req[r] \in Rollouts /\ a \in Slugs
  BY Shapes DEF RollOut, Mark, Attempt, Cutover, Finish, Fail, Abort, At, Rollouts
<1>2. Moves(r) /\ UNCHANGED <<stuck, domains, file>>
  <2>1. stuck' = stuck
    BY DEF RollOut, Mark, Attempt, Cutover, Finish, Fail, Abort, Ended, Calm, rollouts
  <2>2. UNCHANGED <<domains, file>>
    BY DEF RollOut, Mark, Attempt, Cutover, Finish, Fail, Abort, served
  <2> QED
    BY <2>1, <2>2 DEF Moves
<1>3. \A to : Goes(r, to) => req'[r] = to
  BY DEF Goes, TypeOK
<1>4. \A pc : Step(r, pc) = [pc |-> pc, app |-> a]
  BY <1>1 DEF Step, Rollouts
<1>5. req[r].pc \notin ApplyPcs
  BY <1>1 DEF Rollouts, ApplyPcs
<1>6. \A q \in Requests : q # r => req[q].pc \in {"idle", "done"}
  BY <1>2, OthersIdle DEF Calm
<1>7. \A s \in Slugs : s # a \/ req[r].pc = "mark" => (s \in kept <=> apps[s] = "running")
  <2>1. \A s \in Slugs : s # a \/ req[r].pc = "mark" => \A q \in Requests : ~Undergoing(q, s)
    BY <1>5, <1>6 DEF Undergoing, ApplyPcs
  <2> QED
    BY <2>1 DEF RouteInv, Settled
<1>8. ConfigOf(kept \cup Finishing) \subseteq file
  BY <1>2, <1>5, RoutesBefore
<1>9. /\ Finishing = IF req[r].pc = "finish" THEN {a} ELSE {}
      /\ Finishing' = IF req'[r].pc = "finish" THEN {req'[r].app} \cap Slugs ELSE {}
  BY <1>1, <1>2, FinishingOne
<1>10. \A s \in Slugs : s # a => apps'[s] = apps[s] /\ (s \in kept' <=> s \in kept)
  <2>1. CASE Mark(r) \/ Cutover(r) \/ Abort(r)
    BY <2>1 DEF Mark, Cutover, Abort, Status, TypeOK, rollouts
  <2>2. CASE Attempt(r) \/ Finish(r)
    BY <2>2 DEF Attempt, Finish
  <2>3. CASE Fail(r)
    BY <2>3 DEF Fail, Status, TypeOK
  <2> QED
    BY <2>1, <2>2, <2>3 DEF RollOut
<1> HIDE DEF a
<1>11. CASE Mark(r) \/ Attempt(r)
  <2>1. req'[r].pc \in {"attempt", "cutover", "fail"} /\ req'[r].app = a
    BY <1>3, <1>4, <1>11 DEF Mark, Attempt
  <2>2. Rolled(r)'
    BY <2>1 DEF Rolled, ApplyPcs
  <2>3. \A s \in Slugs : ~Undergoing(r, s)' => s # a
    BY <2>1 DEF Undergoing
  <2>4. kept' \subseteq kept
    BY <1>11 DEF Mark, Attempt
  <2>5. ConfigOf(kept \cup Finishing)' \subseteq file'
    BY <1>2, <1>8, <1>9, <2>1, <2>4, RoutesLeft
  <2> QED
    BY <1>2, <1>7, <1>10, <2>2, <2>3, <2>5, RouteStep
<1>12. CASE Cutover(r)
  <2>1. req'[r] = Applying([how |-> "status", app |-> a]) /\ apps'[a] = "running"
    BY <1>1, <1>3, <1>12 DEF Cutover, Status, TypeOK, a
  <2>2. Rolled(r)'
    BY <2>1 DEF Rolled, ApplyPcs, Applying
  <2>3. \A s \in Slugs : ~Undergoing(r, s)' => s # a
    BY <2>1 DEF Undergoing, Applying, ApplyPcs
  <2>4. req'[r].pc \in ApplyPcs
    BY <2>1 DEF Applying, ApplyPcs
  <2> QED
    BY <1>2, <1>7, <1>10, <2>2, <2>3, <2>4, RouteStep
<1>13. CASE Finish(r)
  <2>1. req'[r].pc = "done" /\ kept' = kept \cup {a} /\ apps' = apps /\ req[r].pc = "finish"
    BY <1>3, <1>13 DEF Finish, Done, At, a
  <2>2. Rolled(r)'
    BY <2>1 DEF Rolled, ApplyPcs
  <2>3. apps[a] = "running"
    BY <2>1 DEF RouteInv, Rolled, a
  <2>4. ConfigOf(kept \cup Finishing)' \subseteq file'
    BY <1>2, <1>8, <1>9, <2>1, RoutesLeft
  <2> QED
    BY <1>2, <1>7, <2>1, <2>2, <2>3, <2>4, RouteStep
<1>14. CASE Fail(r)
  <2>1. req'[r].pc = "done" /\ kept' = kept
    BY <1>3, <1>14 DEF Fail, Done, Calm
  <2>2. apps'[a] = IF a \in kept THEN "running" ELSE "error"
    BY <1>1, <1>14 DEF Fail, Status, Calm, TypeOK, a
  <2>3. Rolled(r)'
    BY <2>1 DEF Rolled, ApplyPcs
  <2>4. ConfigOf(kept \cup Finishing)' \subseteq file'
    BY <1>2, <1>8, <1>9, <2>1, RoutesLeft
  <2> QED
    BY <1>2, <1>7, <1>10, <2>1, <2>2, <2>3, <2>4, RouteStep
<1>15. CASE Abort(r)
  <2>1. req'[r].pc = "done" /\ kept' = kept /\ req[r].pc = "mark"
    BY <1>3, <1>15 DEF Abort, Done, At
  <2>2. apps'[a] = apps[a] \/ (apps[a] = "created" /\ apps'[a] = "error")
    <3>1. CASE apps' = apps
      BY <3>1
    <3>2. CASE apps[a] = "created" /\ Status(a, "error")
      BY <1>1, <3>2 DEF Status, TypeOK
    <3> QED
      BY <1>15, <3>1, <3>2 DEF Abort, a
  <2>3. Rolled(r)'
    BY <2>1 DEF Rolled, ApplyPcs
  <2>4. ConfigOf(kept \cup Finishing)' \subseteq file'
    BY <1>2, <1>8, <1>9, <2>1, RoutesLeft
  <2> QED
    BY <1>2, <1>7, <1>10, <2>1, <2>2, <2>3, <2>4, RouteStep
<1> QED
  BY <1>11, <1>12, <1>13, <1>14, <1>15 DEF RollOut

\* The apply. What has been read is what the store says when it is live.
LEMMA RouteApply ==
    ASSUME TypeOK, QuietInv, RouteInv, Calm, HoldInv, FreshInv, NEW r \in Requests, ApplyRoutes(r)
    PROVE  RouteInv'
<1>1. req[r] \in Applies /\ req[r].undo \in Undos
  BY Shapes DEF ApplyRoutes, Lock, Read, Write, Reload, Undo, At, Applies
<1>2. Moves(r)
  BY DEF Moves
<1>3. \A to : Goes(r, to) => req'[r] = to
  BY DEF Goes, TypeOK
<1>4. req[r].pc \in ApplyPcs /\ UNCHANGED <<apps, kept, stuck, domains>>
  <2>1. ~Undo(r)
    BY DEF RouteInv, Rolled, Undo, At
  <2> QED
    BY <2>1 DEF ApplyRoutes, Lock, Read, Write, Reload, At, ApplyPcs, rollouts
<1>5. \A q \in Requests : q # r => req[q].pc \in {"idle", "done"}
  BY <1>2, OthersIdle DEF Calm
<1>6. \A s \in Slugs : req[r].undo # [how |-> "status", app |-> s] => (s \in kept <=> apps[s] = "running")
  <2>1. \A s \in Slugs : req[r].undo # [how |-> "status", app |-> s] => \A q \in Requests : ~Undergoing(q, s)
    BY <1>4, <1>5 DEF Undergoing, ApplyPcs
  <2> QED
    BY <2>1 DEF RouteInv, Settled
<1>7. CASE Lock(r) \/ Read(r) \/ Write(r)
  <2>1. req'[r].pc \in {"read", "write", "reload"} /\ req'[r].undo = req[r].undo
    <3>1. \A pc : Step(r, pc).pc = pc /\ Step(r, pc).undo = req[r].undo
      BY <1>1 DEF Step, Applies
    <3>2. ~conduct.faults
      BY DEF Calm
    <3>3. CASE Read(r)
      BY <1>1, <1>3, <3>3 DEF Read, Applies
    <3>4. CASE Lock(r) \/ Write(r)
      BY <1>3, <3>1, <3>2, <3>4 DEF Lock, Write
    <3> QED
      BY <1>7, <3>3, <3>4
  <2>2. req'[r].pc \in {"write", "reload"} => unapplied' = {}
    <3>1. CASE Lock(r)
      BY <1>1, <1>3, <3>1 DEF Lock, Step, Applies
    <3>2. CASE Read(r)
      BY <3>2 DEF Read
    <3>3. CASE Write(r)
      BY <3>3 DEF Write, At, RouteInv, Rolled, rollouts
    <3> QED
      BY <1>7, <3>1, <3>2, <3>3
  <2>3. Rolled(r)'
    BY <1>4, <2>1, <2>2 DEF RouteInv, Rolled, ApplyPcs
  <2>4. \A s \in Slugs : ~Undergoing(r, s)' => req[r].undo # [how |-> "status", app |-> s]
    BY <2>1 DEF Undergoing, ApplyPcs
  <2>5. req'[r].pc \in ApplyPcs
    BY <2>1 DEF ApplyPcs
  <2> QED
    BY <1>2, <1>4, <1>6, <2>3, <2>4, <2>5, RouteStep
<1>8. CASE Reload(r)
  <2>1. req[r].pc = "reload" /\ file' = file /\ unapplied = {} /\ boot = "up"
    BY <1>8 DEF Reload, At, RouteInv, Rolled
  <2>2. file = Config
    <3>1. ~Pending
      BY <1>5, <2>1 DEF Pending
    <3>2. file \in Allowed
      BY <2>1, <3>1 DEF FreshInv
    <3>3. (Running \ unapplied) \cup {} = Running
      BY <2>1
    <3> QED
      BY <2>1, <3>2, <3>3 DEF Allowed, Config
  <2>3. req'[r] = Succeeded(r)
    <3>1. ~conduct.faults /\ ctr.state = "running"
      BY <1>2, <2>1, Moved, OthersIdle DEF Calm, QuietInv, Active
    <3> QED
      BY <1>3, <1>8, <3>1 DEF Reload
  <2>4. CASE req[r].undo.how = "status"
    <3>1. PICK a \in Slugs : req[r].undo = [how |-> "status", app |-> a]
      BY <1>1, <2>4 DEF Undos
    <3>2. req'[r].pc = "finish" /\ req'[r].app = a
      BY <2>3, <2>4, <3>1 DEF Succeeded, Rollout
    <3>3. apps[a] = "running"
      BY <1>4, <2>4, <3>1 DEF RouteInv, Rolled
    <3>4. Rolled(r)'
      BY <1>4, <3>2, <3>3 DEF Rolled, ApplyPcs
    <3>5. \A s \in Slugs : ~Undergoing(r, s)' => req[r].undo # [how |-> "status", app |-> s]
      BY <3>1, <3>2 DEF Undergoing
    <3>6. Finishing' = {a}
      BY <1>2, <3>2, FinishingOne
    <3>7. kept \cup {a} \subseteq Running
      <4>1. \A s \in Slugs : s # a => req[r].undo # [how |-> "status", app |-> s]
        BY <3>1
      <4> QED
        BY <1>6, <3>3, <4>1 DEF Running, TypeOK
    <3>8. ConfigOf(kept \cup Finishing)' \subseteq file'
      BY <1>4, <2>1, <2>2, <3>6, <3>7, RoutesLeft DEF Config
    <3> QED
      BY <1>2, <1>4, <1>6, <3>4, <3>5, <3>8, RouteStep
  <2>5. CASE req[r].undo.how # "status"
    <3>1. req'[r].pc = "done"
      BY <2>3, <2>5 DEF Succeeded, Done
    <3>2. Rolled(r)'
      BY <3>1 DEF Rolled, ApplyPcs
    <3>3. \A s \in Slugs : req[r].undo # [how |-> "status", app |-> s]
      BY <2>5
    <3>4. Finishing' = {}
      BY <1>2, <3>1, FinishingOne
    <3>5. kept \subseteq Running
      BY <1>6, <3>3 DEF Running, TypeOK
    <3>6. ConfigOf(kept \cup Finishing)' \subseteq file'
      BY <1>4, <2>1, <2>2, <3>4, <3>5, RoutesLeft DEF Config
    <3> QED
      BY <1>2, <1>4, <1>6, <3>2, <3>3, <3>6, RouteStep
  <2> QED
    BY <2>4, <2>5
<1>9. ~Undo(r)
  BY DEF RouteInv, Rolled, Undo, At
<1> QED
  BY <1>7, <1>8, <1>9 DEF ApplyRoutes

\* The boot, after which the file is the store's.
LEMMA RouteSystem ==
    ASSUME TypeOK, QuietInv, RouteInv, FreshInv, Calm,
           Ensure \/ Die \/ CaddyRestarts \/ CaddyStops \/ Tick \/ Ask \/ CallerLeaves \/ Answer
    PROVE  RouteInv'
<1>1. ~Die
  BY DEF Die, Calm
<1>2. req' = req /\ domains' = domains
  BY <1>1, SystemQuiet
<1>3. stuck = {} /\ Settled /\ Routed /\ \A r \in Requests : Rolled(r)
  BY DEF RouteInv
<1>4. apps' = apps /\ kept' = kept /\ stuck' = stuck
  <2>1. CASE Sweep
    <3>1. PICK swept \in SUBSET stuck, up \in SUBSET stuck :
             apps' = [s \in Slugs |-> IF s \in up THEN "running" ELSE IF s \in swept THEN "error" ELSE apps[s]]
      BY <2>1 DEF Sweep
    <3>2. apps' = [s \in Slugs |-> apps[s]]
      BY <1>3, <3>1
    <3>3. apps' = apps
      BY <3>2 DEF TypeOK
    <3> QED
      BY <1>3, <2>1, <3>3 DEF Sweep, Calm
  <2>2. CASE Ensure /\ ~Sweep
    BY <2>2 DEF Ensure, Start, Inspect, Pull, Stop, RemoveOld, Empty, Make, Launch, BootApply, BootReload, Fails,
       rest, rollouts
  <2>3. CASE CaddyRestarts \/ CaddyStops
    BY <2>3 DEF CaddyRestarts, CaddyStops, rest, rollouts
  <2>4. CASE Tick \/ Ask \/ CallerLeaves \/ Answer
    BY <2>4 DEF Tick, Ask, CallerLeaves, Answer, unwatched, rollouts
  <2> QED
    BY <1>1, <2>1, <2>2, <2>3, <2>4
<1>5. Settled'
  BY <1>2, <1>3, <1>4 DEF Settled, Undergoing
<1>6. CASE boot # "up"
  <2>1. \A r \in Requests : req[r].pc \in {"idle", "done"}
    BY <1>6 DEF QuietInv, Active
  <2>2. \A r \in Requests : Rolled(r)'
    BY <1>2, <2>1 DEF Rolled, ApplyPcs
  <2>3. Routed'
    <3>1. SUFFICES ASSUME boot' = "up" PROVE ConfigOf(kept \cup Finishing)' \subseteq file'
      BY DEF Routed
    <3>2. file = Config /\ file' = file
      BY <1>6, <3>1 DEF FreshInv, Ensure, Start, Inspect, Inspected, Pull, Stop, RemoveOld, Empty, Make, Launch, Sweep,
         BootApply, BootReload, Fails, Die, CaddyRestarts, CaddyStops, rest, served, Tick, Ask, CallerLeaves, Answer, unwatched
    <3>3. Finishing' = {}
      BY <1>2, <2>1 DEF Finishing
    <3>4. kept \subseteq Running
      <4>1. \A q \in Requests, s \in Slugs : ~Undergoing(q, s)
        BY <2>1 DEF Undergoing, ApplyPcs
      <4> QED
        BY <1>3, <4>1 DEF Settled, Running, TypeOK
    <3> QED
      BY <1>2, <1>4, <3>2, <3>3, <3>4, RoutesLeft DEF Config
  <2> QED
    BY <1>3, <1>4, <1>5, <2>2, <2>3 DEF RouteInv
<1>7. CASE boot = "up"
  <2>1. CaddyRestarts \/ CaddyStops \/ Tick \/ Ask \/ CallerLeaves \/ Answer
    BY <1>1, <1>7 DEF Ensure, Start, Inspect, Pull, Stop, RemoveOld, Empty, Make, Launch, Sweep, BootApply, BootReload, Fails
  <2>2. boot' = boot /\ file' = file /\ unapplied' = unapplied
    BY <2>1 DEF CaddyRestarts, CaddyStops, rest, rollouts, Tick, Ask, CallerLeaves, Answer, unwatched, served
  <2>3. \A r \in Requests : Rolled(r)'
    BY <1>2, <1>3, <1>4, <2>2 DEF Rolled
  <2>4. Routed'
    <3>1. Finishing' = Finishing
      BY <1>2 DEF Finishing
    <3>2. SUFFICES ASSUME boot' = "up", \A r \in Requests : req'[r].pc \notin ApplyPcs
                   PROVE  ConfigOf(kept \cup Finishing)' \subseteq file'
      BY DEF Routed, ApplyPcs
    <3> QED
      BY <1>2, <1>3, <1>4, <1>7, <2>2, <3>1, <3>2, RoutesLeft DEF Routed
  <2> QED
    BY <1>3, <1>4, <1>5, <2>3, <2>4 DEF RouteInv
<1> QED
  BY <1>6, <1>7

LEMMA RouteSteps == ASSUME TypeOK, QuietInv, ServedInv, RouteInv, [Next]_vars PROVE RouteInv'
<1> SUFFICES ASSUME Calm' PROVE RouteInv'
  BY DEF RouteInv
<1>1. CASE UNCHANGED vars
  <2>1. UNCHANGED <<apps, kept, stuck, unapplied, domains, req, file, boot, conduct>>
    BY <1>1 DEF vars, rollouts
  <2>2. Settled' <=> Settled
    BY <2>1 DEF Settled, Undergoing
  <2>3. Routed' <=> Routed
    BY <2>1 DEF Routed, ConfigOf, Rows, Finishing
  <2>4. \A r \in Requests : Rolled(r)' <=> Rolled(r)
    BY <2>1 DEF Rolled
  <2> QED
    BY <2>1, <2>2, <2>3, <2>4 DEF RouteInv, Calm
<1>2. ASSUME NEW r \in Requests, Moves(r) PROVE RouteInv'
  <2>1. Calm
    BY <1>2, RequestsKeep DEF Calm
  <2>2. HoldInv /\ FreshInv
    BY <2>1 DEF ServedInv, Orderly, Calm
  <2>3. ~StoreFails(r)
    BY <2>1 DEF StoreFails, Calm
  <2> QED
    BY <1>2, <2>1, <2>2, <2>3, RouteEarly, RouteRollout, RouteApply DEF Moves
<1>3. CASE Ensure \/ Die \/ CaddyRestarts \/ CaddyStops \/ Tick \/ Ask \/ CallerLeaves \/ Answer
  <2>1. Calm
    BY <1>3, SystemQuiet DEF Calm
  <2>2. FreshInv
    BY <2>1 DEF ServedInv, Orderly, Calm
  <2> QED
    BY <1>3, <2>1, <2>2, RouteSystem
<1> QED
  BY <1>1, <1>2, <1>3 DEF Next, Moves

\* With no request under way and the last apply a success, the file and Caddy
\* have what the store says (ApplyRoutes, Manager.Apply).
THEOREM StoredIsServed == Spec => []ServedIsStored
<1>1. Init => ServedInv
  <2> SUFFICES ASSUME Init PROVE HoldInv /\ FreshInv
    BY DEF ServedInv
  <2>1. \A r \in Requests : req[r].pc = "idle"
    BY DEF Init, Idle
  <2> QED
    BY <2>1 DEF Init, HoldInv, FreshInv, Holds
<1>2. TypeOK /\ QuietInv /\ ServedInv /\ [Next]_vars => ServedInv'
  <2> SUFFICES ASSUME TypeOK, QuietInv, ServedInv, [Next]_vars, Orderly' PROVE HoldInv' /\ FreshInv'
    BY DEF ServedInv
  <2>1. CASE UNCHANGED vars
    <3>1. UNCHANGED <<apps, unapplied, domains, req, lock, file, ctr, live, boot, synced, conduct>>
      BY <2>1 DEF vars, rollouts
    <3>2. Config' = Config /\ Allowed' = Allowed
      BY <3>1, ConfigSame, AllowedSame DEF Running
    <3>3. HoldInv /\ FreshInv
      BY <3>1 DEF ServedInv, Orderly
    <3> QED
      BY <3>1, <3>2, <3>3 DEF HoldInv, Holds, FreshInv, Pending
  <2>2. ASSUME NEW r \in Requests, Moves(r) PROVE HoldInv' /\ FreshInv'
    <3>1. Orderly /\ HoldInv /\ FreshInv
      BY <2>2, RequestsKeep DEF ServedInv, Orderly
    <3> QED
      BY <2>2, <3>1, EarlyServed, RolloutServed, ApplyServed, FailureServed DEF Moves
  <2>3. CASE Ensure \/ Die \/ CaddyRestarts \/ CaddyStops \/ Tick \/ Ask \/ CallerLeaves \/ Answer
    <3>1. HoldInv /\ FreshInv
      BY <2>3, SystemQuiet DEF ServedInv, Orderly
    <3> QED
      BY <2>3, <3>1, SystemServed
  <2> QED
    BY <2>1, <2>2, <2>3 DEF Next, Moves
<1>3. ServedInv /\ RouteInv => ServedIsStored
  <2> SUFFICES ASSUME ServedInv, RouteInv, Orderly, boot = "up", synced, \A r \in Requests : ~Active(r)
               PROVE  /\ \E left \in SUBSET unapplied : file = ConfigOf((Running \ unapplied) \cup left)
                      /\ ~conduct.overlap /\ ~conduct.faults => Config \subseteq file
                      /\ ctr.state = "running" => live = file
    BY DEF ServedIsStored, Orderly
  <2>1. lock = {} /\ ~Pending
    BY DEF ServedInv, HoldInv, Holds, Pending, Active
  <2>2. file \in Allowed /\ (ctr.state = "running" => live = file)
    BY <2>1 DEF ServedInv, FreshInv
  <2>3. ASSUME Calm PROVE Config \subseteq file
    <3>1. \A r \in Requests : req[r].pc \in {"idle", "done"}
      BY DEF Active
    <3>2. ConfigOf(kept \cup Finishing) \subseteq file
      BY <2>3, <3>1 DEF RouteInv, Routed, ApplyPcs
    <3>3. \A s \in Slugs : s \in kept <=> apps[s] = "running"
      BY <2>3, <3>1 DEF RouteInv, Settled, Undergoing, ApplyPcs
    <3>4. Running \subseteq kept \cup Finishing
      BY <3>3 DEF Running
    <3> QED
      BY <3>2, <3>4, ConfigGrows DEF Config
  <2> QED
    BY <2>2, <2>3 DEF Allowed, Calm
<1>4. Init => QuietInv
  BY QuietStart
<1>5. TypeOK /\ QuietInv /\ [Next]_vars => QuietInv'
  BY QuietSteps
<1>6. Init => RouteInv
  <2> SUFFICES ASSUME Init PROVE RouteInv
    OBVIOUS
  <2>1. \A r \in Requests : req[r].pc = "idle"
    BY DEF Init, Idle
  <2>2. Settled
    BY DEF Init, Settled, Running
  <2> QED
    BY <2>1, <2>2 DEF Init, RouteInv, Routed, Rolled, ApplyPcs
<1>7. TypeOK /\ QuietInv /\ ServedInv /\ RouteInv /\ [Next]_vars => RouteInv'
  BY RouteSteps
<1> QED
  BY <1>1, <1>2, <1>3, <1>4, <1>5, <1>6, <1>7, IngressTyping, PTL DEF Spec
=============================================================================
