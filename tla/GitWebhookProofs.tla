-------------------------- MODULE GitWebhookProofs --------------------------
(***************************************************************************)
(* Theorems about the webhook deploys of module GitWebhook, for every set  *)
(* of deliveries, apps and branches.                                       *)
(***************************************************************************)
EXTENDS GitWebhook, TLAPS

\* Type correctness and the ownership of the slots are inductive together.
SlotInv == TypeOK /\ OneDeployPerApp

LEMMA InitSlot == Init => SlotInv
<1> SUFFICES ASSUME Init PROVE SlotInv
  OBVIOUS
<1>1. 0 \in Commits
  BY GitWebhookAssumption DEF GitWebhookAssumption, Commits
<1>2. TypeOK
  BY <1>1 DEF Init, TypeOK, Places
<1>3. OneDeployPerApp
  BY DEF Init, OneDeployPerApp, Deploying
<1> QED
  BY <1>2, <1>3 DEF SlotInv

\* A goroutine that moves keeps the types, and changes the holders of slots
\* by itself at most.
LEMMA MoveDeploying ==
    ASSUME TypeOK, NEW d \in Deliveries, NEW from \in Places, NEW to \in Places, Goto(d, from, to)
    PROVE  /\ at' \in [Deliveries -> Places]
           /\ Deploying' = IF to \in {"trigger", "clone", "build", "finish"}
                           THEN Deploying \cup {d} ELSE Deploying \ {d}
           /\ d \in Deploying <=> from \in {"trigger", "clone", "build", "finish"}
BY DEF TypeOK, Goto, Deploying

\* The head of a branch is a commit a deploy can have tried.
LEMMA TriesTyped ==
    ASSUME TypeOK, NEW d \in Deliveries, gs[d] \in Branches \/ gs[d] = None, Tries(d)
    PROVE  tried' \in [Apps -> [Branches -> Commits]]
<1>1. App(d) \in Apps
  BY DEF TypeOK, Push, App
<1>2. CASE gs[d] \in Branches
  BY <1>1, <1>2 DEF TypeOK, Tries
<1>3. CASE gs[d] \notin Branches
  BY <1>1, <1>3 DEF TypeOK, Tries
<1> QED
  BY <1>2, <1>3

\* Steps of the forge and the operator move no goroutine and no slot.
LEMMA WorldStep ==
    ASSUME changes' = changes, SlotInv, NEW a \in Apps, NEW r \in Branches, Commit(a, r) \/ Reconnect(a)
    PROVE  SlotInv'
<1>1. TypeOK'
  <2>1. CASE Commit(a, r)
    <3>1. head[a][r] + 1 \in Commits
      BY <2>1, GitWebhookAssumption DEF SlotInv, TypeOK, Commit, Commits, GitWebhookAssumption
    <3> QED
      BY <2>1, <3>1 DEF SlotInv, TypeOK, Commit
  <2>2. CASE Reconnect(a)
    BY <2>2 DEF SlotInv, TypeOK, Reconnect
  <2> QED
    BY <2>1, <2>2
<1>2. OneDeployPerApp'
  BY DEF SlotInv, OneDeployPerApp, Deploying, App, Commit, Reconnect
<1> QED
  BY <1>1, <1>2 DEF SlotInv

\* A delivery on its way keeps its app.
LEMMA SendStep ==
    ASSUME changes' = changes, SlotInv, NEW d \in Deliveries, Send(d)
    PROVE  SlotInv' /\ \A e \in Deliveries : App(e)' = App(e) /\ push'[e].ref = push[e].ref
<1> PICK c \in 1 .. head[App(d)][push[d].ref] : push' = [push EXCEPT ![d].sha = c]
  BY DEF Send
<1>1. head[App(d)][push[d].ref] \in Commits
  BY DEF SlotInv, TypeOK, App, Push
<1>2. c \in Commits
  BY <1>1, GitWebhookAssumption DEF Commits, GitWebhookAssumption
<1>3. push' \in [Deliveries -> Push]
  BY <1>2 DEF SlotInv, TypeOK, Push
<1>4. \A e \in Deliveries : App(e)' = App(e) /\ push'[e].ref = push[e].ref
  BY DEF SlotInv, TypeOK, Push, App
<1>5. TypeOK' /\ Deploying' = Deploying
  BY <1>3, MoveDeploying DEF SlotInv, TypeOK, Send, Places, Goto, Deploying
<1>6. OneDeployPerApp'
  BY <1>4, <1>5 DEF SlotInv, OneDeployPerApp, Send, Deploying
<1> QED
  BY <1>4, <1>5, <1>6 DEF SlotInv

\* A move that neither takes nor gives back a slot.
LEMMA KeepsSlots ==
    ASSUME SlotInv, NEW d \in Deliveries, NEW from \in Places, NEW to \in Places,
           Goto(d, from, to), running' = running, push' = push,
           from \in {"trigger", "clone", "build", "finish"}
             <=> to \in {"trigger", "clone", "build", "finish"}
    PROVE  OneDeployPerApp' /\ Deploying' = Deploying
<1>1. Deploying' = Deploying
  BY MoveDeploying DEF SlotInv
<1>2. \A e \in Deliveries : App(e)' = App(e)
  BY DEF App
<1>3. \A a \in Apps : running'[a] <=> \E e \in Deploying' : App(e)' = a
  BY <1>1, <1>2, Zenon DEF SlotInv, OneDeployPerApp, Deploying
<1>4. \A e, f \in Deploying : e # f => App(e)' # App(f)'
  BY <1>2 DEF SlotInv, OneDeployPerApp, Deploying
<1> QED
  BY <1>1, <1>3, <1>4 DEF OneDeployPerApp

LEMMA HandleStep ==
    ASSUME changes' = changes, SlotInv, NEW d \in Deliveries, Handle(d)
    PROVE  SlotInv'
<1> USE DEF SlotInv
<1>1. CASE Receive(d)
  <2>1. TypeOK'
    BY <1>1, MoveDeploying DEF Receive, world, TypeOK, Push, Places
  <2>2. OneDeployPerApp'
    BY <1>1, KeepsSlots DEF Receive, world, Places
  <2> QED
    BY <2>1, <2>2
<1>2. CASE Claim(d) /\ running[App(d)]
  <2>1. TypeOK'
    BY <1>2, MoveDeploying DEF Claim, world, TypeOK, Places
  <2>2. OneDeployPerApp'
    BY <1>2, KeepsSlots DEF Claim, world, Places
  <2> QED
    BY <2>1, <2>2
<1>3. CASE Claim(d) /\ ~running[App(d)]
  <2>1. TypeOK'
    BY <1>3, MoveDeploying DEF Claim, world, TypeOK, Places
  <2>2. Deploying' = Deploying \cup {d} /\ running' = [running EXCEPT ![App(d)] = TRUE]
    BY <1>3, MoveDeploying DEF Claim, Places
  <2>3. App(d) \in Apps /\ \A e \in Deliveries : App(e)' = App(e)
    BY <1>3 DEF Claim, world, App, TypeOK, Push
  <2>4. \A e \in Deploying : App(e) # App(d)
    BY <1>3, <2>3 DEF OneDeployPerApp
  <2>5. OneDeployPerApp'
    BY <2>2, <2>3, <2>4 DEF OneDeployPerApp, TypeOK, Deploying
  <2> QED
    BY <2>1, <2>5
<1>4. CASE Queue(d)
  <2>1. TypeOK'
    BY <1>4, MoveDeploying DEF Queue, world, TypeOK, Places
  <2>2. OneDeployPerApp'
    BY <1>4, KeepsSlots DEF Queue, world, Places
  <2> QED
    BY <2>1, <2>2
<1> QED
  BY <1>1, <1>2, <1>3, <1>4 DEF Handle

LEMMA DeployStep ==
    ASSUME changes' = changes, SlotInv, NEW d \in Deliveries, Deploy(d)
    PROVE  SlotInv'
<1> USE DEF SlotInv
<1>1. gs[d] \in Branches \/ gs[d] = None
  BY DEF TypeOK
<1>2. CASE Trigger(d)
  <2>1. tried' \in [Apps -> [Branches -> Commits]]
    BY <1>1, <1>2, TriesTyped DEF Trigger, TypeOK
  <2>2. TypeOK'
    BY <1>2, <2>1, MoveDeploying DEF Trigger, world, TypeOK, Places
  <2>3. OneDeployPerApp'
    BY <1>2, KeepsSlots DEF Trigger, world, Places
  <2> QED
    BY <2>2, <2>3
<1>3. CASE Clone(d)
  <2>1. tried' \in [Apps -> [Branches -> Commits]]
    BY <1>1, <1>3, TriesTyped DEF Clone, TypeOK
  <2>2. TypeOK'
    BY <1>3, <2>1, MoveDeploying DEF Clone, world, TypeOK, Places
  <2>3. OneDeployPerApp'
    BY <1>3, KeepsSlots DEF Clone, world, Places
  <2> QED
    BY <2>2, <2>3
<1>4. CASE Build(d)
  <2>1. TypeOK'
    BY <1>4, MoveDeploying DEF Build, world, TypeOK, Places
  <2>2. OneDeployPerApp'
    BY <1>4, KeepsSlots DEF Build, world, Places
  <2> QED
    BY <2>1, <2>2
<1>5. CASE Finish(d) /\ pending[App(d)] # None
  <2>1. TypeOK'
    BY <1>5, MoveDeploying DEF Finish, world, TypeOK, Places, App, Push
  <2>2. OneDeployPerApp'
    BY <1>5, KeepsSlots DEF Finish, world, Places
  <2> QED
    BY <2>1, <2>2
<1>6. CASE Finish(d) /\ pending[App(d)] = None
  <2>1. TypeOK'
    BY <1>6, MoveDeploying DEF Finish, world, TypeOK, Places
  <2>2. /\ Deploying' = Deploying \ {d} /\ d \in Deploying
        /\ running' = [running EXCEPT ![App(d)] = FALSE]
    BY <1>6, MoveDeploying DEF Finish, Places
  <2>3. App(d) \in Apps /\ \A e \in Deliveries : App(e)' = App(e)
    BY <1>6 DEF Finish, world, App, TypeOK, Push
  <2>4. \A e \in Deploying \ {d} : App(e) # App(d)
    BY <2>2 DEF OneDeployPerApp
  <2>5. OneDeployPerApp'
    BY <2>2, <2>3, <2>4 DEF OneDeployPerApp, TypeOK, Deploying
  <2> QED
    BY <2>1, <2>5
<1> QED
  BY <1>2, <1>3, <1>4, <1>5, <1>6 DEF Deploy

LEMMA CrashStep ==
    ASSUME changes' = changes, SlotInv, Crash
    PROVE  SlotInv'
<1>1. TypeOK'
  BY DEF SlotInv, TypeOK, Crash, world, Places
<1>2. Deploying' = {}
  BY DEF Crash, Deploying
<1>3. OneDeployPerApp'
  BY <1>2 DEF OneDeployPerApp, Crash
<1> QED
  BY <1>1, <1>3 DEF SlotInv

LEMMA SlotStep == SlotInv /\ [Next]_vars => SlotInv'
<1> SUFFICES ASSUME SlotInv, [Next]_vars PROVE SlotInv'
  OBVIOUS
<1>1. ASSUME UNCHANGED vars PROVE SlotInv'
  BY <1>1 DEF vars, SlotInv, TypeOK, OneDeployPerApp, Deploying, App
<1>0. changes' = changes
  BY DEF Next, vars
<1>2. ASSUME NEW a \in Apps, Reconnect(a) PROVE SlotInv'
  <2>1. Branches # {}
    BY <1>2 DEF SlotInv, TypeOK, Reconnect, OneDeployPerApp
  <2> QED
    BY <1>0, <1>2, <2>1, WorldStep
<1> QED
  BY <1>0, <1>1, <1>2, WorldStep, SendStep, HandleStep, DeployStep, CrashStep DEF Next

LEMMA SlotInvariant == Spec => []SlotInv
BY InitSlot, SlotStep, PTL DEF Spec

\* Every variable of the coalescer keeps its type.
THEOREM WebhookTyping == Spec => []TypeOK
BY SlotInvariant, PTL DEF SlotInv

\* The slot of an app is taken exactly while one delivery deploys it, whatever
\* pushes arrive, calls fail, sources change and processes die.
THEOREM SlotsExclusive == Spec => []OneDeployPerApp
BY SlotInvariant, PTL DEF SlotInv

----------------------------------------------------------------------------
(* No push is forgotten, while the git sources and the process stay *)

Covered(d) ==
    \/ push[d].sha <= tried[App(d)][push[d].ref]
    \/ pending[App(d)] # None
    \/ \E e \in Deliveries : App(e) = App(d) /\ at[e] \in {"trigger", "clone"}

\* The strengthening: a commit was pushed before it is announced or tried, and
\* a delivery that passed the branch filter is of the connected branch, as is
\* the copy of the git source its deploys use.
CoverInv ==
    /\ \A a \in Apps, r \in Branches : tried[a][r] <= head[a][r]
    /\ \A d \in Deliveries : push[d].sha <= head[App(d)][push[d].ref]
    /\ \A d \in Deliveries : at[d] \notin {"new", "sent", "ignored"} =>
          push[d].ref = source[App(d)] /\ gs[d] = source[App(d)] /\ asked[d] \in Branches
    /\ \A d \in Accepted : Covered(d)

LEMMA InitCover == Init => CoverInv
<1> SUFFICES ASSUME Init PROVE CoverInv
  OBVIOUS
<1>1. Accepted = {}
  BY DEF Init, Accepted, Deploying
<1>2. \A d \in Deliveries : push[d] \in Push /\ push[d].sha = 0
  BY DEF Init
<1> QED
  BY <1>1, <1>2 DEF Init, CoverInv, Push, App

\* What a step that moves one delivery has to show.
LEMMA MoveCover ==
    ASSUME SlotInv, CoverInv, NEW d \in Deliveries, NEW from \in Places, NEW to \in Places,
           Goto(d, from, to), UNCHANGED world, tried' = tried,
           from \notin {"new", "sent", "ignored"}, gs' = gs,
           \A e \in Deliveries : asked[e] \in Branches => asked'[e] \in Branches,
           \A e \in Accepted : Covered(e)',
           to \in {"trigger", "clone", "build", "finish", "coalesced", "over"}
             => d \in Accepted \/ Covered(d)'
    PROVE  CoverInv'
<1>1. \A e \in Deliveries : App(e)' = App(e)
  BY DEF world, App
<1>2. Accepted' \subseteq Accepted \cup {d}
  BY DEF Goto, SlotInv, TypeOK, Accepted, Deploying
<1>3. d \in Accepted' => d \in Accepted \/ Covered(d)'
  BY DEF Goto, SlotInv, TypeOK, Accepted, Deploying
<1>4. \A e \in Accepted' : Covered(e)'
  BY <1>2, <1>3, Zenon
<1>5. \A e \in Deliveries : at'[e] \notin {"new", "sent", "ignored"} =>
          /\ push'[e].ref = source'[App(e)'] /\ gs'[e] = source'[App(e)']
          /\ asked'[e] \in Branches
  <2> SUFFICES ASSUME NEW e \in Deliveries, at'[e] \notin {"new", "sent", "ignored"}
               PROVE  /\ push[e].ref = source[App(e)] /\ gs[e] = source[App(e)]
                      /\ asked'[e] \in Branches
    BY <1>1 DEF world
  <2> QED
    BY DEF Goto, SlotInv, TypeOK, CoverInv
<1> QED
  BY <1>1, <1>4, <1>5 DEF CoverInv, world

\* Nothing that covered a push is taken away by a step that tries nothing,
\* dequeues nothing and moves no delivery out of "trigger" and "clone".
LEMMA StillCovered ==
    ASSUME UNCHANGED <<push, tried>>, NEW d \in Deliveries, Covered(d),
           pending[App(d)] # None => pending'[App(d)] # None,
           \A e \in Deliveries : at[e] \in {"trigger", "clone"} => at'[e] \in {"trigger", "clone"}
    PROVE  Covered(d)'
<1>1. \A e \in Deliveries : App(e)' = App(e)
  BY DEF App
<1> QED
  BY <1>1 DEF Covered

\* A deploy that tries its branch covers every accepted push of its app.
LEMMA TryCovers ==
    ASSUME SlotInv, CoverInv, NEW d \in Deploying, Tries(d), UNCHANGED <<world, pending>>,
           NEW to \in Places, at' = [at EXCEPT ![d] = to], gs[d] \in Branches
    PROVE  /\ \A a \in Apps, r \in Branches : tried'[a][r] <= head'[a][r]
           /\ \A e \in Accepted : Covered(e)'
<1>1. /\ App(d) \in Apps /\ tried \in [Apps -> [Branches -> Commits]]
      /\ \A e \in Deliveries : App(e)' = App(e) /\ push[e] \in Push
      /\ head \in [Apps -> [Branches -> Commits]]
  BY DEF SlotInv, TypeOK, world, App, Push, Deploying
<1>2. \A a \in Apps, r \in Branches : tried'[a][r] =
        IF a = App(d) /\ r = gs[d] THEN head[a][r] ELSE tried[a][r]
  BY <1>1 DEF Tries
<1>3. \A c \in Commits : c \in Int
  BY GitWebhookAssumption DEF Commits
<1>4. \A a \in Apps, r \in Branches : tried'[a][r] <= head'[a][r]
  BY <1>1, <1>2, <1>3 DEF CoverInv, world
<1>5. ASSUME NEW e \in Accepted, App(e) = App(d) PROVE Covered(e)'
  <2>1. push[e].ref = gs[d] /\ push[e].sha <= head[App(d)][gs[d]] /\ e \in Deliveries
    BY <1>5 DEF CoverInv, Accepted, Deploying
  <2> QED
    BY <1>1, <1>2, <1>5, <2>1 DEF Covered, world
<1>6. ASSUME NEW e \in Accepted, App(e) # App(d) PROVE Covered(e)'
  <2>1. e \in Deliveries /\ Covered(e) /\ App(e) \in Apps /\ push[e].ref \in Branches
    BY <1>6 DEF CoverInv, Accepted, Deploying, SlotInv, TypeOK, App, Push
  <2>2. CASE \E f \in Deliveries : App(f) = App(e) /\ at[f] \in {"trigger", "clone"}
    <3> PICK f \in Deliveries : App(f) = App(e) /\ at[f] \in {"trigger", "clone"}
      BY <2>2
    <3>1. f # d /\ at'[f] = at[f]
      BY <1>6 DEF SlotInv, TypeOK
    <3> QED
      BY <1>1, <2>1, <3>1 DEF Covered
  <2>3. CASE push[e].sha <= tried[App(e)][push[e].ref] \/ pending[App(e)] # None
    BY <1>1, <1>2, <1>6, <2>1, <2>3 DEF Covered, world
  <2> QED
    BY <2>1, <2>2, <2>3 DEF Covered
<1> QED
  BY <1>4, <1>5, <1>6

LEMMA HandleCovers ==
    ASSUME changes' = changes, SlotInv, CoverInv, NEW d \in Deliveries, Handle(d)
    PROVE  CoverInv'
<1> USE DEF SlotInv
<1>1. CASE Receive(d)
  <2>1. Accepted' = Accepted /\ \A e \in Deliveries : App(e)' = App(e)
    BY <1>1 DEF Receive, Goto, TypeOK, Accepted, Deploying, world, App
  <2>2. \A e \in Accepted : Covered(e)'
    BY <1>1, StillCovered DEF Receive, Goto, TypeOK, Accepted, Deploying, CoverInv, world
  <2>3. \A e \in Deliveries : at'[e] \notin {"new", "sent", "ignored"} =>
          /\ push'[e].ref = source'[App(e)'] /\ gs'[e] = source'[App(e)']
          /\ asked'[e] \in Branches
    <3> SUFFICES ASSUME NEW e \in Deliveries, at'[e] \notin {"new", "sent", "ignored"}
                 PROVE  /\ push[e].ref = source[App(e)] /\ gs'[e] = source[App(e)]
                        /\ asked'[e] \in Branches
      BY <1>1, <2>1 DEF Receive, world
    <3>1. CASE e = d
      <4>1. /\ source[App(d)] = push[d].ref /\ push[d].ref \in Branches
            /\ gs'[d] = push[d].ref /\ asked'[d] = push[d].ref
        BY <1>1, <3>1 DEF Receive, Goto, TypeOK, Push
      <4> QED
        BY <3>1, <4>1
    <3>2. CASE e # d
      BY <1>1, <3>2 DEF Receive, Goto, TypeOK, CoverInv
    <3> QED
      BY <3>1, <3>2
  <2> QED
    BY <1>1, <2>1, <2>2, <2>3 DEF CoverInv, Receive, world
<1>2. CASE Claim(d)
  <2>1. \A e \in Accepted : Covered(e)'
    BY <1>2, StillCovered DEF Claim, Goto, TypeOK, Accepted, Deploying, CoverInv, world
  <2>2. ~running[App(d)] => Covered(d)'
    <3>1. ~running[App(d)] => at'[d] = "trigger" /\ App(d)' = App(d)
      BY <1>2 DEF Claim, Goto, TypeOK, world, App
    <3> QED
      BY <3>1 DEF Covered
  <2>3. CASE running[App(d)]
    BY <1>2, <2>1, <2>3, MoveCover DEF Claim, Places
  <2>4. CASE ~running[App(d)]
    BY <1>2, <2>1, <2>2, <2>4, MoveCover DEF Claim, Places
  <2> QED
    BY <2>3, <2>4
<1>3. CASE Queue(d)
  <2>1. App(d) \in Apps /\ App(d)' = App(d) /\ asked[d] \in Branches
    BY <1>3 DEF Queue, Goto, world, App, TypeOK, Push, CoverInv
  <2>2. pending' = [pending EXCEPT ![App(d)] = asked[d]] /\ asked[d] # None
    BY <1>3, <2>1, GitWebhookAssumption DEF Queue, GitWebhookAssumption
  <2>3. Covered(d)'
    BY <2>1, <2>2 DEF Covered, TypeOK
  <2>4. \A e \in Accepted : Covered(e)'
    <3> SUFFICES ASSUME NEW e \in Accepted PROVE Covered(e)'
      OBVIOUS
    <3>1. e \in Deliveries /\ Covered(e)
      BY DEF Accepted, Deploying, CoverInv
    <3>2. pending[App(e)] # None => pending'[App(e)] # None
      BY <2>1, <2>2, <3>1 DEF TypeOK, App, Push
    <3> QED
      BY <1>3, <3>1, <3>2, StillCovered DEF Queue, Goto, TypeOK, world
  <2> QED
    BY <1>3, <2>3, <2>4, MoveCover DEF Queue, Places
<1> QED
  BY <1>1, <1>2, <1>3 DEF Handle

LEMMA DeployCovers ==
    ASSUME changes' = changes, SlotInv, CoverInv, NEW d \in Deliveries, Deploy(d)
    PROVE  CoverInv'
<1> USE DEF SlotInv
<1>1. /\ d \in Deploying /\ d \in Accepted /\ App(d)' = App(d) /\ App(d) \in Apps
      /\ gs[d] = source[App(d)] /\ gs[d] = push[d].ref /\ gs[d] \in Branches
  <2>1. at[d] \in {"trigger", "clone", "build", "finish"} /\ push' = push
    BY DEF Deploy, Trigger, Clone, Build, Finish, Goto, world
  <2>2. push[d].app \in Apps /\ push[d].ref \in Branches
    BY DEF TypeOK, Push
  <2>3. push[d].ref = source[App(d)] /\ gs[d] = source[App(d)]
    BY <2>1 DEF CoverInv
  <2> QED
    BY <2>1, <2>2, <2>3 DEF Deploying, Accepted, App
<1>2. CASE tried' = tried /\ ((Trigger(d) /\ Goto(d, "trigger", "clone")) \/ Build(d))
  <2>1. \A e \in Accepted : Covered(e)'
    BY <1>2, StillCovered DEF Trigger, Build, Goto, TypeOK, Accepted, Deploying, CoverInv, world
  <2> QED
    BY <1>1, <1>2, <2>1, MoveCover DEF Trigger, Build, Places
<1>3. CASE Tries(d) /\ (Trigger(d) \/ Clone(d))
  <2> PICK from \in {"trigger", "clone"}, to \in {"clone", "build", "finish"} : Goto(d, from, to)
    BY <1>3 DEF Trigger, Clone
  <2>1. at' = [at EXCEPT ![d] = to] /\ to \in Places /\ at[d] = from
    BY DEF Goto, Places
  <2>2. /\ \A a \in Apps, r \in Branches : tried'[a][r] <= head'[a][r]
        /\ \A e \in Accepted : Covered(e)'
    BY <1>1, <1>3, <2>1, TryCovers DEF Trigger, Clone
  <2>3. Accepted' = Accepted /\ \A e \in Deliveries : App(e)' = App(e)
    BY <1>1, <1>3, <2>1 DEF TypeOK, Accepted, Deploying, App, Trigger, Clone, world
  <2>4. \A e \in Deliveries : at'[e] \notin {"new", "sent", "ignored"} =>
          /\ push'[e].ref = source'[App(e)'] /\ gs'[e] = source'[App(e)']
          /\ asked'[e] \in Branches
    BY <1>3, <2>1, <2>3 DEF TypeOK, CoverInv, world, Trigger, Clone
  <2> QED
    BY <1>3, <2>2, <2>3, <2>4 DEF CoverInv, world, Trigger, Clone
<1>4. CASE Finish(d) /\ pending[App(d)] # None
  <2>1. at'[d] = "trigger" /\ \A e \in Deliveries \ {d} : at'[e] = at[e]
    BY <1>4 DEF Finish, Goto, TypeOK
  <2>2. \A e \in Accepted : Covered(e)'
    <3> SUFFICES ASSUME NEW e \in Accepted PROVE Covered(e)'
      OBVIOUS
    <3>1. e \in Deliveries /\ Covered(e) /\ App(e)' = App(e) /\ App(e) \in Apps
      BY <1>4 DEF Accepted, Deploying, CoverInv, Finish, world, App, TypeOK, Push
    <3>2. CASE App(e) = App(d)
      BY <1>1, <2>1, <3>1, <3>2 DEF Covered
    <3>3. CASE App(e) # App(d)
      <4>1. pending'[App(e)] = pending[App(e)]
        BY <1>4, <3>1, <3>3 DEF Finish, TypeOK
      <4>2. \A f \in Deliveries : at[f] \in {"trigger", "clone"} => at'[f] \in {"trigger", "clone"}
        BY <2>1
      <4> QED
        BY <1>4, <3>1, <4>1, <4>2, StillCovered DEF Finish, world
    <3> QED
      BY <3>2, <3>3
  <2>3. \A e \in Deliveries : asked[e] \in Branches => asked'[e] \in Branches
    BY <1>1, <1>4 DEF Finish, TypeOK
  <2> QED
    BY <1>1, <1>4, <2>2, <2>3, MoveCover DEF Finish, Places
<1>5. CASE Finish(d) /\ pending[App(d)] = None
  <2>1. \A e \in Accepted : Covered(e)'
    BY <1>5, StillCovered DEF Finish, Goto, TypeOK, Accepted, Deploying, CoverInv, world
  <2> QED
    BY <1>1, <1>5, <2>1, MoveCover DEF Finish, Places
<1> QED
  BY <1>2, <1>3, <1>4, <1>5 DEF Deploy, Trigger, Clone, Build, Goto

LEMMA CoverStep ==
    ASSUME changes = {}, SlotInv, CoverInv, [Next]_vars
    PROVE  CoverInv'
<1> USE DEF SlotInv
<1>0. changes' = changes
  BY DEF Next, vars
<1>1. ASSUME NEW a \in Apps, NEW r \in Branches, Commit(a, r) PROVE CoverInv'
  <2>1. /\ Accepted' = Accepted /\ \A e \in Deliveries : App(e)' = App(e)
        /\ \A b \in Apps, t \in Branches : head[b][t] \in Int /\ head'[b][t] \in Int
                                           /\ head[b][t] <= head'[b][t]
    BY <1>1, GitWebhookAssumption DEF Commit, Accepted, Deploying, App, TypeOK, Commits, GitWebhookAssumption
  <2>2. \A e \in Accepted : Covered(e)'
    BY <1>1, StillCovered DEF Commit, Accepted, Deploying, CoverInv
  <2>3. \A b \in Apps, t \in Branches : tried'[b][t] <= head'[b][t]
    BY <1>1, <2>1 DEF Commit, CoverInv, TypeOK, Commits
  <2>4. \A e \in Deliveries : push'[e].sha <= head'[App(e)'][push'[e].ref]
    <3> SUFFICES ASSUME NEW e \in Deliveries PROVE push[e].sha <= head'[App(e)][push[e].ref]
      BY <1>1, <2>1 DEF Commit
    <3>1. push[e].sha \in Int /\ push[e].ref \in Branches /\ App(e) \in Apps
      BY DEF TypeOK, Push, App, Commits
    <3>2. push[e].sha <= head[App(e)][push[e].ref]
      BY DEF CoverInv
    <3> QED
      BY <2>1, <3>1, <3>2
  <2> QED
    BY <1>1, <2>1, <2>2, <2>3, <2>4 DEF CoverInv, Commit
<1>2. ASSUME NEW d \in Deliveries, Send(d) PROVE CoverInv'
  <2> PICK c \in 1 .. head[App(d)][push[d].ref] : push' = [push EXCEPT ![d].sha = c]
    BY <1>2 DEF Send
  <2>1. /\ \A e \in Deliveries : App(e)' = App(e) /\ push'[e].ref = push[e].ref
        /\ Accepted' = Accepted /\ d \notin Accepted
        /\ \A e \in Deliveries \ {d} : push'[e] = push[e] /\ at'[e] = at[e]
        /\ at'[d] = "sent" /\ at[d] = "new"
    BY <1>0, <1>2, SendStep DEF Send, Goto, TypeOK, Accepted, Deploying
  <2>2. \A e \in Deliveries : push'[e].sha <= head'[App(e)'][push'[e].ref]
    <3>1. push'[d].sha = c /\ c <= head[App(d)][push[d].ref]
      BY DEF TypeOK, Push
    <3> QED
      BY <1>2, <2>1, <3>1 DEF CoverInv, Send
  <2>3. \A e \in Accepted : Covered(e)'
    <3> SUFFICES ASSUME NEW e \in Accepted PROVE Covered(e)'
      OBVIOUS
    <3>1. e \in Deliveries \ {d} /\ Covered(e)
      BY <2>1 DEF Accepted, Deploying, CoverInv
    <3>2. \A f \in Deliveries : at[f] \in {"trigger", "clone"} => at'[f] = at[f]
      BY <2>1
    <3> QED
      BY <1>2, <2>1, <3>1, <3>2 DEF Covered, Send
  <2> QED
    BY <1>2, <2>1, <2>2, <2>3 DEF CoverInv, Send
<1>3. ASSUME UNCHANGED vars PROVE CoverInv'
  BY <1>3 DEF vars, CoverInv, Covered, Accepted, Deploying, App
<1> QED
  BY <1>0, <1>1, <1>2, <1>3, HandleCovers, DeployCovers DEF Next, Reconnect, Crash

\* While no operator changes a git source and the process lives, every push
\* answered as queued or coalesced is tried, is about to be, or is pending.
THEOREM PushesCovered == Spec => []NoPushForgotten
<1> DEFINE CalmCover == changes = {} => CoverInv
<1>1. SlotInv /\ CalmCover => NoPushForgotten
  BY DEF CoverInv, NoPushForgotten, Covered, Accepted, Deploying
<1>2. Init => CalmCover
  BY InitCover
<1>3. CalmCover /\ SlotInv /\ [Next]_vars => CalmCover'
  BY CoverStep DEF Next, vars
<1> QED
  BY <1>1, <1>2, <1>3, SlotInvariant, PTL DEF Spec
============================================================================
