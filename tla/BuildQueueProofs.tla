-------------------------- MODULE BuildQueueProofs --------------------------
(***************************************************************************)
(* Theorems about the build pipeline of module BuildQueue, for every set   *)
(* of builds and apps and every capacity: every token and every mutex is   *)
(* given back on every path, and the queue implements BuildAdmission.      *)
(***************************************************************************)
EXTENDS BuildQueue, FiniteSetTheorems, TLAPS

\* The inductive invariant. The type of sem needs the count of tokens (a
\* release subtracts one), and the count needs the types.
QueueInv == TypeOK /\ Accounted

----------------------------------------------------------------------------
\* The holders of a token are finitely many, and so counted by a number.
LEMMA HoldersFinite == IsFiniteSet(Holders) /\ Cardinality(Holders) \in Nat
<1>1. IsFiniteSet(Holders)
  BY BuildQueueAssumption, FS_Subset, Zenon DEF BuildQueueAssumption, Holders
<1> QED
  BY <1>1, FS_CardinalityType, Zenon

\* A goroutine that moves changes the holders by itself at most.
LEMMA MoveHolders ==
    ASSUME TypeOK, NEW b \in Builds, NEW from, NEW to \in Places, Goto(b, from, to)
    PROVE  /\ at' \in [Builds -> Places]
           /\ Holders' = IF to \in {"build", "release"} THEN Holders \cup {b} ELSE Holders \ {b}
           /\ InTurn' = IF to \in {"sem", "build", "release", "unlock"}
                        THEN InTurn \cup {b} ELSE InTurn \ {b}
BY DEF TypeOK, Goto, Holders, InTurn, Places

\* The initial state satisfies the invariant.
LEMMA InitQueue == Init => QueueInv
<1> SUFFICES ASSUME Init PROVE QueueInv
  OBVIOUS
<1>1. TypeOK
  BY DEF Init, TypeOK, Places
<1>2. Holders = {} /\ InTurn = {}
  BY DEF Init, Holders, InTurn
<1>3. Accounted
  BY <1>2, FS_EmptySet, BuildQueueAssumption DEF Init, Accounted, BuildQueueAssumption
<1> QED
  BY <1>1, <1>3 DEF QueueInv

\* A step that changes no token: the mover has none before and after, or one
\* before and after.
LEMMA SameTokens ==
    ASSUME QueueInv, NEW b \in Builds, NEW from \in Places, NEW to \in Places,
           Goto(b, from, to), sem' = sem,
           from \in {"build", "release"} <=> to \in {"build", "release"}
    PROVE  Holders' = Holders /\ sem' = Cardinality(Holders')
<1>1. b \in Holders <=> from \in {"build", "release"}
  BY DEF Goto, Holders
<1>2. Holders' = Holders
  BY <1>1, MoveHolders DEF QueueInv
<1> QED
  BY <1>2, Zenon DEF QueueInv, Accounted

\* A step that changes no mutex: the mover has its mutex before and after, or
\* neither before nor after.
LEMMA SameMutexes ==
    ASSUME QueueInv, NEW b \in Builds, NEW from \in Places, NEW to \in Places,
           Goto(b, from, to), perApp' = perApp,
           from \in {"sem", "build", "release", "unlock"}
             <=> to \in {"sem", "build", "release", "unlock"}
    PROVE  \A a \in Apps, c \in Builds : perApp'[a] = c <=> c \in InTurn' /\ AppOf[c] = a
<1>1. b \in InTurn <=> from \in {"sem", "build", "release", "unlock"}
  BY DEF Goto, InTurn
<1>2. InTurn' = InTurn
  BY <1>1, MoveHolders DEF QueueInv
<1> QED
  BY <1>2, Zenon DEF QueueInv, Accounted

----------------------------------------------------------------------------
\* Every step keeps the invariant.
LEMMA QueueStep == QueueInv /\ [Next]_vars => QueueInv'
<1> SUFFICES ASSUME QueueInv, [Next]_vars PROVE QueueInv'
  OBVIOUS
<1> USE DEF QueueInv
<1>1. ASSUME NEW b \in Builds, Prepare(b) PROVE QueueInv'
  <2> PICK to \in {"lock", "done"} : Goto(b, "idle", to)
    BY <1>1, Zenon DEF Prepare
  <2>1. at' \in [Builds -> Places] /\ sem' = sem /\ perApp' = perApp /\ expired' = expired
    BY <1>1, MoveHolders DEF Prepare, Places
  <2>2. spooled' \subseteq Builds
    BY <1>1 DEF Prepare, TypeOK
  <2>3. TypeOK'
    BY <2>1, <2>2 DEF TypeOK
  <2>4. sem' = Cardinality(Holders')
    BY <2>1, SameTokens DEF Places
  <2>5. \A a \in Apps, c \in Builds : perApp'[a] = c <=> c \in InTurn' /\ AppOf[c] = a
    BY <2>1, SameMutexes DEF Places
  <2> QED
    BY <2>3, <2>4, <2>5 DEF Accounted
<1>2. ASSUME NEW b \in Builds, Lock(b) PROVE QueueInv'
  <2>1. TypeOK'
    BY <1>2, BuildQueueAssumption, MoveHolders DEF Lock, TypeOK, Places, BuildQueueAssumption
  <2>2. sem' = Cardinality(Holders')
    BY <1>2, SameTokens DEF Lock, Places
  <2>3. InTurn' = InTurn \cup {b}
    BY <1>2, MoveHolders DEF Lock, Places
  <2>4. \A c \in InTurn : AppOf[c] # AppOf[b]
    BY <1>2, BuildQueueAssumption DEF Lock, Accounted, InTurn, BuildQueueAssumption
  <2>5. perApp' = [perApp EXCEPT ![AppOf[b]] = b] /\ AppOf[b] \in Apps
    BY <1>2, BuildQueueAssumption DEF Lock, BuildQueueAssumption
  <2>6. \A a \in Apps, c \in Builds : perApp'[a] = c <=> c \in InTurn' /\ AppOf[c] = a
    BY <2>3, <2>4, <2>5 DEF TypeOK, Accounted
  <2> QED
    BY <2>1, <2>2, <2>6 DEF Accounted
<1>3. ASSUME NEW b \in Builds, Acquire(b) PROVE QueueInv'
  <2>1. TypeOK'
    BY <1>3, MoveHolders DEF Acquire, TypeOK, Places
  <2>2. Holders' = Holders \cup {b} /\ b \notin Holders
    BY <1>3, MoveHolders DEF Acquire, Goto, Holders, Places
  <2>3. sem' = Cardinality(Holders')
    BY <1>3, <2>2, HoldersFinite, FS_AddElement DEF Acquire, Accounted
  <2>4. \A a \in Apps, c \in Builds : perApp'[a] = c <=> c \in InTurn' /\ AppOf[c] = a
    BY <1>3, SameMutexes DEF Acquire, Places
  <2> QED
    BY <2>1, <2>3, <2>4 DEF Accounted
<1>4. ASSUME NEW b \in Builds, GiveUp(b) \/ BuildImage(b) PROVE QueueInv'
  <2>1. TypeOK'
    BY <1>4, MoveHolders DEF GiveUp, BuildImage, TypeOK, Places
  <2>2. sem' = Cardinality(Holders')
    BY <1>4, SameTokens DEF GiveUp, BuildImage, Places
  <2>3. \A a \in Apps, c \in Builds : perApp'[a] = c <=> c \in InTurn' /\ AppOf[c] = a
    BY <1>4, SameMutexes DEF GiveUp, BuildImage, Places
  <2> QED
    BY <2>1, <2>2, <2>3 DEF Accounted
<1>5. ASSUME NEW b \in Builds, Release(b) PROVE QueueInv'
  <2>1. Holders' = Holders \ {b} /\ b \in Holders
    BY <1>5, MoveHolders DEF Release, Goto, Holders, Places
  <2>2. Cardinality(Holders) # 0
    BY <2>1, HoldersFinite, FS_EmptySet
  <2>3. sem' = Cardinality(Holders') /\ sem' \in Nat
    BY <1>5, <2>1, <2>2, HoldersFinite, FS_RemoveElement DEF Release, Accounted
  <2>4. TypeOK'
    BY <1>5, <2>3, MoveHolders DEF Release, TypeOK, Places
  <2>5. \A a \in Apps, c \in Builds : perApp'[a] = c <=> c \in InTurn' /\ AppOf[c] = a
    BY <1>5, SameMutexes DEF Release, Places
  <2> QED
    BY <2>3, <2>4, <2>5 DEF Accounted
<1>6. ASSUME NEW b \in Builds, Unlock(b) PROVE QueueInv'
  <2>1. TypeOK'
    BY <1>6, MoveHolders DEF Unlock, TypeOK, Places
  <2>2. sem' = Cardinality(Holders')
    BY <1>6, SameTokens DEF Unlock, Places
  <2>3. InTurn' = InTurn \ {b} /\ b \in InTurn
    BY <1>6, MoveHolders DEF Unlock, Goto, InTurn, Places
  <2>4. perApp[AppOf[b]] = b /\ AppOf[b] \in Apps
    BY <2>3, BuildQueueAssumption DEF Accounted, BuildQueueAssumption
  <2>5. perApp' = [perApp EXCEPT ![AppOf[b]] = NoBuild]
    BY <1>6 DEF Unlock
  <2>6. \A a \in Apps, c \in Builds : perApp'[a] = c <=> c \in InTurn' /\ AppOf[c] = a
    BY <2>3, <2>4, <2>5, BuildQueueAssumption DEF TypeOK, Accounted, BuildQueueAssumption
  <2> QED
    BY <2>1, <2>2, <2>6 DEF Accounted
<1>7. ASSUME NEW b \in Builds, Close(b) PROVE QueueInv'
  <2>1. TypeOK'
    BY <1>7, MoveHolders DEF Close, TypeOK, Places
  <2>2. sem' = Cardinality(Holders')
    BY <1>7, SameTokens DEF Close, Places
  <2>3. \A a \in Apps, c \in Builds : perApp'[a] = c <=> c \in InTurn' /\ AppOf[c] = a
    BY <1>7, SameMutexes DEF Close, Places
  <2> QED
    BY <2>1, <2>2, <2>3 DEF Accounted
<1>8. ASSUME NEW b \in Builds, Expire(b) PROVE QueueInv'
  BY <1>8 DEF Expire, TypeOK, Accounted, Holders, InTurn
<1>9. ASSUME UNCHANGED vars PROVE QueueInv'
  BY <1>9 DEF vars, TypeOK, Accounted, Holders, InTurn
<1> QED
  BY <1>1, <1>2, <1>3, <1>4, <1>5, <1>6, <1>7, <1>8, <1>9 DEF Next, GoOn, Returning

\* Every reachable state satisfies the invariant.
LEMMA QueueInvariant == Spec => []QueueInv
BY InitQueue, QueueStep, PTL DEF Spec

\* Every variable of the build queue keeps its type.
THEOREM QueueTyping == Spec => []TypeOK
BY QueueInvariant, PTL DEF QueueInv

\* The channel holds one token for each build that runs, and a mutex is held by
\* a build on its turn: no path through BuildPrepared loses either.
THEOREM TokensAccounted == Spec => []Accounted
BY QueueInvariant, PTL DEF QueueInv

----------------------------------------------------------------------------
\* A build that returned, or never began, has no upload on disk: no path through
\* BuildPrepared misses the Close.
THEOREM UploadsAlwaysRemoved == Spec => []UploadsRemoved
<1>1. Init => UploadsRemoved
  BY DEF Init, UploadsRemoved
<1>2. ASSUME QueueInv, UploadsRemoved, [Next]_vars PROVE UploadsRemoved'
  <2> USE <1>2 DEF UploadsRemoved, QueueInv, TypeOK, Goto
  <2>1. ASSUME NEW b \in Builds, Prepare(b) PROVE UploadsRemoved'
    BY <2>1 DEF Prepare
  <2>2. ASSUME NEW b \in Builds, Close(b) PROVE UploadsRemoved'
    BY <2>2 DEF Close
  <2>3. ASSUME NEW b \in Builds, Lock(b) \/ Acquire(b) \/ GiveUp(b) \/ BuildImage(b)
                                 \/ Release(b) \/ Unlock(b) \/ Expire(b)
        PROVE UploadsRemoved'
    BY <2>3 DEF Lock, Acquire, GiveUp, BuildImage, Release, Unlock, Expire
  <2>4. ASSUME UNCHANGED vars PROVE UploadsRemoved'
    BY <2>4 DEF vars
  <2> QED
    BY <2>1, <2>2, <2>3, <2>4 DEF Next, GoOn, Returning
<1> QED
  BY <1>1, <1>2, QueueInvariant, PTL DEF Spec

----------------------------------------------------------------------------
\* The queue implements BuildAdmission: one build of an app at a time, no more
\* than Capacity builds at once.
THEOREM QueueAdmits == Spec => Admitted
<1>1. Init => Admission!Init
  BY DEF Init, Admission!Init, Holders
<1>2. ASSUME QueueInv, [Next]_vars PROVE [Admission!Next]_Holders
  <2> USE DEF QueueInv
  <2>1. ASSUME NEW b \in Builds, Acquire(b) PROVE Admission!Start(b)
    <3>1. Holders' = Holders \cup {b} /\ b \notin Holders /\ b \in InTurn
      BY <1>2, <2>1, MoveHolders DEF Acquire, Goto, Holders, InTurn, Places
    <3>2. \A c \in Holders : AppOf[c] # AppOf[b]
      BY <1>2, <3>1, BuildQueueAssumption DEF Accounted, Holders, InTurn, BuildQueueAssumption
    <3>3. Cardinality(Holders) < Capacity
      BY <2>1, <1>2 DEF Acquire, Accounted
    <3> QED
      BY <3>1, <3>2, <3>3 DEF Admission!Start, Cardinality, Admission!Cardinality
  <2>2. ASSUME NEW b \in Builds, Release(b) PROVE Admission!End(b)
    BY <1>2, <2>2, MoveHolders DEF Release, Goto, Holders, Places, Admission!End
  <2>3. ASSUME NEW b \in Builds, Prepare(b) \/ Lock(b) \/ GiveUp(b) \/ BuildImage(b)
                                 \/ Unlock(b) \/ Close(b) \/ Expire(b)
        PROVE Holders' = Holders
    BY <1>2, <2>3 DEF Prepare, Lock, GiveUp, BuildImage, Unlock, Close, Expire,
                      Goto, Holders, TypeOK
  <2>4. ASSUME UNCHANGED vars PROVE Holders' = Holders
    BY <2>4 DEF vars, Holders
  <2> QED
    BY <1>2, <2>1, <2>2, <2>3, <2>4 DEF Next, GoOn, Returning, Admission!Next
<1> QED
  BY <1>1, <1>2, QueueInvariant, PTL DEF Spec, Admitted, Admission!Spec
============================================================================
