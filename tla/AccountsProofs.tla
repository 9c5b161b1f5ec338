--------------------------- MODULE AccountsProofs ---------------------------
(***************************************************************************)
(* Theorems about the accounts of module Accounts, for any number of       *)
(* users, sessions, invitations and concurrent requests.                   *)
(***************************************************************************)
EXTENDS Accounts, FiniteSetTheorems, TLAPS

LEMMA RestingTyped == Resting \in Request
  BY AccountsAssumption DEF AccountsAssumption, Resting, Request, Steps, Kinds, Ids, Roles

LEMMA NoUserTyped == NoUser \in User
  BY AccountsAssumption DEF AccountsAssumption, NoUser, User, Roles

LEMMA NoSessionTyped == NoSession \in Session
  BY AccountsAssumption DEF AccountsAssumption, NoSession, Session, Ids

LEMMA InitTyped == Init => TypeOK
<1> SUFFICES ASSUME Init PROVE TypeOK
  OBVIOUS
<1>1. users \in [Ids -> User]
  BY NoUserTyped, AccountsAssumption DEF Init, AccountsAssumption, User, NoUser, Roles
<1>2. sessions \in [Tokens -> Session]
  BY NoSessionTyped DEF Init
<1>3. invites \in [Invites -> Invite]
  BY AccountsAssumption DEF Init, AccountsAssumption, Invite, Roles, Ids
<1>4. op \in [Ops -> Request]
  BY RestingTyped DEF Init
<1> QED
  BY <1>1, <1>2, <1>3, <1>4 DEF Init, TypeOK

\* A request that goes to another step, or returns, is still a request.
LEMMA GotoTyped ==
    ASSUME TypeOK, NEW o \in Ops, NEW s \in Steps, Goto(o, s)
    PROVE  op' \in [Ops -> Request]
BY DEF TypeOK, Goto, Request

LEMMA ReturnTyped ==
    ASSUME TypeOK, NEW o \in Ops, Return(o)
    PROVE  op' \in [Ops -> Request]
BY RestingTyped DEF TypeOK, Return

USE DEF Steps

LEMMA UserChangeTyped ==
    ASSUME TypeOK, duty' = duty, NEW o \in Ops,
           BeginUserChange(o) \/ ReadUser(o) \/ CountOwners(o) \/ WriteUser(o)
             \/ Revoke(o) \/ DeleteUser(o)
    PROVE  TypeOK'
<1>0. op[o] \in Request
  BY DEF TypeOK
<1>1. CASE BeginUserChange(o)
  <2>1. PICK kind \in {"role", "disable", "enable", "delete"}, t \in Tokens,
             u \in Ids, r \in Roles :
          /\ Begin(o, kind, t, IF kind \in {"role", "delete"} THEN "owner" ELSE "admin")
          /\ kind = "role" => AtLeast(users[sessions[t].user].role, r)
          /\ kind # "role" => r = "member"
          /\ Exists(u)
          /\ op' = [op EXCEPT ![o].pc = IF kind = "enable" THEN "write" ELSE "read",
                              ![o].kind = kind, ![o].target = u, ![o].role = r]
    BY <1>1, Zenon DEF BeginUserChange
  <2>2. [op[o] EXCEPT !.pc = IF kind = "enable" THEN "write" ELSE "read",
                      !.kind = kind, !.target = u, !.role = r] \in Request
    BY <1>0 DEF Request, Kinds
  <2>3. op' \in [Ops -> Request]
    BY <2>1, <2>2 DEF TypeOK
  <2> QED
    BY <1>1, <2>3 DEF BeginUserChange, TypeOK
<1>2. CASE ReadUser(o)
  <2>1. op' \in [Ops -> Request]
    BY <1>2, GotoTyped, ReturnTyped DEF ReadUser
  <2> QED
    BY <1>2, <2>1 DEF ReadUser, TypeOK
<1>3. CASE CountOwners(o)
  <2>1. op' \in [Ops -> Request]
    BY <1>3, GotoTyped, ReturnTyped DEF CountOwners
  <2> QED
    BY <1>3, <2>1 DEF CountOwners, TypeOK
<1>4. CASE WriteUser(o)
  <2>1. op' \in [Ops -> Request]
    BY <1>4, GotoTyped, ReturnTyped DEF WriteUser
  <2>2. op[o].target \in Ids /\ op[o].role \in Roles
    BY DEF TypeOK, Request
  <2>3. users' \in [Ids -> User]
    BY <1>4, <2>2 DEF WriteUser, TypeOK, User
  <2> QED
    BY <1>4, <2>1, <2>3 DEF WriteUser, TypeOK
<1>5. CASE Revoke(o)
  <2>1. op' \in [Ops -> Request]
    BY <1>5, ReturnTyped DEF Revoke
  <2>2. sessions' \in [Tokens -> Session]
    BY <1>5, NoSessionTyped DEF Revoke, TypeOK
  <2> QED
    BY <1>5, <2>1, <2>2 DEF Revoke, TypeOK
<1>6. CASE DeleteUser(o)
  <2>1. op' \in [Ops -> Request]
    BY <1>6, ReturnTyped DEF DeleteUser
  <2>2. sessions' \in [Tokens -> Session]
    BY <1>6, NoSessionTyped DEF DeleteUser, TypeOK
  <2>3. users' \in [Ids -> User]
    BY <1>6, NoUserTyped DEF DeleteUser, TypeOK
  <2>4. invites' \in [Invites -> Invite]
    BY <1>6 DEF DeleteUser, TypeOK, Invite
  <2> QED
    BY <1>6, <2>1, <2>2, <2>3, <2>4 DEF DeleteUser, TypeOK
<1> QED
  BY <1>1, <1>2, <1>3, <1>4, <1>5, <1>6

LEMMA SessionTyped ==
    ASSUME TypeOK, duty' = duty, NEW o \in Ops,
           BeginLogin(o) \/ Issue(o) \/ BeginPassword(o) \/ SetPassword(o) \/ RevokeOthers(o)
    PROVE  TypeOK'
<1>0. op[o] \in Request /\ op[o].target \in Ids /\ op[o].pass \in 0 .. MaxPass
  BY DEF TypeOK, Request
<1>1. CASE BeginLogin(o)
  <2>1. PICK u \in Ids :
          op' = [op EXCEPT ![o].pc = "issue", ![o].target = u, ![o].pass = users[u].pass]
    BY <1>1 DEF BeginLogin
  <2>2. users[u].pass \in 0 .. MaxPass
    BY DEF TypeOK, User
  <2>3. [op[o] EXCEPT !.pc = "issue", !.target = u, !.pass = users[u].pass] \in Request
    BY <1>0, <2>2 DEF Request
  <2>4. op' \in [Ops -> Request]
    BY <2>1, <2>3 DEF TypeOK
  <2> QED
    BY <1>1, <2>4 DEF BeginLogin, TypeOK
<1>2. CASE Issue(o)
  <2>1. op' \in [Ops -> Request]
    BY <1>2, ReturnTyped DEF Issue
  <2>2. sessions' \in [Tokens -> Session]
    BY <1>0, <1>2 DEF Issue, TypeOK, Session
  <2> QED
    BY <1>2, <2>1, <2>2 DEF Issue, TypeOK
<1>3. CASE BeginPassword(o)
  <2>1. PICK t \in Tokens :
          /\ Begin(o, "password", t, "member")
          /\ users[sessions[t].user].pass < MaxPass
          /\ op' = [op EXCEPT ![o].pc = "setpass", ![o].kind = "password",
                         ![o].target = sessions[t].user, ![o].token = t,
                         ![o].pass = users[sessions[t].user].pass + 1]
    BY <1>3 DEF BeginPassword
  <2>2. sessions[t].user \in Ids
    BY <2>1 DEF Begin, Authenticates, TypeOK, Session
  <2>3. users[sessions[t].user].pass + 1 \in 0 .. MaxPass
    BY <2>1, <2>2, AccountsAssumption DEF TypeOK, User, AccountsAssumption
  <2>4. [op[o] EXCEPT !.pc = "setpass", !.kind = "password",
                      !.target = sessions[t].user, !.token = t,
                      !.pass = users[sessions[t].user].pass + 1] \in Request
    BY <1>0, <2>2, <2>3 DEF Request, Kinds
  <2>5. op' \in [Ops -> Request]
    BY <2>1, <2>4 DEF TypeOK
  <2> QED
    BY <1>3, <2>5 DEF BeginPassword, TypeOK
<1>4. CASE SetPassword(o)
  <2>1. op' \in [Ops -> Request]
    BY <1>4, GotoTyped DEF SetPassword
  <2>2. users' \in [Ids -> User]
    BY <1>0, <1>4 DEF SetPassword, TypeOK, User
  <2> QED
    BY <1>4, <2>1, <2>2 DEF SetPassword, TypeOK
<1>5. CASE RevokeOthers(o)
  <2>1. op' \in [Ops -> Request]
    BY <1>5, ReturnTyped DEF RevokeOthers
  <2>2. sessions' \in [Tokens -> Session]
    BY <1>0, <1>5, NoSessionTyped DEF RevokeOthers, TypeOK, Session
  <2> QED
    BY <1>5, <2>1, <2>2 DEF RevokeOthers, TypeOK
<1> QED
  BY <1>1, <1>2, <1>3, <1>4, <1>5

LEMMA InviteTyped ==
    ASSUME TypeOK, duty' = duty, NEW o \in Ops,
           BeginInvite(o) \/ CreateInvite(o) \/ BeginAccept(o) \/ CheckEmail(o)
             \/ CreateUser(o) \/ MarkAccepted(o) \/ Interrupt(o)
    PROVE  TypeOK'
<1>0. /\ op[o] \in Request
      /\ op[o].target \in Ids
      /\ op[o].role \in Roles
      /\ op[o].email \in Emails \cup {None}
  BY DEF TypeOK, Request
<1>1. CASE BeginInvite(o)
  <2>1. \A t \in Tokens : Authenticates(t) => sessions[t].user \in Ids
    BY DEF Authenticates, TypeOK, Session
  <2>2. PICK u \in Ids, r \in Roles, e \in Emails :
          op' = [op EXCEPT ![o].pc = "invite", ![o].kind = "invite",
                           ![o].target = u, ![o].role = r, ![o].email = e]
    BY <1>1, <2>1 DEF BeginInvite, Begin
  <2>3. [op[o] EXCEPT !.pc = "invite", !.kind = "invite",
                      !.target = u, !.role = r, !.email = e] \in Request
    BY <1>0 DEF Request, Kinds
  <2>4. op' \in [Ops -> Request]
    BY <2>2, <2>3 DEF TypeOK
  <2> QED
    BY <1>1, <2>4 DEF BeginInvite, TypeOK
<1>2. CASE CreateInvite(o)
  <2>1. op' \in [Ops -> Request]
    BY <1>2, ReturnTyped DEF CreateInvite
  <2>2. invites' \in [Invites -> Invite]
    BY <1>0, <1>2 DEF CreateInvite, TypeOK, Invite
  <2> QED
    BY <1>2, <2>1, <2>2 DEF CreateInvite, TypeOK
<1>3. CASE BeginAccept(o)
  <2>1. PICK i \in Invites :
          op' = [op EXCEPT ![o].pc = "check", ![o].kind = "accept", ![o].inv = i,
                           ![o].email = invites[i].email, ![o].role = invites[i].role]
    BY <1>3 DEF BeginAccept
  <2>2. invites[i].email \in Emails \cup {None} /\ invites[i].role \in Roles
    BY DEF TypeOK, Invite
  <2>3. [op[o] EXCEPT !.pc = "check", !.kind = "accept", !.inv = i,
                      !.email = invites[i].email, !.role = invites[i].role] \in Request
    BY <1>0, <2>2 DEF Request, Kinds
  <2>4. op' \in [Ops -> Request]
    BY <2>1, <2>3 DEF TypeOK
  <2> QED
    BY <1>3, <2>4 DEF BeginAccept, TypeOK
<1>4. CASE CheckEmail(o)
  <2>1. op' \in [Ops -> Request]
    BY <1>4, GotoTyped, ReturnTyped DEF CheckEmail
  <2> QED
    BY <1>4, <2>1 DEF CheckEmail, TypeOK
<1>5. CASE CreateUser(o)
  <2>1. CASE Return(o) /\ UNCHANGED <<users, made>>
    BY <1>5, <2>1, ReturnTyped DEF CreateUser, TypeOK
  <2>2. CASE ~(Return(o) /\ UNCHANGED <<users, made>>)
    <3>1. PICK u \in Ids :
            /\ users' = [users EXCEPT ![u] = [NoUser EXCEPT !.email = op[o].email,
                                                            !.role = op[o].role]]
            /\ made' = [made EXCEPT ![op[o].inv] = 1 + @]
            /\ op' = [op EXCEPT ![o].pc = "mark", ![o].target = u]
      BY <1>5, <2>2 DEF CreateUser
    <3>2. [op[o] EXCEPT !.pc = "mark", !.target = u] \in Request
      BY <1>0 DEF Request
    <3>3. op' \in [Ops -> Request]
      BY <3>1, <3>2 DEF TypeOK
    <3>4. [NoUser EXCEPT !.email = op[o].email, !.role = op[o].role] \in User
      BY <1>0, NoUserTyped DEF User
    <3>5. users' \in [Ids -> User]
      BY <3>1, <3>4 DEF TypeOK
    <3>6. made' \in [Invites -> Nat]
      <4>1. CASE op[o].inv \in Invites
        BY <3>1, <4>1 DEF TypeOK
      <4>2. CASE op[o].inv \notin Invites
        BY <3>1, <4>2 DEF TypeOK
      <4> QED
        BY <4>1, <4>2
    <3> QED
      BY <1>5, <3>3, <3>5, <3>6 DEF CreateUser, TypeOK
  <2> QED
    BY <2>1, <2>2
<1>6. CASE MarkAccepted(o)
  <2>0. [op[o] EXCEPT !.pc = "issue", !.pass = 0] \in Request
    <3>1. 0 \in 0 .. MaxPass
      BY AccountsAssumption DEF AccountsAssumption
    <3> QED
      BY <1>0, <3>1 DEF Request
  <2>1. op' \in [Ops -> Request]
    BY <1>6, <2>0 DEF MarkAccepted, TypeOK
  <2>2. invites' \in [Invites -> Invite]
    BY <1>6 DEF MarkAccepted, TypeOK, Invite
  <2> QED
    BY <1>6, <2>1, <2>2 DEF MarkAccepted, TypeOK
<1>7. CASE Interrupt(o)
  BY <1>7, ReturnTyped DEF Interrupt, TypeOK
<1> QED
  BY <1>1, <1>2, <1>3, <1>4, <1>5, <1>6, <1>7

LEMMA ExpiryTyped ==
    ASSUME TypeOK, duty' = duty,
           \/ \E t \in Tokens : EndSession(t)
           \/ \E i \in Invites : ExpireInvite(i)
    PROVE  TypeOK'
<1>1. CASE \E t \in Tokens : EndSession(t)
  BY <1>1, NoSessionTyped DEF EndSession, TypeOK
<1>2. CASE \E i \in Invites : ExpireInvite(i)
  BY <1>2 DEF ExpireInvite, TypeOK, Invite
<1> QED
  BY <1>1, <1>2

\* Every variable of the accounts keeps its type.
THEOREM AccountsTyping == Spec => []TypeOK
<1>1. TypeOK /\ [Next]_vars => TypeOK'
  <2> SUFFICES ASSUME TypeOK, [Next]_vars PROVE TypeOK'
    OBVIOUS
  <2>1. CASE \E o \in Ops : duty' = duty /\ (Step(o) \/ Interrupt(o))
    BY <2>1, UserChangeTyped, SessionTyped, InviteTyped DEF Step
  <2>2. CASE duty' = duty /\ ((\E t \in Tokens : EndSession(t)) \/ \E i \in Invites : ExpireInvite(i))
    BY <2>2, ExpiryTyped
  <2>3. CASE UNCHANGED vars
    BY <2>3 DEF vars, TypeOK
  <2> QED
    BY <2>1, <2>2, <2>3 DEF Next
<1> QED
  BY <1>1, InitTyped, PTL DEF Spec

----------------------------------------------------------------------------
(* The last owner *)

\* A request goroutine serves only the kinds it may serve.
KindServed == \A o \in Ops :
    op[o].pc \in {"read", "count", "write"} => op[o].kind \in duty[o]

\* A removal that is about to be written leaves another active owner.
Removing(o) == At(o, "write") /\ op[o].kind \in Removals
Leaves(o) == \/ op[o].kind = "role" /\ op[o].role = "owner"
             \/ \E v \in ActiveOwners : v # op[o].target

\* The count a removal was decided on stays true until its write: nobody else
\* takes an owner away, and whatever else happens adds owners at most.
OwnerInv == AtMostOne(Serving(Removals)) =>
    ActiveOwners # {} /\ \A o \in Ops : Removing(o) => Leaves(o)

LEMMA InitOwner == Init => KindServed /\ OwnerInv
<1> SUFFICES ASSUME Init PROVE KindServed /\ OwnerInv
  OBVIOUS
<1>1. 1 \in Ids /\ Admin # None
  BY AccountsAssumption DEF AccountsAssumption, Ids
<1>2. 1 \in ActiveOwners
  BY <1>1 DEF Init, ActiveOwners, Active, Exists, NoUser
<1> QED
  BY <1>2 DEF Init, KindServed, OwnerInv, Removing, At, Resting

\* More than one owner: one besides any given user.
LEMMA AnotherOwner ==
    ASSUME NEW u, ~(Cardinality(ActiveOwners) <= 1)
    PROVE  \E v \in ActiveOwners : v # u
<1> SUFFICES ASSUME ActiveOwners \subseteq {u} PROVE FALSE
  OBVIOUS
<1>1. Cardinality(ActiveOwners) <= Cardinality({u})
  BY FS_Subset, FS_Singleton, Zenon
<1>2. Cardinality({u}) = 1
  BY FS_Singleton
<1> QED
  BY <1>1, <1>2

\* A step of one goroutine that removes no owner and leaves that goroutine
\* short of a removal.
LEMMA HarmlessStep ==
    ASSUME TypeOK, KindServed, OwnerInv, duty' = duty, NEW o \in Ops,
           \A p \in Ops : p # o => op'[p] = op[p],
           op'[o].pc \in {"read", "count", "write"} => op'[o].kind \in duty[o],
           op'[o].pc = "write" => op'[o].kind \notin Removals,
           ActiveOwners \subseteq ActiveOwners'
    PROVE  KindServed' /\ OwnerInv'
<1>1. KindServed'
  BY DEF KindServed
<1>2. AtMostOne(Serving(Removals))' => AtMostOne(Serving(Removals))
  BY DEF AtMostOne, Serving
<1>3. \A p \in Ops : Removing(p)' => Removing(p) /\ op'[p] = op[p]
  BY DEF Removing, At
<1> QED
  BY <1>1, <1>2, <1>3 DEF OwnerInv, Leaves

\* The one goroutine that removes owners is the one that is about to.
LEMMA OneRemover ==
    ASSUME KindServed, AtMostOne(Serving(Removals)), NEW o \in Ops, NEW p \in Ops,
           op[o].pc \in {"read", "count", "write"}, op[o].kind \in Removals,
           op[p].pc \in {"read", "count", "write"}, op[p].kind \in Removals
    PROVE  o = p
<1>1. o \in Serving(Removals) /\ p \in Serving(Removals)
  BY DEF KindServed, Serving
<1> QED
  BY <1>1 DEF AtMostOne

\* The steps up to the write: a removal goes on only if an owner is left.
LEMMA DecisionStep ==
    ASSUME TypeOK, KindServed, OwnerInv, duty' = duty, NEW o \in Ops,
           BeginUserChange(o) \/ ReadUser(o) \/ CountOwners(o)
    PROVE  KindServed' /\ OwnerInv'
<1>1. CASE BeginUserChange(o)
  <2>1. PICK kind \in {"role", "disable", "enable", "delete"}, t \in Tokens,
             u \in Ids, r \in Roles :
          /\ Begin(o, kind, t, IF kind \in {"role", "delete"} THEN "owner" ELSE "admin")
          /\ kind = "role" => AtLeast(users[sessions[t].user].role, r)
          /\ kind # "role" => r = "member"
          /\ Exists(u)
          /\ op' = [op EXCEPT ![o].pc = IF kind = "enable" THEN "write" ELSE "read",
                              ![o].kind = kind, ![o].target = u, ![o].role = r]
    BY <1>1, Zenon DEF BeginUserChange
  <2> DEFINE q == [op[o] EXCEPT !.pc = IF kind = "enable" THEN "write" ELSE "read",
                                !.kind = kind, !.target = u, !.role = r]
  <2>2. op'[o] = q /\ (\A p \in Ops : p # o => op'[p] = op[p]) /\ kind \in duty[o]
    BY <2>1 DEF Begin, TypeOK
  <2>3. /\ q.kind = kind
        /\ q.pc = "write" => kind = "enable"
    BY DEF TypeOK, Request
  <2>4. ActiveOwners' = ActiveOwners
    BY <1>1 DEF BeginUserChange, ActiveOwners, Active, Exists
  <2> HIDE DEF q
  <2> QED
    BY <2>2, <2>3, <2>4, HarmlessStep DEF Removals
<1>2. CASE ReadUser(o) \/ CountOwners(o)
  <2>1. /\ op[o].pc \in {"read", "count"}
        /\ ActiveOwners' = ActiveOwners
    BY <1>2 DEF ReadUser, CountOwners, At, ActiveOwners, Active, Exists
  <2>2. CASE Return(o)
    BY <2>1, <2>2, HarmlessStep DEF Return, Resting, TypeOK
  <2>3. CASE Goto(o, "count")
    <3>1. /\ \A p \in Ops : p # o => op'[p] = op[p]
          /\ op'[o].pc = "count" /\ op'[o].kind = op[o].kind
      BY <2>3 DEF Goto, TypeOK, Request
    <3> QED
      BY <2>1, <3>1, HarmlessStep DEF KindServed
  <2>4. CASE Goto(o, "write") /\ (Demotes(o) => \E v \in ActiveOwners : v # op[o].target)
    <3>1. /\ \A p \in Ops : p # o => op'[p] = op[p]
          /\ op'[o] = [op[o] EXCEPT !.pc = "write"]
          /\ op'[o].kind = op[o].kind /\ op'[o].target = op[o].target /\ op'[o].role = op[o].role
      BY <2>4 DEF TypeOK, Goto, Request
    <3>2. KindServed'
      BY <2>1, <3>1 DEF KindServed
    <3>3. ASSUME AtMostOne(Serving(Removals)) PROVE Leaves(o)
      <4>1. CASE Demotes(o)
        BY <2>4, <4>1 DEF Leaves
      <4>2. CASE ~Demotes(o)
        BY <3>3, <4>2 DEF Demotes, Leaves, OwnerInv, ActiveOwners
      <4> QED
        BY <4>1, <4>2
    <3>4. AtMostOne(Serving(Removals))' => AtMostOne(Serving(Removals))
      BY DEF AtMostOne, Serving
    <3> QED
      BY <2>1, <3>1, <3>2, <3>3, <3>4 DEF OwnerInv, Removing, Leaves, At
  <2> QED
    BY <1>2, <2>2, <2>3, <2>4, AnotherOwner DEF ReadUser, CountOwners
<1> QED
  BY <1>1, <1>2

\* The write of a removal takes one owner away, and another one is left.
LEMMA RemovalStep ==
    ASSUME TypeOK, KindServed, OwnerInv, duty' = duty, NEW o \in Ops, Removing(o),
           WriteUser(o) \/ DeleteUser(o)
    PROVE  KindServed' /\ OwnerInv'
<1>1. /\ \A p \in Ops : p # o => op'[p] = op[p]
      /\ op'[o].pc \in {"idle", "revoke"}
  BY DEF WriteUser, DeleteUser, Goto, Return, Resting, TypeOK, Request
<1>2. KindServed'
  BY <1>1 DEF KindServed
<1>3. AtMostOne(Serving(Removals))' => AtMostOne(Serving(Removals))
  BY DEF AtMostOne, Serving
<1>4. ASSUME AtMostOne(Serving(Removals))
      PROVE  ActiveOwners' # {} /\ \A p \in Ops : ~Removing(p)'
  <2>1. ASSUME NEW p \in Ops, Removing(p)' PROVE FALSE
    <3>1. p # o /\ Removing(p)
      BY <1>1, <2>1 DEF Removing, At
    <3> QED
      BY <1>4, <3>1, OneRemover DEF Removing, At
  <2>2. CASE \E v \in ActiveOwners : v # op[o].target
    <3>1. PICK v \in ActiveOwners : v # op[o].target
      BY <2>2
    <3>2. users'[v] = users[v]
      BY <3>1 DEF WriteUser, DeleteUser, TypeOK, ActiveOwners
    <3> QED
      BY <2>1, <3>1, <3>2 DEF ActiveOwners, Active, Exists
  <2>3. CASE op[o].kind = "role" /\ op[o].role = "owner"
    <3>1. \A v \in Ids : users'[v] = users[v] \/ users'[v] = [users[v] EXCEPT !.role = "owner"]
      BY <2>3 DEF WriteUser, DeleteUser, TypeOK
    <3>2. PICK v \in ActiveOwners : TRUE
      BY <1>4 DEF OwnerInv
    <3>3. v \in ActiveOwners'
      BY <3>1, <3>2 DEF ActiveOwners, Active, Exists, TypeOK, User
    <3> QED
      BY <2>1, <3>3
  <2> QED
    BY <1>4, <2>2, <2>3 DEF OwnerInv, Leaves
<1> QED
  BY <1>2, <1>3, <1>4 DEF OwnerInv

\* No other step takes an owner away.
LEMMA EnableStep ==
    ASSUME TypeOK, KindServed, OwnerInv, duty' = duty, NEW o \in Ops,
           ~Removing(o), WriteUser(o) \/ DeleteUser(o)
    PROVE  KindServed' /\ OwnerInv'
<1>1. op[o].kind = "enable" /\ WriteUser(o)
  BY DEF Removing, Removals, WriteUser, DeleteUser, At
<1>2. (\A p \in Ops : p # o => op'[p] = op[p]) /\ op'[o] = Resting
  BY <1>1 DEF WriteUser, Return, TypeOK
<1>3. ActiveOwners \subseteq ActiveOwners'
  BY <1>1 DEF WriteUser, ActiveOwners, Active, Exists, TypeOK, User
<1> QED
  BY <1>2, <1>3, HarmlessStep DEF Resting

LEMMA OtherStep ==
    ASSUME TypeOK, KindServed, OwnerInv, duty' = duty, NEW o \in Ops,
           \/ Revoke(o) \/ BeginLogin(o) \/ Issue(o) \/ BeginPassword(o) \/ SetPassword(o)
           \/ RevokeOthers(o) \/ BeginInvite(o) \/ CreateInvite(o) \/ BeginAccept(o)
           \/ CheckEmail(o) \/ CreateUser(o) \/ MarkAccepted(o) \/ Interrupt(o)
    PROVE  KindServed' /\ OwnerInv'
<1>0. op[o] \in Request
  BY DEF TypeOK
<1>1. /\ \A p \in Ops : p # o => op'[p] = op[p]
      /\ op'[o].pc \notin {"read", "count", "write"}
  <2>1. CASE Return(o)
    BY <2>1 DEF Return, Resting, TypeOK
  <2>2. CASE Goto(o, "create") \/ Goto(o, "others")
    BY <1>0, <2>2 DEF Goto, TypeOK, Request
  <2>3. CASE Revoke(o) \/ Issue(o) \/ RevokeOthers(o) \/ CreateInvite(o) \/ Interrupt(o)
    BY <2>1, <2>3 DEF Revoke, Issue, RevokeOthers, CreateInvite, Interrupt
  <2>4. CASE SetPassword(o) \/ CheckEmail(o)
    BY <2>1, <2>2, <2>4 DEF SetPassword, CheckEmail
  <2>5. CASE BeginLogin(o)
    <3>1. PICK u \in Ids :
            op' = [op EXCEPT ![o].pc = "issue", ![o].target = u, ![o].pass = users[u].pass]
      BY <2>5 DEF BeginLogin
    <3> QED
      BY <1>0, <3>1 DEF TypeOK, Request
  <2>6. CASE BeginPassword(o)
    <3>1. PICK t \in Tokens :
            op' = [op EXCEPT ![o].pc = "setpass", ![o].kind = "password",
                             ![o].target = sessions[t].user, ![o].token = t,
                             ![o].pass = users[sessions[t].user].pass + 1]
      BY <2>6 DEF BeginPassword
    <3> QED
      BY <1>0, <3>1 DEF TypeOK, Request
  <2>7. CASE BeginInvite(o)
    <3>1. PICK t \in Tokens, r \in Roles, e \in Emails :
            op' = [op EXCEPT ![o].pc = "invite", ![o].kind = "invite",
                             ![o].target = sessions[t].user, ![o].role = r, ![o].email = e]
      BY <2>7 DEF BeginInvite
    <3> QED
      BY <1>0, <3>1 DEF TypeOK, Request
  <2>8. CASE BeginAccept(o)
    <3>1. PICK i \in Invites :
            op' = [op EXCEPT ![o].pc = "check", ![o].kind = "accept", ![o].inv = i,
                             ![o].email = invites[i].email, ![o].role = invites[i].role]
      BY <2>8 DEF BeginAccept
    <3> QED
      BY <1>0, <3>1 DEF TypeOK, Request
  <2>9. CASE CreateUser(o)
    BY <1>0, <2>1, <2>9 DEF CreateUser, TypeOK, Request
  <2>10. CASE MarkAccepted(o)
    BY <1>0, <2>10 DEF MarkAccepted, TypeOK, Request
  <2> QED
    BY <2>3, <2>4, <2>5, <2>6, <2>7, <2>8, <2>9, <2>10
<1>2. ActiveOwners \subseteq ActiveOwners'
  <2>1. CASE users' = users
    BY <2>1 DEF ActiveOwners, Active, Exists
  <2>2. CASE SetPassword(o)
    BY <2>2 DEF SetPassword, ActiveOwners, Active, Exists, TypeOK, User
  <2>3. CASE CreateUser(o) /\ users' # users
    <3>0. PICK u \in Ids :
            /\ IsNextId(u)
            /\ users' = [users EXCEPT ![u] = [NoUser EXCEPT !.email = op[o].email,
                                                            !.role = op[o].role]]
      BY <2>3 DEF CreateUser
    <3>1. IsNextId(u) /\ \A v \in Ids : v # u => users'[v] = users[v]
      BY <3>0 DEF TypeOK
    <3>2. u \notin ActiveOwners
      BY <3>1, AccountsAssumption DEF IsNextId, ActiveOwners, Active, Ids, AccountsAssumption
    <3> QED
      BY <3>1, <3>2 DEF ActiveOwners, Active, Exists
  <2> QED
    BY <2>1, <2>2, <2>3 DEF Revoke, BeginLogin, Issue, BeginPassword, RevokeOthers, BeginInvite,
       CreateInvite, BeginAccept, CheckEmail, MarkAccepted, Interrupt
<1> QED
  BY <1>1, <1>2, HarmlessStep

\* "The 'at least one must always remain' invariant", for any number of users
\* and of requests that log in, invite, accept and enable beside the one that
\* demotes, disables and deletes.
THEOREM OwnersRemain == Spec => []OwnerRemains
<1>1. TypeOK /\ KindServed /\ OwnerInv /\ [Next]_vars => KindServed' /\ OwnerInv'
  <2> SUFFICES ASSUME TypeOK, KindServed, OwnerInv, [Next]_vars PROVE KindServed' /\ OwnerInv'
    OBVIOUS
  <2>1. CASE \E o \in Ops : duty' = duty /\ (Step(o) \/ Interrupt(o))
    BY <2>1, DecisionStep, RemovalStep, EnableStep, OtherStep DEF Step
  <2>2. CASE \/ duty' = duty /\ (\E t \in Tokens : EndSession(t))
             \/ duty' = duty /\ (\E i \in Invites : ExpireInvite(i))
             \/ UNCHANGED vars
    <3>1. users' = users /\ op' = op /\ duty' = duty
      BY <2>2 DEF EndSession, ExpireInvite, vars
    <3> QED
      BY <3>1 DEF KindServed, OwnerInv, AtMostOne, Serving, ActiveOwners, Active, Exists,
         Removing, Leaves, At
  <2> QED
    BY <2>1, <2>2 DEF Next
<1>2. OwnerInv => OwnerRemains
  BY DEF OwnerInv, OwnerRemains
<1> QED
  BY <1>1, <1>2, InitOwner, AccountsTyping, PTL DEF Spec

----------------------------------------------------------------------------
(* Invitations *)

Accepting(o) == op[o].pc \in {"check", "create", "mark"}

Once == AtMostOne(Serving({"accept"})) /\ \A o \in Serving({"accept"}) : Uninterrupted(o)

\* An invitation that has created a user and can create no other.
Spent(i) == \/ invites[i].state \in {"accepted", "gone"}
            \/ \E o \in Ops : At(o, "mark") /\ op[o].inv = i

InviteInv ==
    /\ \A o \in Ops : Accepting(o) =>
         "accept" \in duty[o] /\ op[o].inv \in Invites /\ invites[op[o].inv].state # "new"
    /\ \A o \in Ops : At(o, "mark") => made[op[o].inv] > 0
    /\ \A i \in Invites : invites[i].state = "accepted" => made[i] > 0
    /\ Once => /\ \A i \in Invites : made[i] > 0 => made[i] = 1 /\ Spent(i)
               /\ \A o \in Ops : op[o].pc \in {"check", "create"} => made[op[o].inv] = 0

LEMMA InitInvites == Init => InviteInv
BY DEF Init, InviteInv, Accepting, At, Resting

\* An invitation goes this way while no user is made of it.
Ages(i) == \/ invites'[i].state = invites[i].state
           \/ invites[i].state = "new" /\ invites'[i].state = "open"
           \/ invites[i].state = "open" /\ invites'[i].state = "expired"
           \/ invites[i].state # "new" /\ invites'[i].state = "gone"

LEMMA OnceStays == ASSUME duty' = duty PROVE Once' <=> Once
BY DEF Once, AtMostOne, Serving, Uninterrupted

\* A step outside of an acceptance, or one that gives it up before its user.
LEMMA InvitesAge ==
    ASSUME TypeOK, InviteInv, duty' = duty, made' = made, \A i \in Invites : Ages(i),
           \A p \in Ops : \/ op'[p] = op[p]
                          \/ ~Accepting(p)' /\ (At(p, "mark") => ~Once)
    PROVE  InviteInv'
<1>1. \A p \in Ops : Accepting(p)' => Accepting(p) /\ op'[p] = op[p]
  BY DEF Accepting
<1>2. \A p \in Ops : Accepting(p)' =>
        "accept" \in duty'[p] /\ op'[p].inv \in Invites /\ invites'[op'[p].inv].state # "new"
  BY <1>1 DEF InviteInv, Ages
<1>3. \A p \in Ops : At(p, "mark")' => made'[op'[p].inv] > 0
  BY <1>1 DEF InviteInv, Accepting, At
<1>4. \A i \in Invites : invites'[i].state = "accepted" => made'[i] > 0
  BY DEF InviteInv, Ages
<1>5. ASSUME Once, NEW i \in Invites, made'[i] > 0 PROVE made'[i] = 1 /\ Spent(i)'
  <2>1. made[i] = 1 /\ Spent(i)
    BY <1>5 DEF InviteInv
  <2>2. CASE invites[i].state \in {"accepted", "gone"}
    BY <2>1, <2>2 DEF Spent, Ages
  <2>3. CASE \E o \in Ops : At(o, "mark") /\ op[o].inv = i
    BY <1>5, <2>1, <2>3 DEF Spent, At
  <2> QED
    BY <2>1, <2>2, <2>3 DEF Spent
<1>6. Once => \A p \in Ops : op'[p].pc \in {"check", "create"} => made'[op'[p].inv] = 0
  BY <1>1 DEF InviteInv, Accepting
<1> QED
  BY <1>2, <1>3, <1>4, <1>5, <1>6, OnceStays DEF InviteInv

\* Acceptances that may not overlap: another one is not under way.
LEMMA OneAcceptance ==
    ASSUME InviteInv, Once, NEW o \in Ops, NEW p \in Ops, "accept" \in duty[o], Accepting(p)
    PROVE  p = o
BY DEF InviteInv, Once, AtMostOne, Serving

LEMMA AcceptBegins ==
    ASSUME TypeOK, InviteInv, duty' = duty, NEW o \in Ops, BeginAccept(o) PROVE InviteInv'
<1>1. PICK i \in Invites :
        /\ invites[i].state = "open"
        /\ op' = [op EXCEPT ![o].pc = "check", ![o].kind = "accept", ![o].inv = i,
                         ![o].email = invites[i].email, ![o].role = invites[i].role]
  BY DEF BeginAccept
<1>2. /\ \A p \in Ops : p # o => op'[p] = op[p]
      /\ op'[o].pc = "check" /\ op'[o].inv = i
      /\ invites' = invites /\ made' = made /\ op[o].pc = "idle" /\ "accept" \in duty[o]
  BY <1>1 DEF TypeOK, Request, BeginAccept, At
<1>3. Once => made[i] = 0
  <2>1. made[i] \in Nat /\ i \in Invites
    BY DEF TypeOK
  <2>2. ASSUME Once, made[i] > 0 PROVE FALSE
    <3>1. PICK p \in Ops : At(p, "mark")
      BY <1>1, <2>2 DEF InviteInv, Spent
    <3>2. p = o
      BY <1>2, <2>2, <3>1, OneAcceptance DEF Accepting, At
    <3> QED
      BY <1>2, <3>1, <3>2 DEF At
  <2> QED
    BY <2>1, <2>2
<1>4. \A p \in Ops : At(p, "mark")' <=> At(p, "mark") 
  BY <1>2 DEF At
<1>5. \A j \in Invites : Spent(j) => Spent(j)'
  BY <1>2, <1>4 DEF Spent, At
<1>6. \A p \in Ops : Accepting(p)' =>
        "accept" \in duty'[p] /\ op'[p].inv \in Invites /\ invites'[op'[p].inv].state # "new"
  BY <1>1, <1>2 DEF InviteInv, Accepting
<1>7. \A p \in Ops : At(p, "mark")' => made'[op'[p].inv] > 0
  BY <1>2 DEF InviteInv, At
<1>8. Once => \A p \in Ops : op'[p].pc \in {"check", "create"} => made'[op'[p].inv] = 0
  BY <1>2, <1>3 DEF InviteInv
<1> QED
  BY <1>2, <1>5, <1>6, <1>7, <1>8, OnceStays DEF InviteInv

LEMMA AcceptChecks ==
    ASSUME TypeOK, InviteInv, duty' = duty, NEW o \in Ops, At(o, "check"), Goto(o, "create"),
           invites' = invites, made' = made
    PROVE  InviteInv'
<1>1. /\ \A p \in Ops : p # o => op'[p] = op[p]
      /\ op'[o].pc = "create" /\ op'[o].inv = op[o].inv /\ op[o].pc = "check"
  BY DEF Goto, TypeOK, Request, At
<1>2. \A j \in Invites : Spent(j) => Spent(j)'
  BY <1>1 DEF Spent, At
<1>3. \A p \in Ops : Accepting(p)' =>
        "accept" \in duty'[p] /\ op'[p].inv \in Invites /\ invites'[op'[p].inv].state # "new"
  BY <1>1 DEF InviteInv, Accepting
<1>4. \A p \in Ops : At(p, "mark")' => made'[op'[p].inv] > 0
  BY <1>1 DEF InviteInv, At
<1>5. Once => \A p \in Ops : op'[p].pc \in {"check", "create"} => made'[op'[p].inv] = 0
  BY <1>1 DEF InviteInv
<1> QED
  BY <1>2, <1>3, <1>4, <1>5, OnceStays DEF InviteInv

\* The user is made: of an invitation that had made none.
LEMMA AcceptCreates ==
    ASSUME TypeOK, InviteInv, duty' = duty, NEW o \in Ops, CreateUser(o), made' # made
    PROVE  InviteInv'
<1> DEFINE i == op[o].inv
<1>1. /\ \A p \in Ops : p # o => op'[p] = op[p]
      /\ op'[o].pc = "mark" /\ op'[o].inv = i /\ op[o].pc = "create"
      /\ invites' = invites
  BY DEF CreateUser, TypeOK, Request, At
<1>2. i \in Invites /\ "accept" \in duty[o]
  BY <1>1 DEF InviteInv, Accepting
<1>3. /\ made \in [Invites -> Nat]
      /\ made'[i] = 1 + made[i]
      /\ \A j \in Invites : j # i => made'[j] = made[j]
  BY <1>2 DEF CreateUser, TypeOK
<1> HIDE DEF i
<1>4. \A p \in Ops : Accepting(p)' =>
        "accept" \in duty'[p] /\ op'[p].inv \in Invites /\ invites'[op'[p].inv].state # "new"
  BY <1>1, <1>2 DEF InviteInv, Accepting, i
<1>5. \A j \in Invites : made[j] > 0 => made'[j] > 0
  BY <1>3
<1>6. \A p \in Ops : At(p, "mark")' => made'[op'[p].inv] > 0
  <2>1. made'[i] > 0
    BY <1>2, <1>3
  <2>2. ASSUME NEW p \in Ops, p # o, At(p, "mark")' PROVE made'[op'[p].inv] > 0
    BY <1>1, <1>5, <2>2 DEF InviteInv, At, Accepting
  <2> QED
    BY <1>1, <2>1, <2>2
<1>7. \A j \in Invites : invites'[j].state = "accepted" => made'[j] > 0
  BY <1>1, <1>5 DEF InviteInv
<1>8. ASSUME Once, NEW j \in Invites, made'[j] > 0 PROVE made'[j] = 1 /\ Spent(j)'
  <2>1. CASE j = i
    <3>1. made[i] = 0
      BY <1>1, <1>8 DEF InviteInv, i
    <3> QED
      BY <1>1, <1>3, <2>1, <3>1 DEF Spent, At
  <2>2. CASE j # i
    <3>1. made[j] = 1 /\ Spent(j)
      BY <1>3, <1>8, <2>2 DEF InviteInv
    <3>2. Spent(j)'
      BY <1>1, <3>1 DEF Spent, At
    <3> QED
      BY <1>3, <2>2, <3>1, <3>2
  <2> QED
    BY <2>1, <2>2
<1>9. ASSUME Once, NEW p \in Ops, op'[p].pc \in {"check", "create"} PROVE FALSE
  BY <1>1, <1>2, <1>9, OneAcceptance DEF Accepting
<1> QED
  BY <1>4, <1>6, <1>7, <1>8, <1>9, OnceStays DEF InviteInv

LEMMA AcceptMarks ==
    ASSUME TypeOK, InviteInv, duty' = duty, NEW o \in Ops, MarkAccepted(o) PROVE InviteInv'
<1> DEFINE i == op[o].inv
<1>1. /\ \A p \in Ops : p # o => op'[p] = op[p]
      /\ op'[o].pc = "issue" /\ op[o].pc = "mark" /\ made' = made
  BY DEF MarkAccepted, TypeOK, Request, At
<1>2. i \in Invites /\ made[i] > 0
  BY <1>1 DEF InviteInv, Accepting, At
<1>3. /\ invites'[i].state \in {"accepted", "gone"}
      /\ \A j \in Invites : j # i => invites'[j] = invites[j]
  BY <1>2 DEF MarkAccepted, TypeOK, Invite
<1> HIDE DEF i
<1>4. \A p \in Ops : Accepting(p)' =>
        "accept" \in duty'[p] /\ op'[p].inv \in Invites /\ invites'[op'[p].inv].state # "new"
  BY <1>1, <1>3 DEF InviteInv, Accepting
<1>5. \A p \in Ops : At(p, "mark")' => made'[op'[p].inv] > 0
  BY <1>1 DEF InviteInv, At
<1>6. \A j \in Invites : invites'[j].state = "accepted" => made'[j] > 0
  BY <1>1, <1>2, <1>3 DEF InviteInv
<1>7. ASSUME Once, NEW j \in Invites, made'[j] > 0 PROVE made'[j] = 1 /\ Spent(j)'
  <2>1. made[j] = 1 /\ Spent(j)
    BY <1>1, <1>7 DEF InviteInv
  <2>2. CASE j = i
    BY <1>1, <1>3, <2>1, <2>2 DEF Spent
  <2>3. CASE j # i
    BY <1>1, <1>3, <2>1, <2>3 DEF Spent, At, i
  <2> QED
    BY <2>2, <2>3
<1>8. Once => \A p \in Ops : op'[p].pc \in {"check", "create"} => made'[op'[p].inv] = 0
  BY <1>1 DEF InviteInv
<1> QED
  BY <1>4, <1>5, <1>6, <1>7, <1>8, OnceStays DEF InviteInv

\* The other steps of a request have nothing to do with acceptances.
NotAccept(o) ==
    \/ BeginUserChange(o) \/ ReadUser(o) \/ CountOwners(o) \/ WriteUser(o) \/ Revoke(o)
    \/ DeleteUser(o) \/ BeginLogin(o) \/ Issue(o) \/ BeginPassword(o) \/ SetPassword(o)
    \/ RevokeOthers(o) \/ BeginInvite(o) \/ CreateInvite(o)

LEMMA NotAcceptStep ==
    ASSUME TypeOK, NEW o \in Ops, NotAccept(o)
    PROVE  (\A p \in Ops : p # o => op'[p] = op[p]) /\ ~Accepting(o)' /\ ~At(o, "mark")
<1>0. op[o] \in Request
  BY DEF TypeOK
<1>1. CASE ReadUser(o) \/ CountOwners(o) \/ WriteUser(o) \/ SetPassword(o)
  <2>1. op[o].pc \in {"read", "count", "write", "setpass"}
    BY <1>1 DEF ReadUser, CountOwners, WriteUser, SetPassword, At
  <2>2. Return(o) \/ Goto(o, "count") \/ Goto(o, "write") \/ Goto(o, "revoke") \/ Goto(o, "others")
    BY <1>1 DEF ReadUser, CountOwners, WriteUser, SetPassword
  <2> QED
    BY <1>0, <2>1, <2>2 DEF Return, Goto, Resting, TypeOK, Request, Accepting, At
<1>2. CASE Revoke(o) \/ DeleteUser(o) \/ Issue(o) \/ RevokeOthers(o) \/ CreateInvite(o)
  <2>1. op[o].pc \in {"revoke", "write", "issue", "others", "invite"} /\ Return(o)
    BY <1>2 DEF Revoke, DeleteUser, Issue, RevokeOthers, CreateInvite, At
  <2> QED
    BY <2>1 DEF Return, Resting, TypeOK, Accepting, At
<1>3. CASE BeginUserChange(o)
  <2>1. PICK kind \in {"role", "disable", "enable", "delete"}, t \in Tokens,
             u \in Ids, r \in Roles :
          /\ Begin(o, kind, t, IF kind \in {"role", "delete"} THEN "owner" ELSE "admin")
          /\ kind = "role" => AtLeast(users[sessions[t].user].role, r)
          /\ kind # "role" => r = "member"
          /\ Exists(u)
          /\ op' = [op EXCEPT ![o].pc = IF kind = "enable" THEN "write" ELSE "read",
                              ![o].kind = kind, ![o].target = u, ![o].role = r]
    BY <1>3, Zenon DEF BeginUserChange
  <2> QED
    BY <1>0, <2>1 DEF Begin, At, TypeOK, Request, Accepting
<1>4. CASE BeginLogin(o)
  <2>1. PICK u \in Ids :
          op' = [op EXCEPT ![o].pc = "issue", ![o].target = u, ![o].pass = users[u].pass]
    BY <1>4 DEF BeginLogin
  <2> QED
    BY <1>0, <1>4, <2>1 DEF BeginLogin, At, TypeOK, Request, Accepting
<1>5. CASE BeginPassword(o)
  <2>1. PICK t \in Tokens :
          /\ Begin(o, "password", t, "member")
          /\ op' = [op EXCEPT ![o].pc = "setpass", ![o].kind = "password",
                           ![o].target = sessions[t].user, ![o].token = t,
                           ![o].pass = users[sessions[t].user].pass + 1]
    BY <1>5 DEF BeginPassword
  <2> QED
    BY <1>0, <2>1 DEF Begin, At, TypeOK, Request, Accepting
<1>6. CASE BeginInvite(o)
  <2>1. PICK t \in Tokens, r \in Roles, e \in Emails :
          /\ Begin(o, "invite", t, "admin")
          /\ op' = [op EXCEPT ![o].pc = "invite", ![o].kind = "invite",
                           ![o].target = sessions[t].user, ![o].role = r, ![o].email = e]
    BY <1>6 DEF BeginInvite
  <2> QED
    BY <1>0, <2>1 DEF Begin, At, TypeOK, Request, Accepting
<1> QED
  BY <1>1, <1>2, <1>3, <1>4, <1>5, <1>6 DEF NotAccept

LEMMA NotAcceptInvites ==
    ASSUME TypeOK, NEW o \in Ops, NotAccept(o)
    PROVE  made' = made /\ \A i \in Invites : Ages(i)
<1>1. CASE DeleteUser(o)
  <2>1. \A i \in Invites : invites'[i] = IF invites[i].state # "new" /\ invites[i].by = op[o].target
                                         THEN [invites[i] EXCEPT !.state = "gone"] ELSE invites[i]
    BY <1>1 DEF DeleteUser
  <2>2. \A i \in Invites : [invites[i] EXCEPT !.state = "gone"].state = "gone"
    BY DEF TypeOK, Invite
  <2>3. ASSUME NEW i \in Invites PROVE Ages(i)
    <3>1. CASE invites'[i] = invites[i]
      BY <3>1 DEF Ages
    <3>2. CASE invites[i].state # "new" /\ invites'[i] = [invites[i] EXCEPT !.state = "gone"]
      BY <2>2, <3>2 DEF Ages
    <3> QED
      BY <2>1, <3>1, <3>2
  <2> QED
    BY <1>1, <2>3 DEF DeleteUser
<1>2. CASE CreateInvite(o)
  <2>1. CASE invites' = invites
    BY <1>2, <2>1 DEF CreateInvite, Ages
  <2>2. CASE invites' # invites
    <3>1. PICK i \in Invites :
            /\ invites[i].state = "new"
            /\ invites' = [invites EXCEPT ![i] = [state |-> "open", email |-> op[o].email,
                                                  role |-> op[o].role, by |-> op[o].target]]
      BY <1>2, <2>2 DEF CreateInvite
    <3>2. invites'[i].state = "open" /\ \A j \in Invites : j # i => invites'[j] = invites[j]
      BY <3>1 DEF TypeOK
    <3> QED
      BY <1>2, <3>1, <3>2 DEF CreateInvite, Ages
  <2> QED
    BY <2>1, <2>2
<1>3. CASE /\ \/ BeginUserChange(o) \/ ReadUser(o) \/ CountOwners(o) \/ WriteUser(o) \/ Revoke(o)
              \/ BeginLogin(o) \/ Issue(o) \/ BeginPassword(o) \/ SetPassword(o)
              \/ RevokeOthers(o) \/ BeginInvite(o)
  <2>1. made' = made /\ invites' = invites
    BY <1>3 DEF BeginUserChange, ReadUser, CountOwners, WriteUser, Revoke, BeginLogin, Issue,
       BeginPassword, SetPassword, RevokeOthers, BeginInvite
  <2> QED
    BY <2>1 DEF Ages
<1> QED
  BY <1>1, <1>2, <1>3 DEF NotAccept

\* A request that returns from its acceptance before its user is made, or is
\* interrupted, which an acceptance by itself is not.
LEMMA AcceptEnds ==
    ASSUME TypeOK, InviteInv, duty' = duty, NEW o \in Ops, Return(o), made' = made, invites' = invites,
           At(o, "mark") => ~Once
    PROVE  InviteInv'
<1>1. \A p \in Ops : op'[p] = op[p] \/ (p = o /\ ~Accepting(p)')
  BY DEF Return, Resting, TypeOK, Accepting
<1>2. \A i \in Invites : Ages(i)
  BY DEF Ages
<1> QED
  BY <1>1, <1>2, InvitesAge

LEMMA InviteSteps ==
    ASSUME TypeOK, InviteInv, duty' = duty, NEW o \in Ops, Step(o) \/ Interrupt(o)
    PROVE  InviteInv'
<1>1. CASE NotAccept(o)
  BY <1>1, NotAcceptStep, NotAcceptInvites, InvitesAge, Zenon
<1>2. CASE BeginAccept(o)
  BY <1>2, AcceptBegins
<1>3. CASE CheckEmail(o)
  BY <1>3, AcceptChecks, AcceptEnds DEF CheckEmail, At
<1>4. CASE CreateUser(o)
  <2>1. CASE made' # made
    BY <1>4, <2>1, AcceptCreates
  <2>2. CASE made' = made
    <3>1. op[o].pc = "create" /\ op[o].inv \in Invites /\ invites' = invites
      BY <1>4 DEF CreateUser, At, InviteInv, Accepting
    <3>2. made' # [made EXCEPT ![op[o].inv] = 1 + @]
      <4>1. [made EXCEPT ![op[o].inv] = 1 + @][op[o].inv] = 1 + made[op[o].inv] /\ made[op[o].inv] \in Nat
        BY <3>1 DEF TypeOK
      <4> QED
        BY <2>2, <4>1
    <3>3. Return(o)
      BY <1>4, <3>2 DEF CreateUser
    <3> QED
      BY <2>2, <3>1, <3>3, AcceptEnds DEF At
  <2> QED
    BY <2>1, <2>2
<1>5. CASE MarkAccepted(o)
  BY <1>5, AcceptMarks
<1>6. CASE Interrupt(o)
  <2>1. At(o, "mark") => ~Once
    BY <1>6 DEF Interrupt, InviteInv, Accepting, At, Once, Serving, Uninterrupted
  <2> QED
    BY <1>6, <2>1, AcceptEnds DEF Interrupt
<1> QED
  BY <1>1, <1>2, <1>3, <1>4, <1>5, <1>6 DEF Step, NotAccept

\* "Single-use": an accepted invitation has created a user, and as long as one
\* goroutine accepts invitations, and does not stop half-way, none creates two,
\* whatever logs in, invites, expires, disables or deletes meanwhile.
THEOREM InvitationsAreSpentOnce == Spec => []InviteUsedOnce
<1>1. TypeOK /\ InviteInv /\ [Next]_vars => InviteInv'
  <2> SUFFICES ASSUME TypeOK, InviteInv, [Next]_vars PROVE InviteInv'
    OBVIOUS
  <2>1. CASE \E o \in Ops : duty' = duty /\ (Step(o) \/ Interrupt(o))
    BY <2>1, InviteSteps
  <2>2. CASE \/ duty' = duty /\ (\E t \in Tokens : EndSession(t))
             \/ UNCHANGED vars
    <3>1. invites' = invites /\ made' = made /\ op' = op /\ duty' = duty
      BY <2>2 DEF EndSession, vars
    <3>2. \A i \in Invites : Ages(i)
      BY <3>1 DEF Ages
    <3> QED
      BY <3>1, <3>2, InvitesAge
  <2>3. CASE duty' = duty /\ \E i \in Invites : ExpireInvite(i)
    <3>1. PICK i \in Invites : ExpireInvite(i)
      BY <2>3
    <3>2. made' = made /\ op' = op /\ \A j \in Invites : Ages(j)
      BY <3>1 DEF ExpireInvite, Ages, TypeOK, Invite
    <3> QED
      BY <2>3, <3>2, InvitesAge
  <2> QED
    BY <2>1, <2>2, <2>3 DEF Next
<1>2. TypeOK /\ InviteInv => InviteUsedOnce
  BY DEF TypeOK, InviteInv, InviteUsedOnce, Once
<1> QED
  BY <1>1, <1>2, InitInvites, AccountsTyping, PTL DEF Spec

----------------------------------------------------------------------------
(* Sessions *)

Busy(o) == ~At(o, "idle")
BusyServed == \A o \in Ops : Busy(o) => duty[o] \cap Kinds # {}

LEMMA StepServed ==
    ASSUME TypeOK, BusyServed, NEW o \in Ops, Step(o) \/ Interrupt(o)
    PROVE  duty[o] \cap Kinds # {} /\ \A p \in Ops : p # o => op'[p] = op[p]
<1>1. CASE NotAccept(o)
  <2>1. CASE Busy(o)
    BY <1>1, <2>1, NotAcceptStep DEF BusyServed
  <2>2. CASE ~Busy(o)
    <3>1. BeginUserChange(o) \/ BeginLogin(o) \/ BeginPassword(o) \/ BeginInvite(o)
      BY <1>1, <2>2 DEF NotAccept, Busy, At, ReadUser, CountOwners, WriteUser, Revoke, DeleteUser, Issue,
         SetPassword, RevokeOthers, CreateInvite
    <3>2. duty[o] \cap Kinds # {}
      BY <3>1, Zenon DEF BeginUserChange, BeginLogin, BeginPassword, BeginInvite, Begin, Kinds
    <3> QED
      BY <1>1, <3>2, NotAcceptStep
  <2> QED
    BY <2>1, <2>2
<1>2. CASE BeginAccept(o)
  <2>1. "accept" \in duty[o] /\ \A p \in Ops : p # o => op'[p] = op[p]
    BY <1>2 DEF BeginAccept, TypeOK
  <2> QED
    BY <2>1 DEF Kinds
<1>3. CASE CheckEmail(o) \/ CreateUser(o) \/ MarkAccepted(o) \/ Interrupt(o)
  <2>1. Busy(o)
    BY <1>3 DEF CheckEmail, CreateUser, MarkAccepted, Interrupt, Busy, At
  <2>2. \A p \in Ops : p # o => op'[p] = op[p]
    BY <1>3 DEF CheckEmail, CreateUser, MarkAccepted, Interrupt, Return, Goto, TypeOK
  <2> QED
    BY <2>1, <2>2 DEF BusyServed
<1> QED
  BY <1>1, <1>2, <1>3 DEF Step, NotAccept

\* The users that invitations create have an address.
EmailInv ==
    /\ \A i \in Invites : invites[i].email \in Emails
    /\ \A o \in Ops : op[o].pc \in {"invite", "check", "create"} => op[o].email \in Emails

LEMMA EmailsKept ==
    ASSUME TypeOK, EmailInv, NEW o \in Ops, \A p \in Ops : p # o => op'[p] = op[p],
           op'[o].pc \in {"invite", "check", "create"} => op'[o].email \in Emails,
           \A i \in Invites : invites'[i].email \in Emails
    PROVE  EmailInv'
BY DEF EmailInv

LEMMA EmailSteps ==
    ASSUME TypeOK, BusyServed, EmailInv, NEW o \in Ops, Step(o) \/ Interrupt(o)
    PROVE  EmailInv'
<1>0. op[o] \in Request /\ \A p \in Ops : p # o => op'[p] = op[p]
  BY StepServed DEF TypeOK
<1>1. CASE BeginInvite(o)
  <2>1. PICK t \in Tokens, r \in Roles, e \in Emails :
          op' = [op EXCEPT ![o].pc = "invite", ![o].kind = "invite",
                           ![o].target = sessions[t].user, ![o].role = r, ![o].email = e]
    BY <1>1, Zenon DEF BeginInvite
  <2>2. op'[o].email \in Emails
    BY <1>0, <2>1 DEF TypeOK, Request
  <2> QED
    BY <1>0, <1>1, <2>2, EmailsKept DEF BeginInvite, EmailInv
<1>2. CASE BeginAccept(o)
  <2>1. PICK i \in Invites :
          op' = [op EXCEPT ![o].pc = "check", ![o].kind = "accept", ![o].inv = i,
                           ![o].email = invites[i].email, ![o].role = invites[i].role]
    BY <1>2 DEF BeginAccept
  <2>2. op'[o].email = invites[i].email
    BY <1>0, <2>1 DEF TypeOK, Request
  <2> QED
    BY <1>0, <1>2, <2>2, EmailsKept DEF BeginAccept, EmailInv
<1>3. CASE CheckEmail(o)
  <2>1. op[o].pc = "check" /\ (Return(o) \/ Goto(o, "create")) /\ invites' = invites
    BY <1>3 DEF CheckEmail, At
  <2>2. op'[o].pc = "idle" \/ op'[o].email = op[o].email
    BY <1>0, <2>1 DEF Return, Goto, Resting, TypeOK, Request
  <2> QED
    BY <1>0, <2>1, <2>2, EmailsKept DEF EmailInv
<1>4. CASE CreateInvite(o)
  <2>1. op[o].email \in Emails /\ op'[o].pc = "idle"
    BY <1>4 DEF CreateInvite, At, EmailInv, Return, Resting, TypeOK
  <2>2. \A i \in Invites : invites'[i] = invites[i] \/ invites'[i].email = op[o].email
    BY <1>4 DEF CreateInvite, TypeOK
  <2> QED
    BY <1>0, <2>1, <2>2, EmailsKept DEF EmailInv
<1>5. CASE CreateUser(o) \/ MarkAccepted(o) \/ Interrupt(o) \/ DeleteUser(o)
  <2>1. op'[o].pc \notin {"invite", "check", "create"}
    BY <1>0, <1>5 DEF CreateUser, MarkAccepted, Interrupt, DeleteUser, Return, Resting, TypeOK, Request
  <2>2. \A i \in Invites : invites'[i].email = invites[i].email
    BY <1>5 DEF CreateUser, MarkAccepted, Interrupt, DeleteUser, TypeOK, Invite
  <2> QED
    BY <1>0, <2>1, <2>2, EmailsKept DEF EmailInv
<1>6. CASE \/ BeginUserChange(o) \/ ReadUser(o) \/ CountOwners(o) \/ WriteUser(o) \/ Revoke(o)
           \/ BeginLogin(o) \/ Issue(o) \/ BeginPassword(o) \/ SetPassword(o) \/ RevokeOthers(o)
  <2>1. invites' = invites
    BY <1>6 DEF BeginUserChange, ReadUser, CountOwners, WriteUser, Revoke, BeginLogin, Issue,
       BeginPassword, SetPassword, RevokeOthers
  <2>2. op'[o].pc \notin {"invite", "check", "create"}
    <3>1. CASE BeginUserChange(o)
      <4>1. PICK kind \in {"role", "disable", "enable", "delete"}, t \in Tokens,
                 u \in Ids, r \in Roles :
              /\ Begin(o, kind, t, IF kind \in {"role", "delete"} THEN "owner" ELSE "admin")
              /\ kind = "role" => AtLeast(users[sessions[t].user].role, r)
              /\ kind # "role" => r = "member"
              /\ Exists(u)
              /\ op' = [op EXCEPT ![o].pc = IF kind = "enable" THEN "write" ELSE "read",
                                  ![o].kind = kind, ![o].target = u, ![o].role = r]
        BY <3>1, Zenon DEF BeginUserChange
      <4> QED
        BY <1>0, <4>1 DEF TypeOK, Request
    <3>2. CASE BeginLogin(o)
      <4>1. PICK u \in Ids :
              op' = [op EXCEPT ![o].pc = "issue", ![o].target = u, ![o].pass = users[u].pass]
        BY <3>2, Zenon DEF BeginLogin
      <4> QED
        BY <1>0, <4>1 DEF TypeOK, Request
    <3>3. CASE BeginPassword(o)
      <4>1. PICK t \in Tokens :
              op' = [op EXCEPT ![o].pc = "setpass", ![o].kind = "password",
                               ![o].target = sessions[t].user, ![o].token = t,
                               ![o].pass = users[sessions[t].user].pass + 1]
        BY <3>3, Zenon DEF BeginPassword
      <4> QED
        BY <1>0, <4>1 DEF TypeOK, Request
    <3>4. CASE ReadUser(o) \/ CountOwners(o) \/ WriteUser(o) \/ Revoke(o) \/ Issue(o)
               \/ SetPassword(o) \/ RevokeOthers(o)
      <4>1. Return(o) \/ Goto(o, "count") \/ Goto(o, "write") \/ Goto(o, "revoke") \/ Goto(o, "others")
        BY <3>4 DEF ReadUser, CountOwners, WriteUser, Revoke, Issue, SetPassword, RevokeOthers
      <4> QED
        BY <1>0, <4>1 DEF Return, Goto, Resting, TypeOK, Request
    <3> QED
      BY <1>6, <3>1, <3>2, <3>3, <3>4
  <2> QED
    BY <1>0, <2>1, <2>2, EmailsKept DEF EmailInv
<1> QED
  BY <1>1, <1>2, <1>3, <1>4, <1>5, <1>6 DEF Step

Revoking(u) == \E o \in Ops : At(o, "revoke") /\ op[o].target = u
Renewing(u) == \E o \in Ops : At(o, "others") /\ op[o].target = u

\* A session is of a user who is there, enabled and has its password, but for
\* the time between the two writes of a disable or of a password change.
Current(t) ==
    sessions[t].user # 0 =>
      /\ Exists(sessions[t].user)
      /\ Active(sessions[t].user) \/ Revoking(sessions[t].user)
      /\ sessions[t].pass = users[sessions[t].user].pass \/ Renewing(sessions[t].user)

\* What a request about to create a session, or to change a password, relies on.
Founded(o) ==
    /\ At(o, "issue") => Active(op[o].target) /\ op[o].pass = users[op[o].target].pass
    /\ At(o, "mark") => Active(op[o].target) /\ users[op[o].target].pass = 0
    /\ At(o, "others") => op[o].pass = users[op[o].target].pass
    /\ At(o, "setpass") => Exists(op[o].target)

SessionInv == Serial => (\A t \in Tokens : Current(t)) /\ (\A o \in Ops : Founded(o))

LEMMA InitSessions == Init => BusyServed /\ EmailInv /\ SessionInv
<1> SUFFICES ASSUME Init PROVE BusyServed /\ EmailInv /\ SessionInv
  OBVIOUS
<1>1. \A o \in Ops : op[o] = Resting /\ Resting.pc = "idle"
  BY DEF Init, Resting
<1>2. \A t \in Tokens : sessions[t].user = 0
  BY DEF Init, NoSession
<1>3. \A i \in Invites : invites[i].email \in Emails
  BY AccountsAssumption DEF Init, AccountsAssumption
<1> QED
  BY <1>1, <1>2, <1>3 DEF BusyServed, Busy, At, EmailInv, SessionInv, Current, Founded

LEMMA SerialStays == ASSUME duty' = duty PROVE Serial' <=> Serial
BY DEF Serial, AtMostOne, Serving, Uninterrupted

\* While requests come one after the other the rest is idle.
Alone(o) == \A p \in Ops : p # o => op[p].pc = "idle" /\ op'[p].pc = "idle"

LEMMA SerialAlone ==
    ASSUME TypeOK, BusyServed, Serial, NEW o \in Ops, Step(o) \/ Interrupt(o)
    PROVE  Alone(o) /\ ~Interrupt(o)
<1>1. o \in Serving(Kinds) /\ \A p \in Ops : p # o => op'[p] = op[p]
  BY StepServed DEF Serving
<1>2. \A p \in Ops : p # o => op[p].pc = "idle"
  BY <1>1 DEF BusyServed, Busy, At, Serial, AtMostOne, Serving
<1> QED
  BY <1>1, <1>2 DEF Alone, Serial, Interrupt, Uninterrupted

\* A step that leaves the sessions alone, and of the users what they rest on.
LEMMA SessionsSame ==
    ASSUME TypeOK, SessionInv, Serial, duty' = duty, NEW o \in Ops, Alone(o), sessions' = sessions,
           op[o].pc \notin {"revoke", "others"},
           \A u \in Ids : Exists(u) =>
             /\ Exists(u)'
             /\ Active(u) => Active(u)' \/ (op'[o].pc = "revoke" /\ op'[o].target = u)
             /\ users'[u].pass = users[u].pass \/ (op'[o].pc = "others" /\ op'[o].target = u),
           Founded(o)'
    PROVE  SessionInv'
<1>1. ASSUME NEW t \in Tokens, sessions[t].user # 0 PROVE Current(t)'
  <2> DEFINE u == sessions[t].user
  <2>1. u \in Ids /\ sessions'[t].user = u /\ sessions'[t].pass = sessions[t].pass
    BY <1>1 DEF TypeOK, Session
  <2>2. Exists(u) /\ ~Revoking(u) /\ ~Renewing(u)
    BY <1>1 DEF SessionInv, Current, Revoking, Renewing, At, Alone
  <2>3. Active(u) /\ sessions[t].pass = users[u].pass
    BY <1>1, <2>2 DEF SessionInv, Current
  <2> HIDE DEF u
  <2> QED
    BY <2>1, <2>2, <2>3 DEF Current, Revoking, Renewing, At
<1>2. \A t \in Tokens : Current(t)'
  BY <1>1 DEF Current
<1>3. \A p \in Ops : p # o => Founded(p)'
  BY DEF Alone, Founded, At
<1> QED
  BY <1>2, <1>3 DEF SessionInv

\* Those that leave the users alone as well.
LEMMA SessionsIdle ==
    ASSUME TypeOK, SessionInv, Serial, duty' = duty, NEW o \in Ops, Alone(o),
           sessions' = sessions, users' = users,
           op[o].pc \notin {"revoke", "others"}, Founded(o)'
    PROVE  SessionInv'
<1>1. \A u \in Ids : Exists(u)' = Exists(u) /\ Active(u)' = Active(u)
  BY DEF Exists, Active
<1> QED
  BY <1>1, SessionsSame, Zenon

\* A step that ends sessions, of all whose user it changes at least, and returns.
LEMMA SessionsEnd ==
    ASSUME TypeOK, SessionInv, Serial, duty' = duty, NEW o \in Ops, Alone(o), Return(o), NEW u \in Ids,
           \A v \in Ids : v # u => users'[v] = users[v],
           \A t \in Tokens : sessions'[t].user # 0 => sessions'[t] = sessions[t] /\ sessions[t].user # u,
           op[o].pc \in {"revoke", "others"} => op[o].target = u
    PROVE  SessionInv'
<1>1. ASSUME NEW t \in Tokens, sessions'[t].user # 0 PROVE Current(t)'
  <2> DEFINE v == sessions[t].user
  <2>1. v # 0 /\ v \in Ids /\ v # u /\ sessions'[t] = sessions[t] /\ users'[v] = users[v]
    BY <1>1 DEF TypeOK, Session
  <2>2. ~Revoking(v) /\ ~Renewing(v)
    BY <2>1 DEF Revoking, Renewing, At, Alone
  <2>3. Exists(v) /\ Active(v) /\ sessions[t].pass = users[v].pass
    BY <2>1, <2>2 DEF SessionInv, Current
  <2> HIDE DEF v
  <2> QED
    BY <2>1, <2>3 DEF Current, Exists, Active, v
<1>2. op'[o].pc = "idle"
  BY DEF Return, Resting, TypeOK
<1>3. \A p \in Ops : Founded(p)'
  BY <1>2 DEF Alone, Founded, At
<1>4. \A t \in Tokens : Current(t)'
  BY <1>1 DEF Current
<1> QED
  BY <1>3, <1>4 DEF SessionInv

LEMMA SessionsIssued ==
    ASSUME TypeOK, SessionInv, Serial, duty' = duty, NEW o \in Ops, Alone(o), Issue(o)
    PROVE  SessionInv'
<1>1. op[o].pc = "issue" /\ op'[o].pc = "idle" /\ users' = users /\ op[o].target \in Ids
  BY DEF Issue, At, Return, Resting, TypeOK, Request
<1>2. Active(op[o].target) /\ op[o].pass = users[op[o].target].pass
  BY <1>1 DEF SessionInv, Founded, At
<1>3. \A t \in Tokens : sessions'[t] = sessions[t] \/ sessions'[t] = [user |-> op[o].target, pass |-> op[o].pass]
  BY DEF Issue, TypeOK
<1>4. \A u \in Ids : Exists(u)' = Exists(u) /\ Active(u)' = Active(u) /\ ~Revoking(u) /\ ~Renewing(u)
  BY <1>1 DEF Exists, Active, Revoking, Renewing, At, Alone
<1>5. ASSUME NEW t \in Tokens, sessions'[t].user # 0 PROVE Current(t)'
  <2>1. CASE sessions'[t] = sessions[t]
    <3>1. sessions[t].user \in Ids /\ Current(t)
      BY <1>5, <2>1 DEF TypeOK, Session, SessionInv
    <3> QED
      BY <1>1, <1>4, <1>5, <2>1, <3>1 DEF Current
  <2>2. CASE sessions'[t] = [user |-> op[o].target, pass |-> op[o].pass]
    <3>1. sessions'[t].user = op[o].target /\ sessions'[t].pass = op[o].pass
      BY <2>2
    <3> QED
      BY <1>1, <1>2, <1>4, <3>1 DEF Current, Active
  <2> QED
    BY <1>3, <2>1, <2>2
<1>6. \A p \in Ops : Founded(p)'
  BY <1>1 DEF Alone, Founded, At
<1>7. \A t \in Tokens : Current(t)'
  BY <1>5 DEF Current
<1> QED
  BY <1>6, <1>7 DEF SessionInv

\* A password change ends with its own session, which has the new password.
LEMMA SessionsRenewed ==
    ASSUME TypeOK, SessionInv, Serial, duty' = duty, NEW o \in Ops, Alone(o), RevokeOthers(o)
    PROVE  SessionInv'
<1> DEFINE u == op[o].target
<1>1. op[o].pc = "others" /\ op'[o].pc = "idle" /\ users' = users
  BY DEF RevokeOthers, At, Return, Resting, TypeOK
<1>2. op[o].pass = users[u].pass
  BY <1>1 DEF SessionInv, Founded, At
<1>3. \A t \in Tokens :
        \/ sessions'[t] = sessions[t] /\ sessions[t].user # u
        \/ sessions'[t] = [sessions[t] EXCEPT !.pass = op[o].pass] /\ sessions[t].user = u
        \/ sessions'[t] = NoSession
  BY DEF RevokeOthers, TypeOK
<1>4. \A v : ~Revoking(v) /\ (Renewing(v) => v = u)
  BY <1>1 DEF Revoking, Renewing, At, Alone
<1>5. \A v \in Ids : Exists(v)' = Exists(v) /\ Active(v)' = Active(v)
  BY <1>1 DEF Exists, Active
<1> HIDE DEF u
<1>6. ASSUME NEW t \in Tokens, sessions'[t].user # 0 PROVE Current(t)'
  <2>1. CASE sessions'[t] = sessions[t] /\ sessions[t].user # u
    <3>1. sessions[t].user \in Ids /\ Current(t)
      BY <1>6, <2>1 DEF TypeOK, Session, SessionInv
    <3> QED
      BY <1>1, <1>4, <1>5, <1>6, <2>1, <3>1 DEF Current
  <2>2. CASE sessions'[t] = [sessions[t] EXCEPT !.pass = op[o].pass] /\ sessions[t].user = u
    <3>1. sessions'[t].user = u /\ sessions'[t].pass = op[o].pass
      BY <2>2 DEF TypeOK, Session
    <3>2. u \in Ids /\ Current(t)
      BY <1>6, <2>2, <3>1 DEF TypeOK, Session, SessionInv
    <3> QED
      BY <1>1, <1>2, <1>4, <1>5, <1>6, <2>2, <3>1, <3>2 DEF Current
  <2> QED
    BY <1>3, <1>6, <2>1, <2>2 DEF NoSession
<1>7. \A p \in Ops : Founded(p)'
  BY <1>1 DEF Alone, Founded, At
<1>8. \A t \in Tokens : Current(t)'
  BY <1>6 DEF Current
<1> QED
  BY <1>7, <1>8 DEF SessionInv

LEMMA UserChangeSessions ==
    ASSUME TypeOK, SessionInv, Serial, duty' = duty, NEW o \in Ops, Alone(o),
           BeginUserChange(o) \/ ReadUser(o) \/ CountOwners(o) \/ WriteUser(o)
             \/ Revoke(o) \/ DeleteUser(o)
    PROVE  SessionInv'
<1>0. op[o] \in Request /\ op[o].target \in Ids
  BY DEF TypeOK, Request
<1>1. CASE BeginUserChange(o)
  <2>1. PICK kind \in {"role", "disable", "enable", "delete"}, t \in Tokens,
             u \in Ids, r \in Roles :
          /\ Begin(o, kind, t, IF kind \in {"role", "delete"} THEN "owner" ELSE "admin")
          /\ kind = "role" => AtLeast(users[sessions[t].user].role, r)
          /\ kind # "role" => r = "member"
          /\ Exists(u)
          /\ op' = [op EXCEPT ![o].pc = IF kind = "enable" THEN "write" ELSE "read",
                              ![o].kind = kind, ![o].target = u, ![o].role = r]
    BY <1>1, Zenon DEF BeginUserChange
  <2>2. op[o].pc = "idle" /\ op'[o].pc \in {"read", "write"}
    BY <1>0, <2>1 DEF Begin, At, TypeOK, Request
  <2> QED
    BY <1>1, <2>2, SessionsIdle DEF BeginUserChange, Founded, At
<1>2. CASE ReadUser(o) \/ CountOwners(o)
  <2>1. op[o].pc \in {"read", "count"} /\ (Return(o) \/ Goto(o, "count") \/ Goto(o, "write"))
    BY <1>2 DEF ReadUser, CountOwners, At
  <2>2. op'[o].pc \in {"idle", "count", "write"}
    BY <1>0, <2>1 DEF Return, Goto, Resting, TypeOK, Request
  <2> QED
    BY <1>2, <2>1, <2>2, SessionsIdle DEF ReadUser, CountOwners, Founded, At
<1>3. CASE WriteUser(o)
  <2>1. /\ op[o].pc = "write" /\ sessions' = sessions
        /\ IF op[o].kind = "disable" THEN op'[o].pc = "revoke" /\ op'[o].target = op[o].target
                                     ELSE op'[o].pc = "idle"
    BY <1>0, <1>3 DEF WriteUser, At, Return, Goto, Resting, TypeOK, Request
  <2>2. ASSUME NEW u \in Ids, Exists(u)
        PROVE  /\ Exists(u)'
               /\ Active(u) => Active(u)' \/ (op'[o].pc = "revoke" /\ op'[o].target = u)
               /\ users'[u].pass = users[u].pass
    <3>1. \/ users'[u] = users[u]
          \/ u = op[o].target /\ op[o].kind = "role" /\ users'[u] = [users[u] EXCEPT !.role = op[o].role]
          \/ u = op[o].target /\ op[o].kind = "disable" /\ users'[u] = [users[u] EXCEPT !.disabled = TRUE]
          \/ u = op[o].target /\ op[o].kind = "enable" /\ users'[u] = [users[u] EXCEPT !.disabled = FALSE]
      BY <1>0, <1>3 DEF WriteUser, TypeOK
    <3> QED
      BY <2>1, <2>2, <3>1 DEF Exists, Active, TypeOK, User
  <2>3. Founded(o)'
    BY <2>1 DEF Founded, At
  <2> QED
    BY <2>1, <2>2, <2>3, SessionsSame
<1>4. CASE Revoke(o)
  <2>1. \A t \in Tokens : sessions'[t].user # 0 => sessions'[t] = sessions[t] /\ sessions[t].user # op[o].target
    BY <1>4 DEF Revoke, NoSession
  <2> QED
    BY <1>0, <1>4, <2>1, SessionsEnd DEF Revoke
<1>5. CASE DeleteUser(o)
  <2>1. \A t \in Tokens : sessions'[t].user # 0 => sessions'[t] = sessions[t] /\ sessions[t].user # op[o].target
    BY <1>5 DEF DeleteUser, NoSession
  <2>2. \A v \in Ids : v # op[o].target => users'[v] = users[v]
    BY <1>0, <1>5 DEF DeleteUser, TypeOK
  <2>3. op[o].pc = "write" /\ Return(o)
    BY <1>5 DEF DeleteUser, At
  <2> QED
    BY <1>0, <2>1, <2>2, <2>3, SessionsEnd
<1> QED
  BY <1>1, <1>2, <1>3, <1>4, <1>5

LEMMA SessionSteps ==
    ASSUME TypeOK, SessionInv, Serial, duty' = duty, NEW o \in Ops, Alone(o),
           BeginLogin(o) \/ Issue(o) \/ BeginPassword(o) \/ SetPassword(o) \/ RevokeOthers(o)
    PROVE  SessionInv'
<1>0. op[o] \in Request /\ op[o].target \in Ids /\ op[o].pass \in 0 .. MaxPass
  BY DEF TypeOK, Request
<1>1. CASE BeginLogin(o)
  <2>1. PICK u \in {v \in Ids : Active(v)} :
          op' = [op EXCEPT ![o].pc = "issue", ![o].target = u, ![o].pass = users[u].pass]
    BY <1>1 DEF BeginLogin
  <2>2. op[o].pc = "idle" /\ op'[o].pc = "issue" /\ op'[o].target = u /\ op'[o].pass = users[u].pass
    BY <1>0, <1>1, <2>1 DEF BeginLogin, At, TypeOK, Request
  <2>3. users' = users /\ sessions' = sessions
    BY <1>1 DEF BeginLogin
  <2>4. Founded(o)'
    BY <2>1, <2>2, <2>3 DEF Founded, At, Active, Exists
  <2> QED
    BY <2>2, <2>3, <2>4, SessionsIdle
<1>2. CASE Issue(o)
  BY <1>2, SessionsIssued
<1>3. CASE BeginPassword(o)
  <2>1. PICK t \in Tokens :
          /\ Begin(o, "password", t, "member")
          /\ op' = [op EXCEPT ![o].pc = "setpass", ![o].kind = "password",
                           ![o].target = sessions[t].user, ![o].token = t,
                           ![o].pass = users[sessions[t].user].pass + 1]
    BY <1>3 DEF BeginPassword
  <2>2. op[o].pc = "idle" /\ op'[o].pc = "setpass" /\ op'[o].target = sessions[t].user
    BY <1>0, <2>1 DEF Begin, At, TypeOK, Request
  <2>3. users' = users /\ sessions' = sessions /\ Exists(sessions[t].user)
    BY <1>3, <2>1 DEF BeginPassword, Begin, Authenticates, Active
  <2>4. Founded(o)'
    BY <2>2, <2>3 DEF Founded, At, Exists
  <2> QED
    BY <2>2, <2>3, <2>4, SessionsIdle
<1>4. CASE SetPassword(o)
  <2>1. /\ op[o].pc = "setpass" /\ op'[o].pc = "others" /\ sessions' = sessions
        /\ op'[o].target = op[o].target /\ op'[o].pass = op[o].pass
    BY <1>0, <1>4 DEF SetPassword, At, Goto, TypeOK, Request
  <2>2. Exists(op[o].target)
    BY <2>1 DEF SessionInv, Founded, At
  <2>3. \A u \in Ids : users'[u] = IF u = op[o].target THEN [users[u] EXCEPT !.pass = op[o].pass] ELSE users[u]
    BY <1>4, <2>2 DEF SetPassword, TypeOK
  <2>4. ASSUME NEW u \in Ids
        PROVE  /\ users'[u].email = users[u].email /\ users'[u].disabled = users[u].disabled
               /\ users'[u].pass = IF u = op[o].target THEN op[o].pass ELSE users[u].pass
    BY <2>3 DEF TypeOK, User
  <2>5. \A u \in Ids : Exists(u)' = Exists(u) /\ Active(u)' = Active(u)
    BY <2>4 DEF Exists, Active
  <2>6. Founded(o)'
    BY <1>0, <2>1, <2>4 DEF Founded, At
  <2> QED
    BY <2>1, <2>4, <2>5, <2>6, SessionsSame
<1>5. CASE RevokeOthers(o)
  BY <1>5, SessionsRenewed
<1> QED
  BY <1>1, <1>2, <1>3, <1>4, <1>5

LEMMA InviteSessions ==
    ASSUME TypeOK, SessionInv, EmailInv, Serial, duty' = duty, NEW o \in Ops, Alone(o),
           BeginInvite(o) \/ CreateInvite(o) \/ BeginAccept(o) \/ CheckEmail(o)
             \/ CreateUser(o) \/ MarkAccepted(o)
    PROVE  SessionInv'
<1>0. op[o] \in Request /\ op[o].target \in Ids
  BY DEF TypeOK, Request
<1>1. CASE BeginInvite(o)
  <2>1. PICK t \in Tokens, r \in Roles, e \in Emails :
          /\ Begin(o, "invite", t, "admin")
          /\ op' = [op EXCEPT ![o].pc = "invite", ![o].kind = "invite",
                           ![o].target = sessions[t].user, ![o].role = r, ![o].email = e]
    BY <1>1, Zenon DEF BeginInvite
  <2>2. op[o].pc = "idle" /\ op'[o].pc = "invite"
    BY <1>0, <2>1 DEF Begin, At, TypeOK, Request
  <2> QED
    BY <1>1, <2>2, SessionsIdle DEF BeginInvite, Founded, At
<1>2. CASE BeginAccept(o)
  <2>1. PICK i \in Invites :
          op' = [op EXCEPT ![o].pc = "check", ![o].kind = "accept", ![o].inv = i,
                           ![o].email = invites[i].email, ![o].role = invites[i].role]
    BY <1>2 DEF BeginAccept
  <2>2. op[o].pc = "idle" /\ op'[o].pc = "check"
    BY <1>0, <1>2, <2>1 DEF BeginAccept, At, TypeOK, Request
  <2> QED
    BY <1>2, <2>2, SessionsIdle DEF BeginAccept, Founded, At
<1>3. CASE CreateInvite(o) \/ CheckEmail(o)
  <2>1. op[o].pc \in {"invite", "check"} /\ (Return(o) \/ Goto(o, "create"))
    BY <1>3 DEF CreateInvite, CheckEmail, At
  <2>2. op'[o].pc \in {"idle", "create"}
    BY <1>0, <2>1 DEF Return, Goto, Resting, TypeOK, Request
  <2> QED
    BY <1>3, <2>1, <2>2, SessionsIdle DEF CreateInvite, CheckEmail, Founded, At
<1>4. CASE CreateUser(o)
  <2>1. CASE users' = users /\ Return(o)
    <3>1. op[o].pc = "create" /\ op'[o].pc = "idle"
      BY <1>4, <2>1 DEF CreateUser, At, Return, Resting, TypeOK
    <3> QED
      BY <1>4, <2>1, <3>1, SessionsIdle DEF CreateUser, Founded, At
  <2>2. CASE ~(users' = users /\ Return(o))
    <3>1. PICK u \in Ids :
            /\ IsNextId(u)
            /\ users' = [users EXCEPT ![u] = [NoUser EXCEPT !.email = op[o].email, !.role = op[o].role]]
            /\ op' = [op EXCEPT ![o].pc = "mark", ![o].target = u]
      BY <1>4, <2>2 DEF CreateUser
    <3>2. /\ op[o].pc = "create" /\ op'[o].pc = "mark" /\ op'[o].target = u /\ sessions' = sessions
      BY <1>0, <1>4, <3>1 DEF CreateUser, At, TypeOK, Request
    <3>3. /\ \A v \in Ids : v # u => users'[v] = users[v]
          /\ users'[u].email = op[o].email /\ users'[u].disabled = FALSE /\ users'[u].pass = 0
      BY <3>1 DEF TypeOK, NoUser
    <3>4. ~Exists(u)
      BY <3>1 DEF IsNextId, Ids
    <3>5. op[o].email # None
      BY <3>2, AccountsAssumption DEF EmailInv, AccountsAssumption
    <3>6. Founded(o)'
      BY <3>2, <3>3, <3>5 DEF Founded, At, Active, Exists
    <3>7. \A v \in Ids : Exists(v) =>
             Exists(v)' /\ (Active(v) => Active(v)') /\ users'[v].pass = users[v].pass
      BY <3>3, <3>4 DEF Exists, Active
    <3> QED
      BY <3>2, <3>6, <3>7, SessionsSame
  <2> QED
    BY <2>1, <2>2
<1>5. CASE MarkAccepted(o)
  <2>1. /\ op[o].pc = "mark" /\ op'[o].pc = "issue" /\ op'[o].target = op[o].target /\ op'[o].pass = 0
        /\ sessions' = sessions /\ users' = users
    BY <1>0, <1>5 DEF MarkAccepted, At, TypeOK, Request
  <2>2. Active(op[o].target) /\ users[op[o].target].pass = 0
    BY <2>1 DEF SessionInv, Founded, At
  <2>3. Founded(o)'
    BY <2>1, <2>2 DEF Founded, At, Active, Exists
  <2> QED
    BY <2>1, <2>3, SessionsIdle
<1> QED
  BY <1>1, <1>2, <1>3, <1>4, <1>5

\* Logout and expiry.
LEMMA EndSessionKeeps ==
    ASSUME TypeOK, SessionInv, duty' = duty, NEW t \in Tokens, EndSession(t) PROVE SessionInv'
<1>1. /\ users' = users /\ op' = op
      /\ \A s \in Tokens : sessions'[s] = sessions[s] \/ sessions'[s].user = 0
  BY DEF EndSession, TypeOK, NoSession
<1>2. ASSUME Serial, NEW s \in Tokens PROVE Current(s)'
  BY <1>1, <1>2 DEF SessionInv, Current, Exists, Active, Revoking, Renewing, At
<1>3. \A o \in Ops : Founded(o)' <=> Founded(o)
  BY <1>1 DEF Founded, At, Exists, Active
<1> QED
  BY <1>2, <1>3, SerialStays DEF SessionInv

SessionsInv == BusyServed /\ EmailInv /\ SessionInv

LEMMA SessionsInvariant == TypeOK /\ SessionsInv /\ [Next]_vars => SessionsInv'
<1> SUFFICES ASSUME TypeOK, BusyServed, EmailInv, SessionInv, [Next]_vars PROVE SessionsInv'
  BY DEF SessionsInv
<1>1. CASE \E o \in Ops : duty' = duty /\ (Step(o) \/ Interrupt(o))
  <2>1. PICK o \in Ops : duty' = duty /\ (Step(o) \/ Interrupt(o))
    BY <1>1
  <2>2. BusyServed'
    BY <2>1, StepServed DEF BusyServed, Busy, At
  <2>3. EmailInv'
    BY <2>1, EmailSteps
  <2>4. CASE Serial
    <3>1. Alone(o) /\ Step(o)
      BY <2>1, <2>4, SerialAlone
    <3> QED
      BY <2>1, <2>2, <2>3, <2>4, <3>1, UserChangeSessions, SessionSteps, InviteSessions
         DEF Step, SessionsInv
  <2>5. CASE ~Serial
    BY <2>1, <2>2, <2>3, <2>5, SerialStays DEF SessionsInv, SessionInv
  <2> QED
    BY <2>4, <2>5
<1>2. CASE duty' = duty /\ \E t \in Tokens : EndSession(t)
  <2>1. BusyServed' /\ EmailInv'
    BY <1>2 DEF EndSession, BusyServed, Busy, At, EmailInv
  <2> QED
    BY <1>2, <2>1, EndSessionKeeps DEF SessionsInv
<1>3. CASE (duty' = duty /\ \E i \in Invites : ExpireInvite(i)) \/ UNCHANGED vars
  <2>1. users' = users /\ sessions' = sessions /\ op' = op /\ duty' = duty
    BY <1>3 DEF ExpireInvite, vars
  <2>2. EmailInv'
    <3>1. \A i \in Invites : invites'[i].email = invites[i].email
      BY <1>3 DEF ExpireInvite, vars, TypeOK, Invite
    <3> QED
      BY <2>1, <3>1 DEF EmailInv
  <2>3. SessionInv' /\ BusyServed'
    BY <2>1, SerialStays DEF SessionInv, Current, Founded, Exists, Active, Revoking, Renewing, At, BusyServed, Busy
  <2> QED
    BY <2>2, <2>3 DEF SessionsInv
<1> QED
  BY <1>1, <1>2, <1>3 DEF Next

\* Between requests that come one after the other every session is of its
\* user's last password: a change of it revokes all but its own, and a reused id
\* inherits none.
THEOREM SessionsStayCurrent == Spec => []SessionsCurrent
<1>1. SessionsInv => SessionsCurrent
  BY DEF SessionsInv, SessionInv, SessionsCurrent, Current, Renewing, At
<1>2. Init => SessionsInv
  BY InitSessions DEF SessionsInv
<1> QED
  BY <1>1, <1>2, SessionsInvariant, AccountsTyping, PTL DEF Spec

\* "Existing sessions from before the disable are not restored": while requests
\* come one after the other, a session that does not authenticate only goes.
THEOREM RevokedForGood == Spec => RevokedStays
<1>1. TypeOK /\ SessionsInv /\ SessionsInv' /\ [Next]_vars =>
        [Serial => \A t \in Tokens :
           sessions[t].user # 0 /\ ~Authenticates(t) => ~Authenticates(t)']_vars
  <2> SUFFICES ASSUME TypeOK, SessionsInv, Next, Serial,
                      NEW t \in Tokens, sessions[t].user # 0, ~Authenticates(t), Authenticates(t)'
               PROVE  FALSE
    BY DEF vars
  <2>1. PICK r \in Ops : At(r, "revoke") /\ op[r].target = sessions[t].user
    BY DEF SessionsInv, SessionInv, Current, Authenticates, Revoking
  <2>2. CASE \E o \in Ops : Step(o) \/ Interrupt(o)
    <3>1. PICK o \in Ops : Step(o) \/ Interrupt(o)
      BY <2>2
    <3>2. o = r /\ Step(o)
      BY <2>1, <3>1, SerialAlone DEF SessionsInv, Alone, At
    <3>3. Revoke(r)
      BY <2>1, <3>2, Zenon DEF Step, At, BeginUserChange, ReadUser, CountOwners, WriteUser, Revoke, DeleteUser,
         BeginLogin, Issue, BeginPassword, SetPassword, RevokeOthers, BeginInvite, CreateInvite,
         BeginAccept, CheckEmail, CreateUser, MarkAccepted, Begin
    <3> QED
      BY <2>1, <3>3 DEF Revoke, Authenticates, NoSession
  <2>3. CASE (\E s \in Tokens : EndSession(s)) \/ (\E i \in Invites : ExpireInvite(i))
    <3>1. users' = users /\ (sessions'[t] = sessions[t] \/ sessions'[t] = NoSession)
      BY <2>3 DEF EndSession, ExpireInvite, TypeOK
    <3> QED
      BY <3>1 DEF Authenticates, Active, Exists, NoSession
  <2> QED
    BY <2>2, <2>3 DEF Next
<1>2. Init => SessionsInv
  BY InitSessions DEF SessionsInv
<1> QED
  BY <1>1, <1>2, SessionsInvariant, AccountsTyping, PTL DEF Spec, RevokedStays
=============================================================================
