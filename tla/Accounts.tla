------------------------------ MODULE Accounts ------------------------------
(***************************************************************************)
(* Accounts of an instance (internal/api: auth.go, users.go; their calls   *)
(* in internal/store): users and their roles, login sessions, invitations. *)
(* Requests run concurrently; each call to the store is one step, and no   *)
(* transaction spans the steps of a request.                               *)
(*                                                                         *)
(* Abstracted: a password is the number of changes before it; passwords    *)
(* and bodies are valid; "member" stands for the roles below admin, which  *)
(* may do the same here; expiry, logout and revoking one session are one   *)
(* step, as are the prune and the expiry of an invitation.                 *)
(***************************************************************************)
EXTENDS Integers, FiniteSets

CONSTANTS Emails, Admin,   \* addresses; that of the owner setup created
          None,            \* no address, token or invitation
          MaxUsers,        \* bound: ids of users
          MaxPass,         \* bound: password changes of a user
          Tokens,          \* session tokens
          Invites,         \* invitations
          Ops,             \* requests in progress, one for each goroutine
          Duties           \* which requests the goroutines may serve

\* "interrupted": the goroutine's requests may stop between two steps.
Kinds == {"login", "password", "invite", "accept", "role", "disable", "enable", "delete"}

ASSUME AccountsAssumption ==
    /\ Admin \in Emails
    /\ None \notin Emails
    /\ MaxUsers \in Nat \ {0}
    /\ MaxPass \in Nat
    /\ Duties \subseteq [Ops -> SUBSET (Kinds \cup {"interrupted"})]

Ids == 1 .. MaxUsers
Roles == {"member", "admin", "owner"}

\* authz.Rank: may a caller of role r do what takes at least the role floor,
\* or assign that role?
AtLeast(r, floor) ==
    \/ floor = "member"
    \/ floor = "admin" /\ r # "member"
    \/ r = "owner"

VARIABLES
    users,      \* the users table by id; a free id has no email
    sessions,   \* sessions by token, of user 0 if there is no row
    invites,    \* the invitations table
    made,       \* how many users an invitation has created
    op,         \* the requests: program counter and local variables
    duty        \* what each goroutine serves, chosen once for all

vars == <<users, sessions, invites, made, op, duty>>

User == [email : Emails \cup {None}, role : Roles, disabled : BOOLEAN, pass : 0 .. MaxPass]
NoUser == [email |-> None, role |-> "member", disabled |-> FALSE, pass |-> 0]

\* pass: the password its login verified, or its own request set.
Session == [user : Ids \cup {0}, pass : 0 .. MaxPass]
NoSession == [user |-> 0, pass |-> 0]

Invite == [state : {"new", "open", "accepted", "expired", "gone"},
           email : Emails \cup {None}, role : Roles, by : Ids]

Steps == {"idle", "read", "count", "write", "revoke", "setpass", "others",
          "invite", "check", "create", "mark", "issue"}

\* Local variables of a request: the user it is about, the role or the
\* password it has, its own token, its invitation.
Request == [pc : Steps, kind : Kinds, target : Ids, role : Roles,
            pass : 0 .. MaxPass, token : Tokens \cup {None}, inv : Invites \cup {None},
            email : Emails \cup {None}]

Resting == [pc |-> "idle", kind |-> "login", target |-> 1, role |-> "member",
            pass |-> 0, token |-> None, inv |-> None, email |-> None]

Exists(u) == users[u].email # None
Active(u) == Exists(u) /\ ~users[u].disabled
ActiveOwners == {u \in Ids : Active(u) /\ users[u].role = "owner"}

\* UserBySessionTokenHash
Authenticates(t) == sessions[t].user # 0 /\ Active(sessions[t].user)

\* After setup: one owner, who has not logged in.
Init ==
    /\ users = [u \in Ids |-> IF u = 1 THEN [NoUser EXCEPT !.email = Admin, !.role = "owner"]
                              ELSE NoUser]
    /\ sessions = [t \in Tokens |-> NoSession]
    /\ invites \in [Invites -> {[state |-> "new", email |-> Admin, role |-> "member", by |-> 1]}]
    /\ made = [i \in Invites |-> 0]
    /\ op = [o \in Ops |-> Resting]
    /\ duty \in Duties

At(o, s) == op[o].pc = s
Goto(o, s) == op' = [op EXCEPT ![o].pc = s]
Return(o) == op' = [op EXCEPT ![o] = Resting]

\* requireAuth and requireCapability
Begin(o, kind, t, floor) ==
    /\ At(o, "idle")
    /\ kind \in duty[o]
    /\ Authenticates(t)
    /\ AtLeast(users[sessions[t].user].role, floor)

----------------------------------------------------------------------------
(* Users: SetUserRole, DisableUser, EnableUser and DeleteUser *)

\* The handler looks the target up by its email and goes on with its id.
BeginUserChange(o) ==
    /\ \E kind \in {"role", "disable", "enable", "delete"}, t \in Tokens, u \in Ids, r \in Roles :
        /\ Begin(o, kind, t, IF kind \in {"role", "delete"} THEN "owner" ELSE "admin")
        /\ kind = "role" => AtLeast(users[sessions[t].user].role, r)
        /\ kind # "role" => r = "member"
        /\ Exists(u)
        /\ op' = [op EXCEPT ![o].pc = IF kind = "enable" THEN "write" ELSE "read",
                         ![o].kind = kind, ![o].target = u, ![o].role = r]
    /\ UNCHANGED <<users, sessions, invites, made>>

\* Does the change take the owner role of the user as it is now away?
Demotes(o) == /\ users[op[o].target].role = "owner"
              /\ op[o].kind = "role" => op[o].role # "owner"

\* UserByID
ReadUser(o) ==
    /\ At(o, "read")
    /\ \/ ~Exists(op[o].target) /\ Return(o)
       \/ Exists(op[o].target) /\ Goto(o, IF Demotes(o) THEN "count" ELSE "write")
    /\ UNCHANGED <<users, sessions, invites, made>>

\* Variant: zero instead of one.
CountOwners_Zero(o) ==
    /\ At(o, "count")
    /\ IF Cardinality(ActiveOwners) <= 0 THEN Return(o) ELSE Goto(o, "write")
    /\ UNCHANGED <<users, sessions, invites, made>>

\* countActiveOwners and ErrLastOwner
CountOwners(o) ==
    /\ At(o, "count")
    /\ IF Cardinality(ActiveOwners) <= 1 THEN Return(o) ELSE Goto(o, "write")
    /\ UNCHANGED <<users, sessions, invites, made>>

\* Variant: sessions are not deleted with a user that is disabled.
WriteUser_NoRevoke(o) ==
    LET u == op[o].target IN
    /\ At(o, "write")
    /\ op[o].kind \in {"role", "disable", "enable"}
    /\ users' = IF ~Exists(u) THEN users
                ELSE IF op[o].kind = "role" THEN [users EXCEPT ![u].role = op[o].role]
                ELSE [users EXCEPT ![u].disabled = (op[o].kind = "disable")]
    /\ Return(o)
    /\ UNCHANGED <<sessions, invites, made>>

\* UPDATE users: on a deleted user it changes nothing and reports no error.
WriteUser(o) ==
    LET u == op[o].target IN
    /\ At(o, "write")
    /\ op[o].kind \in {"role", "disable", "enable"}
    /\ users' = IF ~Exists(u) THEN users
                ELSE IF op[o].kind = "role" THEN [users EXCEPT ![u].role = op[o].role]
                ELSE [users EXCEPT ![u].disabled = (op[o].kind = "disable")]
    /\ IF op[o].kind = "disable" THEN Goto(o, "revoke") ELSE Return(o)
    /\ UNCHANGED <<sessions, invites, made>>

\* DELETE FROM sessions of the disabled user
Revoke(o) ==
    /\ At(o, "revoke")
    /\ sessions' = [t \in Tokens |->
                      IF sessions[t].user = op[o].target THEN NoSession ELSE sessions[t]]
    /\ Return(o)
    /\ UNCHANGED <<users, invites, made>>

\* DELETE FROM users cascades to the user's sessions and to the invitations
\* it created.
DeleteUser(o) ==
    LET u == op[o].target IN
    /\ At(o, "write")
    /\ op[o].kind = "delete"
    /\ users' = [users EXCEPT ![u] = NoUser]
    /\ sessions' = [t \in Tokens |-> IF sessions[t].user = u THEN NoSession ELSE sessions[t]]
    /\ invites' = [i \in Invites |->
                     IF invites[i].state # "new" /\ invites[i].by = u
                     THEN [invites[i] EXCEPT !.state = "gone"] ELSE invites[i]]
    /\ Return(o)
    /\ UNCHANGED made

----------------------------------------------------------------------------
(* Sessions *)

\* handleLogin verified the password and saw the user enabled.
BeginLogin(o) ==
    /\ At(o, "idle")
    /\ "login" \in duty[o]
    /\ \E u \in {v \in Ids : Active(v)} :
          op' = [op EXCEPT ![o].pc = "issue", ![o].target = u, ![o].pass = users[u].pass]
    /\ UNCHANGED <<users, sessions, invites, made>>

\* CreateSession: the token is new, and the user must exist. (Bound: a free
\* token, or the row of a session is not followed.)
Issue(o) ==
    LET u == op[o].target IN
    /\ At(o, "issue")
    /\ \/ \E t \in Tokens :
            /\ Exists(u)
            /\ sessions[t].user = 0
            /\ sessions' = [sessions EXCEPT ![t] = [user |-> u, pass |-> op[o].pass]]
       \/ (~Exists(u) \/ \A t \in Tokens : sessions[t].user # 0) /\ UNCHANGED sessions
    /\ Return(o)
    /\ UNCHANGED <<users, invites, made>>

\* Logout, revoking one session, expiry.
EndSession(t) ==
    /\ sessions[t].user # 0
    /\ sessions' = [sessions EXCEPT ![t] = NoSession]
    /\ UNCHANGED <<users, invites, made, op>>

\* handleChangePassword verified the current password.
BeginPassword(o) ==
    /\ \E t \in Tokens :
        /\ Begin(o, "password", t, "member")
        /\ users[sessions[t].user].pass < MaxPass
        /\ op' = [op EXCEPT ![o].pc = "setpass", ![o].kind = "password",
                         ![o].target = sessions[t].user, ![o].token = t,
                         ![o].pass = users[sessions[t].user].pass + 1]
    /\ UNCHANGED <<users, sessions, invites, made>>

\* UpdatePassword
SetPassword(o) ==
    LET u == op[o].target IN
    /\ At(o, "setpass")
    /\ users' = IF Exists(u) THEN [users EXCEPT ![u].pass = op[o].pass] ELSE users
    /\ Goto(o, "others")
    /\ UNCHANGED <<sessions, invites, made>>

\* Variant: the other way round.
RevokeOthers_Own(o) ==
    /\ At(o, "others")
    /\ sessions' = [t \in Tokens |->
         IF t = op[o].token THEN NoSession ELSE sessions[t]]
    /\ Return(o)
    /\ UNCHANGED <<users, invites, made>>

\* DeleteSessionsExcept: the request's own session is kept.
RevokeOthers(o) ==
    /\ At(o, "others")
    /\ sessions' = [t \in Tokens |->
         IF sessions[t].user # op[o].target THEN sessions[t]
         ELSE IF t = op[o].token THEN [sessions[t] EXCEPT !.pass = op[o].pass]
         ELSE NoSession]
    /\ Return(o)
    /\ UNCHANGED <<users, invites, made>>

----------------------------------------------------------------------------
(* Invitations *)

HasUser(e) == \E u \in Ids : users[u].email = e

\* handleInviteUser, up to CreateInvitation.
BeginInvite(o) ==
    /\ \E t \in Tokens, r \in Roles, e \in Emails :
        /\ Begin(o, "invite", t, "admin")
        /\ AtLeast(users[sessions[t].user].role, r)
        /\ ~HasUser(e)
        /\ op' = [op EXCEPT ![o].pc = "invite", ![o].kind = "invite",
                         ![o].target = sessions[t].user, ![o].role = r, ![o].email = e]
    /\ UNCHANGED <<users, sessions, invites, made>>

\* CreateInvitation: the inviting user must exist. (Bound: Invites.)
CreateInvite(o) ==
    /\ At(o, "invite")
    /\ \/ \E i \in Invites :
            /\ Exists(op[o].target)
            /\ invites[i].state = "new"
            /\ invites' = [invites EXCEPT ![i] = [state |-> "open", email |-> op[o].email,
                                                  role |-> op[o].role, by |-> op[o].target]]
       \/ /\ ~Exists(op[o].target) \/ \A i \in Invites : invites[i].state # "new"
          /\ UNCHANGED invites
    /\ Return(o)
    /\ UNCHANGED <<users, sessions, made>>

ExpireInvite(i) ==
    /\ invites[i].state = "open"
    /\ invites' = [invites EXCEPT ![i].state = "expired"]
    /\ UNCHANGED <<users, sessions, made, op>>

\* Variant: accepted_at is not looked at.
BeginAccept_Accepted(o) ==
    /\ At(o, "idle")
    /\ "accept" \in duty[o]
    /\ \E i \in Invites :
        /\ invites[i].state \in {"open", "accepted"}
        /\ op' = [op EXCEPT ![o].pc = "check", ![o].kind = "accept", ![o].inv = i,
                         ![o].email = invites[i].email, ![o].role = invites[i].role]
    /\ UNCHANGED <<users, sessions, invites, made>>

\* handleAcceptInvite reads the invitation: neither accepted nor expired.
BeginAccept(o) ==
    /\ At(o, "idle")
    /\ "accept" \in duty[o]
    /\ \E i \in Invites :
        /\ invites[i].state = "open"
        /\ op' = [op EXCEPT ![o].pc = "check", ![o].kind = "accept", ![o].inv = i,
                         ![o].email = invites[i].email, ![o].role = invites[i].role]
    /\ UNCHANGED <<users, sessions, invites, made>>

\* UserByEmail, then the password is hashed.
CheckEmail(o) ==
    /\ At(o, "check")
    /\ IF HasUser(op[o].email) THEN Return(o) ELSE Goto(o, "create")
    /\ UNCHANGED <<users, sessions, invites, made>>

\* SQLite gives the greatest id in use plus one, so that of the last user is
\* used again once it is deleted.
IsNextId(u) == /\ \A v \in Ids : Exists(v) => v < u
               /\ u > 1 => Exists(u - 1)

\* CreateUserWithRole; users.email is UNIQUE. (Bound: Ids.)
CreateUser(o) ==
    /\ At(o, "create")
    /\ \/ \E u \in Ids :
            /\ ~HasUser(op[o].email)
            /\ IsNextId(u)
            /\ users' = [users EXCEPT ![u] = [NoUser EXCEPT !.email = op[o].email,
                                                            !.role = op[o].role]]
            /\ made' = [made EXCEPT ![op[o].inv] = 1 + @]
            /\ op' = [op EXCEPT ![o].pc = "mark", ![o].target = u]
       \/ /\ HasUser(op[o].email) \/ ~\E u \in Ids : IsNextId(u)
          /\ Return(o)
          /\ UNCHANGED <<users, made>>
    /\ UNCHANGED <<sessions, invites>>

\* AcceptInvitation; on a deleted invitation it changes nothing.
MarkAccepted(o) ==
    LET i == op[o].inv IN
    /\ At(o, "mark")
    /\ invites' = IF invites[i].state = "gone" THEN invites
                  ELSE [invites EXCEPT ![i].state = "accepted"]
    /\ op' = [op EXCEPT ![o].pc = "issue", ![o].pass = 0]
    /\ UNCHANGED <<users, sessions, made>>

----------------------------------------------------------------------------
\* A store call fails, or the process dies, between two steps of a request.
Interrupt(o) ==
    /\ "interrupted" \in duty[o]
    /\ ~At(o, "idle")
    /\ Return(o)
    /\ UNCHANGED <<users, sessions, invites, made>>

Step(o) ==
    \/ BeginUserChange(o) \/ ReadUser(o) \/ CountOwners(o) \/ WriteUser(o) \/ Revoke(o)
    \/ DeleteUser(o)
    \/ BeginLogin(o) \/ Issue(o)
    \/ BeginPassword(o) \/ SetPassword(o) \/ RevokeOthers(o)
    \/ BeginInvite(o) \/ CreateInvite(o)
    \/ BeginAccept(o) \/ CheckEmail(o) \/ CreateUser(o) \/ MarkAccepted(o)

Next ==
    /\ \/ \E o \in Ops : Step(o) \/ Interrupt(o)
       \/ \E t \in Tokens : EndSession(t)
       \/ \E i \in Invites : ExpireInvite(i)
    /\ UNCHANGED duty

Spec == Init /\ [][Next]_vars

----------------------------------------------------------------------------
(* Properties *)

TypeOK ==
    /\ users \in [Ids -> User]
    /\ sessions \in [Tokens -> Session]
    /\ invites \in [Invites -> Invite]
    /\ made \in [Invites -> Nat]
    /\ op \in [Ops -> Request]
    /\ duty \in Duties

\* The goroutines whose requests have one of the kinds.
Serving(kinds) == {o \in Ops : duty[o] \cap kinds # {}}
AtMostOne(S) == \A o, p \in S : o = p
Uninterrupted(o) == "interrupted" \notin duty[o]

\* The kinds of request that can leave an instance without an owner.
Removals == {"role", "disable", "delete"}

\* "The 'at least one must always remain' invariant": as long as the
\* requests that change roles, disable or delete users come one after the
\* other, some owner can log in, whatever the others do meanwhile.
OwnerRemains == AtMostOne(Serving(Removals)) => ActiveOwners # {}

\* "Single-use": an invitation is spent only on a user it created, and as long
\* as acceptances come one after the other and none stops half-way none creates
\* two users, the first one deleted or not.
InviteUsedOnce ==
    /\ \A i \in Invites : invites[i].state = "accepted" => made[i] > 0
    /\ AtMostOne(Serving({"accept"})) /\ (\A o \in Serving({"accept"}) : Uninterrupted(o))
       => \A i \in Invites : made[i] <= 1

\* All requests come one after the other, and none stops half-way.
Serial == AtMostOne(Serving(Kinds)) /\ \A o \in Ops : Uninterrupted(o)

\* "Existing sessions from before the disable are not restored": a session
\* that does not authenticate never does again, its user enabled or not.
RevokedStays ==
    [][Serial => \A t \in Tokens :
          sessions[t].user # 0 /\ ~Authenticates(t) => ~Authenticates(t)']_vars

\* Between requests the sessions of a user are those of logins with its
\* password and the one that set it: a change revokes every other one.
SessionsCurrent ==
    Serial /\ (\A o \in Ops : At(o, "idle")) => \A t \in Tokens :
        sessions[t].user # 0 => sessions[t].pass = users[sessions[t].user].pass

----------------------------------------------------------------------------
(* What the repository says and the code does not do *)

\* No two requests ever leave an instance without an owner: the count and
\* the write are "effectively atomic".
OwnerAlways == ActiveOwners # {}
============================================================================
