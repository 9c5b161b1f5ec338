----------------------------- MODULE CliProofs -----------------------------
(***************************************************************************)
(* Theorems about the clients of module Cli, for any clients, settings and *)
(* texts: edits of the environment keep what they were not asked to        *)
(* change, a stream is opened for nobody it is not meant for, what a       *)
(* stream holds is given back, the builds an app can be rolled back to     *)
(* keep their images, failed logins stay within their limits, and logs     *)
(* arrive whole.                                                           *)
(***************************************************************************)
EXTENDS Cli, FiniteSetTheorems, SequenceTheorems, TLAPS

----------------------------------------------------------------------------
(* Edits of the environment.                                               *)

\* What a client puts follows from its command and what it was shown.
EditInv ==
    /\ edit = [c \in Editors |-> edit[c]]
    /\ \A c \in Editors :
         /\ edit[c].pc \in {"idle", "put", "replace", "done"}
         /\ edit[c].pc \in {"put", "replace"} => edit[c].command \in Edits
         /\ edit[c].pc = "replace" => edit[c].body = Body(c)

\* It holds at the start.
LEMMA EditStart == ASSUME Init PROVE EditInv
BY DEF Init, EditInit, EditInv

\* Every step of a client keeps it.
LEMMA EditSteps == ASSUME EditInv, NEW c \in Editors,
                          (\E command \in Edits : Get(c, command)) \/ ReadStored(c) \/ Replace(c)
                   PROVE  EditInv'
<1>1. ASSUME NEW command \in Edits, Get(c, command) PROVE EditInv'
  BY <1>1 DEF EditInv, Get, Body
<1>2. ASSUME ReadStored(c) PROVE EditInv'
  BY <1>2 DEF EditInv, ReadStored, Body
<1>3. ASSUME Replace(c) PROVE EditInv'
  BY <1>3 DEF EditInv, Replace, Body
<1> QED
  BY <1>1, <1>2, <1>3

\* A replacement that sees the stored set as it is keeps what its command does
\* not name.
LEMMA ReplaceKeeps ==
    ASSUME EditInv, NEW c \in Editors, Replace(c), edit[c].stored = env,
           NEW k \in Keys, k \notin edit[c].command.keys, edit[c].view[k] = Masked(env[k])
    PROVE  env'[k] = env[k]
<1>1. edit[c].body[k] = edit[c].view[k]
  BY DEF EditInv, Replace, Body, SetBody, UnsetBody
<1>2. env'[k] = Resolved(Masked(env[k]), env[k])
  BY <1>1 DEF Replace
<1> QED
  BY <1>2 DEF Resolved, Masked, KeptEmpty, Entry

\* And it writes what its command names.
LEMMA ReplaceWrites ==
    ASSUME EditInv, NEW c \in Editors, Replace(c), edit[c].stored = env,
           NEW k \in Keys, k \in edit[c].command.keys
    PROVE  env'[k] = IF ~edit[c].command.sets THEN Absent
                     ELSE IF edit[c].command.secret /\ edit[c].command.value = Empty /\ env[k].secret THEN env[k]
                     ELSE Entry(edit[c].command.value, edit[c].command.secret)
<1>1. env'[k] = Resolved(edit[c].body[k], env[k]) /\ edit[c].body = Body(c)
  BY DEF Replace, EditInv
<1>2. edit[c].command.sets \in BOOLEAN /\ (edit[c].command.sets => edit[c].command.secret \in BOOLEAN)
  BY EditsAssumption DEF EditInv, Replace
<1>3. CASE ~edit[c].command.sets
  BY <1>1, <1>3 DEF Body, UnsetBody, Resolved, KeptEmpty, Entry, Absent, Empty
<1>4. CASE edit[c].command.sets
  <2> DEFINE v == edit[c].command.value
             s == edit[c].command.secret
  <2>1. edit[c].body[k] = Entry(v, s) /\ s \in BOOLEAN
    BY <1>1, <1>2, <1>4 DEF Body, SetBody
  <2> HIDE DEF v, s
  <2>2. KeptEmpty(Entry(v, s)) <=> v = Empty /\ s
    BY <2>1 DEF KeptEmpty, Entry
  <2>3. env'[k] = IF s /\ v = Empty /\ env[k].secret THEN env[k] ELSE Entry(v, s)
    BY <1>1, <2>1, <2>2 DEF Resolved
  <2> QED
    BY <1>4, <2>3 DEF v, s
<1> QED
  BY <1>2, <1>3, <1>4

\* A command changes the keys it names and no other (handlePutEnv).
THEOREM EditsKeepTheRest == Spec => EnvKept
<1>1. Init => EditInv
  BY EditStart
<1>2. ASSUME EditInv, [Next]_vars PROVE EditInv'
  <2>1. CASE UNCHANGED editVars
    BY <1>2, <2>1 DEF EditInv, editVars, Body
  <2>2. CASE EditNext(Having("edit"))
    BY <1>2, <2>2, EditSteps, CliAssumption DEF EditNext, Having, CliAssumption
  <2> QED
    BY <1>2, <2>1, <2>2 DEF Next, vars
<1>3. ASSUME EditInv, [Next]_vars
      PROVE  [\A c \in Editors : edit[c].pc = "replace" /\ edit'[c].pc = "done" /\ edit[c].stored = env =>
                \A k \in Keys :
                    IF k \notin edit[c].command.keys
                    THEN edit[c].view[k] = Masked(env[k]) => env'[k] = env[k]
                    ELSE env'[k] = IF ~edit[c].command.sets THEN Absent
                                   ELSE IF edit[c].command.secret /\ edit[c].command.value = Empty /\ env[k].secret THEN env[k]
                                   ELSE Entry(edit[c].command.value, edit[c].command.secret)]_editVars
  <2> SUFFICES ASSUME NEW c \in Editors, edit[c].pc = "replace", edit'[c].pc = "done",
                      edit[c].stored = env, NEW k \in Keys
               PROVE  IF k \notin edit[c].command.keys
                      THEN edit[c].view[k] = Masked(env[k]) => env'[k] = env[k]
                      ELSE env'[k] = IF ~edit[c].command.sets THEN Absent
                                     ELSE IF edit[c].command.secret /\ edit[c].command.value = Empty /\ env[k].secret THEN env[k]
                                     ELSE Entry(edit[c].command.value, edit[c].command.secret)
    OBVIOUS
  <2>1. Replace(c)
    <3>1. CASE UNCHANGED editVars
      BY <3>1 DEF editVars
    <3>2. CASE EditNext(Having("edit"))
      <4> PICK d \in Clients : (\E command \in Edits : Get(d, command)) \/ ReadStored(d) \/ Replace(d)
        BY <3>2 DEF EditNext, Having
      <4>1. d \in Editors
        BY CliAssumption DEF CliAssumption
      <4>2. ASSUME NEW command \in Edits, Get(d, command) PROVE FALSE
        BY <1>3, <4>1, <4>2 DEF Get, EditInv
      <4>3. ASSUME ReadStored(d) PROVE FALSE
        BY <1>3, <4>1, <4>3 DEF ReadStored, EditInv
      <4>4. ASSUME Replace(d), d # c PROVE FALSE
        BY <1>3, <4>1, <4>4 DEF Replace, EditInv
      <4> QED
        BY <4>2, <4>3, <4>4
    <3> QED
      BY <1>3, <3>1, <3>2 DEF Next, vars
  <2> QED
    BY <1>3, <2>1, ReplaceKeeps, ReplaceWrites
<1> QED
  BY <1>1, <1>2, <1>3, PTL DEF Spec, EnvKept

----------------------------------------------------------------------------
(* Tokens and streams.                                                     *)

\* A token is none, or has a target and may have expired; every client has a
\* connection.
ConnTyped ==
    /\ conn = [c \in Clients |-> conn[c]]
    /\ \A c \in Clients : "pc" \in DOMAIN conn[c]

TokenTyped ==
    /\ token = [c \in Clients |-> token[c]]
    /\ \A c \in Clients : token[c] # NoToken =>
         token[c] = [target |-> token[c].target, live |-> token[c].live] /\ token[c].live \in BOOLEAN

TokenInv == ConnTyped /\ TokenTyped

\* A new token is live.
LEMMA MintedTyped == ASSUME TokenTyped, NEW c \in Clients, NEW t, Minted(c, t) PROVE TokenTyped'
<1>1. token'[c] = [target |-> t, live |-> TRUE]
  BY DEF TokenTyped, Minted
<1>2. token'[c].target = t /\ token'[c].live = TRUE
  BY <1>1
<1>3. token'[c] = [target |-> token'[c].target, live |-> token'[c].live] /\ token'[c].live \in BOOLEAN
  BY <1>1, <1>2
<1>4. \A d \in Clients : d # c => token'[d] = token[d]
  BY DEF TokenTyped, Minted
<1>5. token' = [d \in Clients |-> token'[d]]
  BY DEF TokenTyped, Minted
<1> QED
  BY <1>3, <1>4, <1>5 DEF TokenTyped

\* What a step of c's request does to connections: to c's only, and it does not
\* admit it.
NotAdmitted(c) ==
    /\ ConnTyped'
    /\ \A d \in Clients : d # c => conn'[d] = conn[d]
    /\ conn[c].pc = "asked" => conn'[c].pc # "lookup"

\* The steps of a handler after it is authenticated admit nobody.
LEMMA HandlerAdmitsNone ==
    ASSUME TokenInv, NEW c \in Clients,
           \/ LookupBuild(c) \/ LookupLogs(c) \/ LookupStats(c) \/ LookupAllStats(c)
           \/ Slot(c) \/ TailFile(c) \/ Tick(c) \/ LastRead(c)
    PROVE  NotAdmitted(c)
<1>1. CASE LookupBuild(c)
  BY <1>1 DEF TokenInv, ConnTyped, NotAdmitted, LookupBuild, Looks, To
<1>2. CASE LookupLogs(c)
  BY <1>2 DEF TokenInv, ConnTyped, NotAdmitted, LookupLogs, NoApp, Sourced, Looks, To
<1>3. CASE LookupStats(c)
  BY <1>3 DEF TokenInv, ConnTyped, NotAdmitted, LookupStats, NoApp, Sourced, Looks, To
<1>4. CASE LookupAllStats(c)
  BY <1>4 DEF TokenInv, ConnTyped, NotAdmitted, LookupAllStats, Sourced, Looks, To
<1>5. CASE Slot(c)
  BY <1>5 DEF TokenInv, ConnTyped, NotAdmitted, Slot, To
<1>6. CASE TailFile(c)
  <2>1. conn[c].pc = "tail" /\ conn' = [conn EXCEPT ![c] = conn'[c]] /\ conn'[c].pc = "tick" /\ "pc" \in DOMAIN conn'[c]
    BY <1>6 DEF TokenInv, ConnTyped, TailFile
  <2> QED
    BY <2>1 DEF TokenInv, ConnTyped, NotAdmitted
<1>7. CASE Tick(c)
  BY <1>7 DEF TokenInv, ConnTyped, NotAdmitted, Tick, To
<1>8. CASE LastRead(c)
  BY <1>8 DEF TokenInv, ConnTyped, NotAdmitted, LastRead, Return, To
<1> QED
  BY <1>1, <1>2, <1>3, <1>4, <1>5, <1>6, <1>7, <1>8

\* Neither do the steps of podman and of the client at the other end.
LEMMA StreamAdmitsNone ==
    ASSUME TokenInv, NEW c \in Clients, Stream(c)
    PROVE  NotAdmitted(c) /\ token' = token
<1>1. CASE ReadFrame(c)
  <2>1. conn[c].pc = "frames" /\ conn' = [conn EXCEPT ![c] = conn'[c]] /\ "pc" \in DOMAIN conn'[c]
    BY <1>1 DEF TokenInv, ConnTyped, ReadFrame
  <2> QED
    BY <2>1 DEF TokenInv, ConnTyped, NotAdmitted, Stream, users
<1>2. CASE LogsEnd(c)
  BY <1>2 DEF TokenInv, ConnTyped, NotAdmitted, LogsEnd, Return, To, Stream, users
<1>3. CASE StatsEnd(c)
  BY <1>3 DEF TokenInv, ConnTyped, NotAdmitted, StatsEnd, Return, To, Stream, users
<1>4. CASE Leave(c)
  BY <1>4 DEF TokenInv, ConnTyped, NotAdmitted, Leave, Return, To, Stream, users
<1> QED
  BY <1>1, <1>2, <1>3, <1>4 DEF Stream

\* A client asks, or changes no connection; a token it gets is live.
LEMMA ClientAdmitsNone ==
    ASSUME TokenInv, NEW c \in Clients, Client(c)
    PROVE  NotAdmitted(c) /\ TokenInv'
<1>1. CASE Upload(c) \/ Accepted(c) \/ Poll(c) \/ Begin(c) \/ Follows(c)
  BY <1>1 DEF TokenInv, ConnTyped, TokenTyped, NotAdmitted, Upload, Accepted, Poll, Begin, Follows, users, server
<1>2. CASE MintForDeploy(c)
  <2>1. conn' = conn /\ (token' = token \/ Minted(c, LogOf(c)))
    BY <1>2 DEF MintForDeploy, server
  <2>2. TokenTyped'
    BY <2>1, MintedTyped DEF TokenInv, TokenTyped
  <2> QED
    BY <2>1, <2>2 DEF TokenInv, ConnTyped, NotAdmitted
<1>3. CASE MintForWeb(c)
  <2>1. PICK t \in setting.targets : token' = token \/ Minted(c, t)
    BY <1>3 DEF MintForWeb
  <2>2. TokenTyped'
    BY <2>1, MintedTyped DEF TokenInv, TokenTyped
  <2>3. conn' = conn
    BY <1>3 DEF MintForWeb, server
  <2> QED
    BY <2>2, <2>3 DEF TokenInv, ConnTyped, NotAdmitted
<1>4. ASSUME NEW t, Asks(c, t) PROVE NotAdmitted(c) /\ TokenInv'
  <2>1. conn' = [conn EXCEPT ![c] = conn'[c]] /\ conn'[c].pc \in {"asked", "cut"}
       /\ "pc" \in DOMAIN conn'[c] /\ token' = token
    BY <1>4 DEF TokenInv, ConnTyped, Asks, Asked, users
  <2> QED
    BY <2>1 DEF TokenInv, ConnTyped, TokenTyped, NotAdmitted
<1> QED
  BY <1>1, <1>2, <1>3, <1>4 DEF Client, AskForDeploy, AskForLogs, AskForWeb

\* Every step keeps the tokens typed.
LEMMA TokenSteps == ASSUME TokenInv, [Next]_vars PROVE TokenInv'
<1>1. CASE UNCHANGED followVars
  BY <1>1 DEF followVars, server, users, TokenInv, ConnTyped, TokenTyped
<1>2. ASSUME NEW c \in Clients, Client(c) PROVE TokenInv'
  BY <1>2, ClientAdmitsNone
<1>3. ASSUME NEW c \in Clients, Handler(c) PROVE TokenInv'
  <2>1. CASE Authenticate(c)
    BY <2>1 DEF TokenInv, ConnTyped, TokenTyped, Authenticate, To, Pruned
  <2>2. CASE ~Authenticate(c)
    <3>1. NotAdmitted(c)
      BY <1>3, <2>2, HandlerAdmitsNone DEF Handler
    <3>2. token' = token
      BY <1>3, <2>2 DEF Handler
    <3> QED
      BY <3>1, <3>2 DEF NotAdmitted, TokenInv, TokenTyped
  <2> QED
    BY <2>1, <2>2
<1>4. ASSUME NEW c \in Clients, Stream(c) PROVE TokenInv'
  BY <1>4, StreamAdmitsNone DEF NotAdmitted, TokenInv, ConnTyped, TokenTyped
<1>5. ASSUME NEW c \in Clients, Expire(c) PROVE TokenInv'
  <2>1. conn' = conn /\ token[c] # NoToken /\ token' = [token EXCEPT ![c].live = FALSE]
    BY <1>5 DEF Expire, server
  <2> QED
    BY <2>1 DEF TokenInv, ConnTyped, TokenTyped
<1>6. CASE Die
  BY <1>6 DEF Die, TokenInv, ConnTyped, TokenTyped, users
<1>7. CASE (\E d \in Deploys : Goroutine(d)) \/ (\E u \in Users : Disable(u)) \/ DeleteApp \/ Boot
  BY <1>7 DEF Goroutine, Disable, DeleteApp, Boot, users, server, TokenInv, ConnTyped, TokenTyped
<1> QED
  BY <1>1, <1>2, <1>3, <1>4, <1>5, <1>6, <1>7 DEF Next, FollowNext, vars

\* Only an authentication lets a request in.
LEMMA OnlyAuthenticated ==
    ASSUME TokenInv, [Next]_vars, NEW c \in Clients, conn[c].pc = "asked", conn'[c].pc = "lookup"
    PROVE  Authenticate(c)
<1>1. CASE UNCHANGED followVars
  BY <1>1 DEF followVars, server
<1>2. ASSUME NEW d \in Clients, Client(d) PROVE FALSE
  BY <1>2, ClientAdmitsNone DEF NotAdmitted
<1>3. ASSUME NEW d \in Clients, Handler(d), ~Authenticate(c) PROVE FALSE
  <2>1. CASE Authenticate(d)
    BY <1>3, <2>1 DEF TokenInv, ConnTyped, TokenTyped, Authenticate, To
  <2>2. CASE ~Authenticate(d)
    BY <1>3, <2>2, HandlerAdmitsNone DEF Handler, NotAdmitted
  <2> QED
    BY <2>1, <2>2
<1>4. ASSUME NEW d \in Clients, Stream(d) PROVE FALSE
  BY <1>4, StreamAdmitsNone DEF NotAdmitted
<1>5. CASE Die
  BY <1>5 DEF Die, TokenInv, ConnTyped
<1>6. CASE (\E d \in Clients : Expire(d)) \/ (\E d \in Deploys : Goroutine(d))
           \/ (\E u \in Users : Disable(u)) \/ DeleteApp \/ Boot
  BY <1>6 DEF Expire, Goroutine, Disable, DeleteApp, Boot, server
<1> QED
  BY <1>1, <1>2, <1>3, <1>4, <1>5, <1>6 DEF Next, FollowNext, vars

\* A stream is opened only for a user who is not disabled, and by a token only
\* that is live and was minted for it (requireAuthSSE).
THEOREM TokensOpenTheirStream == Spec => TokenForOne
<1>1. Init => TokenInv
  BY DEF Init, FollowInit, TokenInv, ConnTyped, TokenTyped
<1>2. ASSUME TokenInv, [Next]_vars PROVE TokenInv'
  BY <1>2, TokenSteps
<1>3. ASSUME TokenInv, [Next]_vars
      PROVE  [\A c \in Clients : conn[c].pc = "asked" /\ conn'[c].pc = "lookup" =>
                /\ Owner(c) \in active
                /\ Role(c) = "web" => token[c] = [target |-> conn[c].target, live |-> TRUE]]_followVars
  <2> SUFFICES ASSUME NEW c \in Clients, conn[c].pc = "asked", conn'[c].pc = "lookup"
               PROVE  /\ Owner(c) \in active
                      /\ Role(c) = "web" => token[c] = [target |-> conn[c].target, live |-> TRUE]
    OBVIOUS
  <2>1. Authenticate(c)
    BY <1>3, OnlyAuthenticated
  <2>2. Admits(c)
    BY <1>3, <2>1 DEF TokenInv, ConnTyped, TokenTyped, Authenticate, To
  <2>3. ASSUME Role(c) = "web" PROVE token[c] = [target |-> conn[c].target, live |-> TRUE]
    BY <1>3, <2>2, <2>3 DEF Admits, Valid, Pruned, TokenInv, TokenTyped
  <2> QED
    BY <2>2, <2>3 DEF Admits
<1> QED
  BY <1>1, <1>2, <1>3, PTL DEF Spec, TokenForOne

----------------------------------------------------------------------------
(* Slots.                                                                  *)

OpenOf(u) == {c \in Open : Owner(c) = u}

\* A client that has not asked for a stream has none.
Unasked(c) == cli[c].pc \in {"start", "created", "mint", "open"}

SlotsCounted ==
    /\ slots = [perUser |-> slots.perUser, total |-> slots.total]
    /\ slots.total \in Nat /\ slots.perUser \in [Users -> Nat]
    /\ SlotsReturned

SlotsInv ==
    /\ setting \in Settings
    /\ ConnTyped
    /\ SlotsCounted
    /\ cli = [c \in Clients |-> cli[c]]
    /\ \A c \in Clients : "pc" \in DOMAIN cli[c] /\ (Unasked(c) => conn[c].pc = "none")

\* The rest of a step on c's stream.
OnlyOf(c) ==
    /\ setting' = setting /\ ConnTyped'
    /\ \A d \in Clients : d # c => conn'[d] = conn[d]

\* A step that neither opens nor ends a stream, and leaves nothing open behind
\* a refusal.
Quiet(c) ==
    /\ OnlyOf(c)
    /\ conn'[c].pc \in OpenPcs <=> conn[c].pc \in OpenPcs
    /\ slots' = slots
    /\ source' \subseteq source \cup {c}
    /\ c \in source' => conn'[c].pc \in OpenPcs \cup {"slot"}

\* A step that opens one.
Takes(c) ==
    /\ OnlyOf(c)
    /\ conn[c].pc \notin OpenPcs /\ conn'[c].pc \in OpenPcs
    /\ Free(Owner(c)) /\ slots' = Taken(Owner(c)) /\ source' = source

\* A step that ends one.
Gives(c) ==
    /\ OnlyOf(c)
    /\ conn[c].pc \in OpenPcs /\ conn'[c].pc \notin OpenPcs
    /\ slots' = Released(Owner(c)) /\ source' = source \ {c}

\* The counts of the open streams are finite.
LEMMA OpenFinite ==
    /\ IsFiniteSet(Open) /\ Cardinality(Open) \in Nat
    /\ \A u : IsFiniteSet(OpenOf(u)) /\ Cardinality(OpenOf(u)) \in Nat
<1>1. IsFiniteSet(Open)
  BY FollowAssumption, FS_Subset DEF FollowAssumption, Open
<1>2. \A u : IsFiniteSet(OpenOf(u))
  BY <1>1, FS_Subset DEF OpenOf
<1> QED
  BY <1>1, <1>2, FS_CardinalityType

\* Owners are users and limits are numbers.
LEMMA SettingTyped ==
    ASSUME setting \in Settings
    PROVE  /\ \A c \in Clients : Owner(c) \in Users
           /\ setting.limit.total \in Nat /\ setting.limit.user \in Nat
BY FollowAssumption DEF FollowAssumption, Owner

\* A quiet step keeps the counts.
LEMMA QuietKeeps == ASSUME SlotsInv, NEW c \in Clients, Quiet(c) PROVE SlotsCounted'
<1>1. Open' = Open
  BY DEF Quiet, OnlyOf, Open
<1>2. \A u : {d \in Open : Owner(d) = u}' = {d \in Open : Owner(d) = u}
  BY <1>1 DEF Quiet, OnlyOf, Owner
<1>3. (source \subseteq Open \cup {d \in Clients : conn[d].pc = "slot"})'
  <2> SUFFICES ASSUME NEW d \in source' PROVE d \in Open' \/ (d \in Clients /\ conn'[d].pc = "slot")
    OBVIOUS
  <2>1. CASE d = c
    BY <2>1 DEF Quiet, Open
  <2>2. CASE d # c
    BY <1>1, <2>2 DEF Quiet, OnlyOf, SlotsInv, SlotsCounted, SlotsReturned, Open
  <2> QED
    BY <2>1, <2>2
<1> QED
  BY <1>1, <1>2, <1>3 DEF Quiet, OnlyOf, SlotsInv, SlotsCounted, SlotsReturned

\* A step that opens a stream counts it, within the limits.
LEMMA TakesKeeps == ASSUME SlotsInv, NEW c \in Clients, Takes(c) PROVE SlotsCounted'
<1>1. Open' = Open \cup {c} /\ c \notin Open
  BY DEF Takes, OnlyOf, Open
<1>2. Cardinality(Open') = Cardinality(Open) + 1
  BY <1>1, OpenFinite, FS_AddElement
<1>3. ASSUME NEW u \in Users
      PROVE  Cardinality(OpenOf(u)') = IF u = Owner(c) THEN Cardinality(OpenOf(u)) + 1 ELSE Cardinality(OpenOf(u))
  <2>1. OpenOf(u)' = IF u = Owner(c) THEN OpenOf(u) \cup {c} ELSE OpenOf(u)
    BY <1>1 DEF Takes, OnlyOf, Owner, OpenOf
  <2>2. c \notin OpenOf(u)
    BY <1>1 DEF OpenOf
  <2> QED
    BY <2>1, <2>2, OpenFinite, FS_AddElement
<1>4. slots' = [perUser |-> slots'.perUser, total |-> slots'.total]
      /\ slots'.total = slots.total + 1
      /\ slots'.perUser = [slots.perUser EXCEPT ![Owner(c)] = @ + 1]
  BY DEF Takes, Taken
<1>5. slots'.total \in Nat /\ slots'.total <= setting'.limit.total /\ slots'.total = Cardinality(Open')
  BY <1>2, <1>4, SettingTyped DEF SlotsInv, SlotsCounted, SlotsReturned, Takes, OnlyOf, Free
<1>6. slots'.perUser \in [Users -> Nat]
  BY <1>4, SettingTyped DEF SlotsInv, SlotsCounted
<1>7. ASSUME NEW u \in Users
      PROVE  slots'.perUser[u] = Cardinality(OpenOf(u)') /\ slots'.perUser[u] <= setting'.limit.user
  <2>1. slots.perUser[u] = Cardinality(OpenOf(u)) /\ slots.perUser[u] <= setting.limit.user /\ slots.perUser[u] \in Nat
    BY DEF SlotsInv, SlotsCounted, SlotsReturned, OpenOf
  <2>2. CASE u = Owner(c)
    <3>1. slots'.perUser[u] = slots.perUser[u] + 1
      BY <1>4, <2>2 DEF SlotsInv, SlotsCounted
    <3>2. slots.perUser[u] < setting.limit.user /\ setting' = setting
      BY <2>2 DEF Takes, OnlyOf, Free
    <3> QED
      BY <1>3, <2>1, <2>2, <3>1, <3>2, SettingTyped DEF SlotsInv
  <2>3. CASE u # Owner(c)
    <3>1. slots'.perUser[u] = slots.perUser[u]
      BY <1>4, <2>3 DEF SlotsInv, SlotsCounted
    <3> QED
      BY <1>3, <2>1, <2>3, <3>1 DEF Takes, OnlyOf
  <2> QED
    BY <2>2, <2>3
<1>8. (source \subseteq Open \cup {d \in Clients : conn[d].pc = "slot"})'
  BY <1>1 DEF Takes, OnlyOf, SlotsInv, SlotsCounted, SlotsReturned
<1> QED
  BY <1>4, <1>5, <1>6, <1>7, <1>8 DEF SlotsCounted, SlotsReturned, OpenOf

\* A step that ends one takes it off.
LEMMA GivesKeeps == ASSUME SlotsInv, NEW c \in Clients, Gives(c) PROVE SlotsCounted'
<1>1. Open' = Open \ {c} /\ c \in Open
  BY DEF Gives, OnlyOf, Open
<1>2. Cardinality(Open') = Cardinality(Open) - 1
  BY <1>1, OpenFinite, FS_RemoveElement
<1>3. ASSUME NEW u \in Users
      PROVE  Cardinality(OpenOf(u)') = IF u = Owner(c) THEN Cardinality(OpenOf(u)) - 1 ELSE Cardinality(OpenOf(u))
  <2>1. OpenOf(u)' = IF u = Owner(c) THEN OpenOf(u) \ {c} ELSE OpenOf(u)
    BY <1>1 DEF Gives, OnlyOf, Owner, OpenOf
  <2>2. u = Owner(c) => c \in OpenOf(u)
    BY <1>1 DEF OpenOf
  <2> QED
    BY <2>1, <2>2, OpenFinite, FS_RemoveElement
<1>4. slots' = [perUser |-> slots'.perUser, total |-> slots'.total]
      /\ slots'.total = slots.total - 1
      /\ slots'.perUser = [slots.perUser EXCEPT ![Owner(c)] = @ - 1]
  BY DEF Gives, Released
<1>5. Cardinality(Open') \in Nat /\ \A u : Cardinality(OpenOf(u)') \in Nat
  <2>1. IsFiniteSet(Open') /\ \A u : IsFiniteSet(OpenOf(u)')
    BY <1>1, OpenFinite, FS_Subset DEF OpenOf
  <2> QED
    BY <2>1, FS_CardinalityType
<1>6. slots'.total \in Nat /\ slots'.total <= setting'.limit.total /\ slots'.total = Cardinality(Open')
  BY <1>2, <1>4, <1>5, SettingTyped DEF SlotsInv, SlotsCounted, SlotsReturned, Gives, OnlyOf
<1>7. ASSUME NEW u \in Users
      PROVE  /\ slots'.perUser[u] = Cardinality(OpenOf(u)') /\ slots'.perUser[u] <= setting'.limit.user
             /\ slots'.perUser[u] \in Nat
  <2>1. slots.perUser[u] = Cardinality(OpenOf(u)) /\ slots.perUser[u] <= setting.limit.user /\ slots.perUser[u] \in Nat
    BY DEF SlotsInv, SlotsCounted, SlotsReturned, OpenOf
  <2>2. slots'.perUser[u] = IF u = Owner(c) THEN slots.perUser[u] - 1 ELSE slots.perUser[u]
    BY <1>4 DEF SlotsInv, SlotsCounted
  <2>3. setting' = setting /\ setting.limit.user \in Nat
    BY SettingTyped DEF Gives, OnlyOf, SlotsInv
  <2> QED
    BY <1>3, <1>5, <2>1, <2>2, <2>3
<1>8. slots'.perUser \in [Users -> Nat]
  BY <1>4, <1>7 DEF SlotsInv, SlotsCounted
<1>9. (source \subseteq Open \cup {d \in Clients : conn[d].pc = "slot"})'
  <2> SUFFICES ASSUME NEW d \in source' PROVE d \in Open' \/ (d \in Clients /\ conn'[d].pc = "slot")
    OBVIOUS
  <2>1. d # c /\ d \in source
    BY DEF Gives
  <2> QED
    BY <1>1, <2>1 DEF Gives, OnlyOf, SlotsInv, SlotsCounted, SlotsReturned
<1> QED
  BY <1>4, <1>6, <1>7, <1>8, <1>9 DEF SlotsCounted, SlotsReturned, OpenOf

\* A handler's step is one of the three.
LEMMA HandlerSlots ==
    ASSUME SlotsInv, NEW c \in Clients, Handler(c)
    PROVE  (Quiet(c) \/ Takes(c) \/ Gives(c)) /\ conn[c].pc # "none"
<1> USE DEF SlotsInv, ConnTyped
<1>1. setting' = setting
  BY DEF Handler
<1>2. source \subseteq Open \cup {d \in Clients : conn[d].pc = "slot"}
  BY DEF SlotsCounted, SlotsReturned
<1>3. CASE Authenticate(c)
  <2>1. c \notin source
    BY <1>2, <1>3 DEF Authenticate, Open, OpenPcs
  <2> QED
    BY <1>1, <1>3, <2>1 DEF Authenticate, To, Quiet, OnlyOf, OpenPcs
<1>4. CASE LookupBuild(c)
  <2>1. c \notin source
    BY <1>2, <1>4 DEF LookupBuild, Looks, Open, OpenPcs
  <2>2. \E pc \in {"slot", "ended", "refused"} : To(c, pc)
    BY <1>4 DEF LookupBuild
  <2>3. conn[c].pc = "lookup" /\ slots' = slots /\ source' = source
    BY <1>4 DEF LookupBuild, Looks
  <2> QED
    BY <1>1, <2>1, <2>2, <2>3 DEF To, Quiet, OnlyOf, OpenPcs
<1>5. CASE LookupLogs(c) \/ LookupStats(c) \/ LookupAllStats(c)
  <2>1. conn[c].pc = "lookup" /\ (NoApp(c) \/ Sourced(c))
    BY <1>5 DEF LookupLogs, LookupStats, LookupAllStats, Looks
  <2>2. c \notin source
    BY <1>2, <2>1 DEF Open, OpenPcs
  <2>3. slots' = slots /\ ((To(c, "slot") /\ source' = source \cup {c}) \/ (To(c, "refused") /\ source' = source))
    BY <2>1 DEF NoApp, Sourced
  <2> QED
    BY <1>1, <2>1, <2>2, <2>3 DEF To, Quiet, OnlyOf, OpenPcs
<1>6. CASE Slot(c)
  <2>1. CASE Free(Owner(c))
    <3>1. (To(c, "tail") \/ To(c, "frames")) /\ slots' = Taken(Owner(c)) /\ source' = source
          /\ conn[c].pc = "slot"
      BY <1>6, <2>1 DEF Slot
    <3>2. Takes(c)
      BY <1>1, <2>1, <3>1 DEF To, Takes, OnlyOf, OpenPcs
    <3> QED
      BY <3>1, <3>2
  <2>2. CASE ~Free(Owner(c))
    BY <1>1, <1>6, <2>2 DEF Slot, To, Quiet, OnlyOf, OpenPcs
  <2> QED
    BY <2>1, <2>2
<1>7. CASE TailFile(c)
  <2>1. conn[c].pc = "tail" /\ conn' = [conn EXCEPT ![c] = conn'[c]] /\ conn'[c].pc = "tick"
        /\ "pc" \in DOMAIN conn'[c]
    BY <1>7 DEF TailFile
  <2>2. slots' = slots /\ source' \subseteq source \cup {c}
    BY <1>7 DEF TailFile
  <2> QED
    BY <1>1, <2>1, <2>2 DEF Quiet, OnlyOf, OpenPcs
<1>8. CASE Tick(c)
  BY <1>1, <1>8 DEF Tick, To, Quiet, OnlyOf, OpenPcs
<1>9. CASE LastRead(c)
  BY <1>1, <1>9 DEF LastRead, Return, To, Gives, OnlyOf, OpenPcs
<1> QED
  BY <1>3, <1>4, <1>5, <1>6, <1>7, <1>8, <1>9 DEF Handler

\* Neither podman nor a client that goes away opens one.
LEMMA StreamSlots ==
    ASSUME SlotsInv, NEW c \in Clients, Stream(c)
    PROVE  (Quiet(c) \/ Gives(c)) /\ conn[c].pc # "none"
<1> USE DEF SlotsInv, ConnTyped
<1>1. setting' = setting
  BY DEF Stream
<1>2. CASE ReadFrame(c)
  <2>1. conn[c].pc = "frames" /\ conn' = [conn EXCEPT ![c] = conn'[c]] /\ conn'[c].pc = "frames"
        /\ "pc" \in DOMAIN conn'[c]
    BY <1>2 DEF ReadFrame
  <2>2. slots' = slots /\ source' = source
    BY <1>2 DEF ReadFrame
  <2> QED
    BY <1>1, <2>1, <2>2 DEF Quiet, OnlyOf, OpenPcs
<1>3. CASE LogsEnd(c)
  <2>1. conn[c].pc = "frames" /\ Return(c, "ended")
    BY <1>3 DEF LogsEnd
  <2> QED
    BY <1>1, <2>1 DEF Return, To, Gives, OnlyOf, OpenPcs
<1>4. CASE StatsEnd(c)
  BY <1>1, <1>4 DEF StatsEnd, Return, To, Gives, OnlyOf, OpenPcs
<1>5. CASE Leave(c)
  BY <1>1, <1>5 DEF Leave, Return, To, Gives, OnlyOf, OpenPcs
<1> QED
  BY <1>2, <1>3, <1>4, <1>5 DEF Stream

\* A client opens none either, and asks for one at most.
LEMMA ClientSlots ==
    ASSUME SlotsInv, NEW c \in Clients, Client(c)
    PROVE  Quiet(c) /\ SlotsInv'
<1> USE DEF SlotsInv, ConnTyped
<1>1. setting' = setting /\ \A d \in Clients : "pc" \in DOMAIN cli[d]
  BY DEF Client
<1>2. source \subseteq Open \cup {d \in Clients : conn[d].pc = "slot"}
  BY DEF SlotsCounted, SlotsReturned
<1>3. ASSUME conn' = conn, slots' = slots, source' = source PROVE Quiet(c)
  BY <1>1, <1>2, <1>3 DEF Quiet, OnlyOf, Open, OpenPcs
<1>4. ASSUME NEW t, Asks(c, t) PROVE Quiet(c)
  <2>1. conn[c].pc = "none"
    BY <1>4 DEF Asks, Unasked
  <2>2. conn' = [conn EXCEPT ![c] = conn'[c]] /\ conn'[c].pc \in {"asked", "cut"} /\ "pc" \in DOMAIN conn'[c]
    BY <1>4 DEF Asks, Asked
  <2>3. c \notin source /\ slots' = slots /\ source' = source
    BY <1>2, <1>4, <2>1 DEF Asks, Open, OpenPcs
  <2> QED
    BY <1>1, <2>1, <2>2, <2>3 DEF Quiet, OnlyOf, OpenPcs
<1>5. /\ \/ conn' = conn /\ slots' = slots /\ source' = source
         \/ \E t : Asks(c, t)
      /\ cli' = [cli EXCEPT ![c] = cli'[c]] /\ "pc" \in DOMAIN cli'[c]
      /\ Unasked(c)' => Unasked(c) /\ conn' = conn
  <2>1. CASE Upload(c)
    BY <2>1, <1>1 DEF Upload, Ends, server, Unasked
  <2>2. CASE Accepted(c)
    <3>1. conn' = conn /\ slots' = slots /\ source' = source
      BY <2>2 DEF Accepted, server
    <3>2. Says(c, "mint") \/ Ends(c, "error")
      BY <2>2 DEF Accepted
    <3>3. cli' = [cli EXCEPT ![c] = cli'[c]] /\ "pc" \in DOMAIN cli'[c] /\ cli'[c].pc \in {"mint", "done"}
      BY <3>2, <1>1 DEF Says, Ends
    <3>4. Unasked(c)' => Unasked(c)
      BY <2>2, <3>1, <3>3 DEF Accepted, Unasked
    <3> QED
      BY <3>1, <3>3, <3>4
  <2>3. CASE MintForDeploy(c)
    BY <2>3, <1>1 DEF MintForDeploy, Says, server, Unasked
  <2>4. CASE Poll(c)
    BY <2>4, <1>1 DEF Poll, Ends, server, Unasked
  <2>5. CASE Begin(c)
    BY <2>5, <1>1 DEF Begin, Says, server, Unasked
  <2>6. CASE MintForWeb(c)
    <3>1. conn' = conn /\ slots' = slots /\ source' = source
      BY <2>6 DEF MintForWeb, server
    <3>2. cli[c].pc = "mint" /\ (Says(c, "open") \/ Says(c, "done"))
      BY <2>6 DEF MintForWeb
    <3> QED
      BY <3>1, <3>2, <1>1 DEF Says, Unasked
  <2>7. CASE Follows(c)
    <3>1. conn' = conn /\ slots' = slots /\ source' = source
      BY <2>7 DEF Follows, server
    <3>2. Says(c, "poll") \/ Says(c, "done")
      BY <2>7 DEF Follows
    <3> QED
      BY <3>1, <3>2, <1>1 DEF Says, Unasked
  <2>8. ASSUME NEW t, Asks(c, t)
        PROVE  cli' = [cli EXCEPT ![c] = cli'[c]] /\ "pc" \in DOMAIN cli'[c] /\ cli'[c].pc = "follow"
    BY <2>8, <1>1 DEF Asks, Says
  <2>9. CASE AskForDeploy(c) \/ AskForLogs(c) \/ AskForWeb(c)
    <3>1. PICK t : Asks(c, t)
      BY <2>9 DEF AskForDeploy, AskForLogs, AskForWeb
    <3> QED
      BY <3>1, <2>8 DEF Unasked
  <2> QED
    BY <2>1, <2>2, <2>3, <2>4, <2>5, <2>6, <2>7, <2>9 DEF Client
<1>6. Quiet(c)
  BY <1>3, <1>4, <1>5
<1>7. SlotsCounted' /\ OnlyOf(c)
  BY <1>6, QuietKeeps DEF Quiet
<1>8. cli' = [d \in Clients |-> cli'[d]] /\ \A d \in Clients : d # c => cli'[d] = cli[d]
  BY <1>5
<1>9. \A d \in Clients : "pc" \in DOMAIN cli'[d] /\ (Unasked(d)' => conn'[d].pc = "none")
  BY <1>5, <1>7, <1>8 DEF OnlyOf, Unasked
<1> QED
  BY <1>1, <1>6, <1>7, <1>8, <1>9 DEF OnlyOf

\* A death leaves no stream, no slot and no source.
LEMMA DieSlots == ASSUME SlotsInv, Die PROVE SlotsInv'
<1> USE DEF SlotsInv, ConnTyped
<1>1. conn' = [c \in Clients |-> IF conn[c].pc \in {"none", "ended", "refused"} THEN conn[c]
                                  ELSE [conn[c] EXCEPT !.pc = "cut"]]
      /\ setting' = setting
  BY DEF Die
<1>2. \A c \in Clients : "pc" \in DOMAIN conn'[c] /\ conn'[c].pc \in {"none", "ended", "refused", "cut"}
                          /\ (conn[c].pc = "none" => conn'[c].pc = "none")
  BY <1>1
<1>3. Open' = {}
  BY <1>2 DEF Open, OpenPcs
<1>4. Cardinality({}) = 0 /\ setting'.limit.total \in Nat /\ setting'.limit.user \in Nat
  BY <1>1, FS_EmptySet, SettingTyped
<1>5. slots' = [perUser |-> [u \in Users |-> 0], total |-> 0] /\ source' = {}
  BY DEF Die
<1>6. \A u : {c \in Open' : Owner(c)' = u} = {}
  BY <1>3
<1>7. slots'.total = 0 /\ slots'.perUser = [u \in Users |-> 0]
  BY <1>5
<1>8. SlotsReturned'
  BY <1>3, <1>4, <1>5, <1>6, <1>7 DEF SlotsReturned
<1>9. SlotsCounted'
  BY <1>5, <1>7, <1>8 DEF SlotsCounted
<1>10. cli' = [c \in Clients |-> IF cli[c].pc = "created" THEN [cli[c] EXCEPT !.pc = "done", !.result = "error"]
                                  ELSE cli[c]]
  BY DEF Die
<1>11. \A c \in Clients : "pc" \in DOMAIN cli'[c] /\ (Unasked(c)' => Unasked(c))
  BY <1>10 DEF Unasked
<1> QED
  BY <1>1, <1>2, <1>9, <1>10, <1>11

\* The invariant holds at the start.
LEMMA SlotsStart == ASSUME Init PROVE SlotsInv
<1> USE DEF Init, FollowInit
<1>1. Open = {} /\ ConnTyped
  BY DEF Open, OpenPcs, ConnTyped
<1>2. setting \in Settings /\ setting.limit.total \in Nat /\ setting.limit.user \in Nat
  BY SettingTyped
<1>3. slots = [perUser |-> [u \in Users |-> 0], total |-> 0] /\ source = {}
  OBVIOUS
<1>4. \A u : {c \in Open : Owner(c) = u} = {}
  BY <1>1
<1>5. SlotsReturned
  BY <1>1, <1>2, <1>3, <1>4, FS_EmptySet DEF SlotsReturned
<1>6. SlotsCounted
  BY <1>3, <1>5 DEF SlotsCounted
<1>7. cli = [c \in Clients |-> cli[c]]
      /\ \A c \in Clients : "pc" \in DOMAIN cli[c] /\ conn[c].pc = "none"
  OBVIOUS
<1> QED
  BY <1>1, <1>2, <1>6, <1>7 DEF SlotsInv

\* No step breaks it.
LEMMA SlotsSteps == ASSUME SlotsInv, [Next]_vars PROVE SlotsInv'
<1>1. ASSUME NEW c \in Clients, SlotsCounted', OnlyOf(c), cli' = cli, conn[c].pc # "none" PROVE SlotsInv'
  BY <1>1 DEF OnlyOf, SlotsInv, Unasked
<1>2. CASE UNCHANGED <<setting, server, cli>>
  BY <1>2 DEF server, SlotsInv, ConnTyped, SlotsCounted, SlotsReturned, Open, Owner, Unasked
<1>3. ASSUME NEW c \in Clients, Handler(c) PROVE SlotsInv'
  <2>1. cli' = cli
    BY <1>3 DEF Handler
  <2> QED
    BY <1>1, <1>3, <2>1, HandlerSlots, QuietKeeps, TakesKeeps, GivesKeeps DEF Quiet, Takes, Gives
<1>4. ASSUME NEW c \in Clients, Stream(c) PROVE SlotsInv'
  <2>1. cli' = cli
    BY <1>4 DEF Stream
  <2> QED
    BY <1>1, <1>4, <2>1, StreamSlots, QuietKeeps, GivesKeeps DEF Quiet, Gives
<1>5. ASSUME NEW c \in Clients, Client(c) PROVE SlotsInv'
  BY <1>5, ClientSlots
<1>6. CASE Die
  BY <1>6, DieSlots
<1>7. ASSUME (\E c \in Clients : Expire(c)) \/ (\E d \in Deploys : Goroutine(d))
             \/ (\E u \in Users : Disable(u)) \/ DeleteApp \/ Boot
      PROVE  UNCHANGED <<setting, server, cli>>
  BY <1>7 DEF Expire, Goroutine, Disable, DeleteApp, Boot
<1>8. CASE UNCHANGED followVars
  BY <1>2, <1>8 DEF followVars
<1> QED
  BY <1>2, <1>3, <1>4, <1>5, <1>6, <1>7, <1>8 DEF Next, FollowNext, vars

\* The limiter counts exactly the open streams and neither cap is passed; a file
\* or a podman log is open only for a stream or for one about to ask for its
\* slot (acquireStreamSlot and the deferred releases).
THEOREM StreamsGiveBack == Spec => []SlotsReturned
<1>1. Init => SlotsInv
  BY SlotsStart
<1>2. SlotsInv /\ [Next]_vars => SlotsInv'
  BY SlotsSteps
<1>3. SlotsInv => SlotsReturned
  BY DEF SlotsInv, SlotsCounted
<1> QED
  BY <1>1, <1>2, <1>3, PTL DEF Spec

----------------------------------------------------------------------------
(* Retention: the invariant, and that it implies RollbacksKept.            *)

Pcs == {"none", "build", "record", "roll", "images", "logs", "finish"}

\* The image that the deploy under way has built, if it may still be lost, if it will
\* be healthy or stay, and if nothing has been pruned since.
Pending ==
    IF At("record") THEN {Current}
    ELSE IF job.pc \in {"roll", "images", "logs", "finish"} THEN {Current} \cap {Image}
    ELSE {}
Sure == IF job.pc \in {"images", "logs", "finish"} THEN Pending ELSE {}
Loose == IF job.pc \in {"record", "roll", "images"} THEN Pending ELSE {}

\* What has a place for good.
Placed == Healthy \cup left \cup Sure
Above(numbers, n) == {m \in numbers : m > n}
Numbers(S) == IsFiniteSet(S) /\ S \subseteq Nat \ {NoTag}

Row == [image : Nat, status : {"deploying", "healthy", "failed"}]

\* A deploy under way is the last, and is not over; an image is a build's number,
\* the deployment's own or an earlier one.
RetentionTyped ==
    /\ history \in Seq(Row)
    /\ \A n \in DOMAIN history : history[n].image <= n
    /\ job \in [pc : Pcs, number : Nat]
    /\ ~At("none") => Current = Len(history) /\ Current # 0 /\ history[Current].status = "deploying"
    /\ Numbers(tags) /\ Numbers(left) /\ Numbers(logs) /\ Numbers(logged)
    /\ running \in Nat /\ running <= Len(history)

\* A tag is of a healthy build, has stayed behind or is pending; a tag that went
\* has made place for enough others.
PlacesInv ==
    /\ Pending \subseteq tags
    /\ tags \subseteq Healthy \cup left \cup Pending
    /\ \A n \in Healthy \ tags : Keep <= Cardinality(Above(Placed, n))
    /\ Cardinality(tags \ (left \cup Loose)) <= Keep + 1

\* The image that runs is not that of the build under way, which may be lost.
RunningInv ==
    /\ running # NoTag => running \in tags
    /\ job.pc \in {"build", "record", "roll"} => running < Current
    /\ At("images") => running = Image

\* The same of logs.
LogsInv ==
    /\ logs \subseteq logged
    /\ \A n \in logged \ logs : Keep <= Cardinality(Above(logged, n))

RetentionInv == RetentionTyped /\ PlacesInv /\ RunningInv /\ LogsInv

----------------------------------------------------------------------------
(* Numbers.                                                                *)

\* Newest returns no more numbers than are kept.
LEMMA NewestBound ==
    ASSUME NEW S, Numbers(S)
    PROVE  Newest(S) \subseteq S /\ IsFiniteSet(Newest(S)) /\ Cardinality(Newest(S)) <= Keep
<1> DEFINE rank == [n \in Newest(S) |-> Cardinality(Above(S, n))]
<1>1. Newest(S) \subseteq S /\ IsFiniteSet(Newest(S))
  BY FS_Subset DEF Newest, Numbers
<1>2. \A n : IsFiniteSet(Above(S, n)) /\ Cardinality(Above(S, n)) \in Nat
  <2> TAKE n
  <2>1. Above(S, n) \subseteq S
    BY DEF Above
  <2> QED
    BY <2>1, FS_Subset, FS_CardinalityType DEF Numbers
<1>3. \A n \in Newest(S) : rank[n] \in 0 .. (Keep - 1)
  BY <1>2, RetentionAssumption DEF Newest, Above, RetentionAssumption
<1>4. ASSUME NEW n \in Newest(S), NEW m \in Newest(S), n < m PROVE rank[n] # rank[m]
  <2>1. n \in Nat /\ m \in Nat /\ m \in S
    BY <1>1 DEF Numbers
  <2>2. \A k \in Above(S, m) : k \in Above(S, n)
    BY <1>4, <2>1 DEF Above, Numbers
  <2>4. m \in Above(S, n) /\ m \notin Above(S, m)
    BY <1>4, <2>1 DEF Above
  <2>3. Cardinality(Above(S, m)) < Cardinality(Above(S, n))
    BY <1>2, <2>2, <2>4, FS_Subset
  <2> QED
    BY <1>2, <2>3
<1>5. \A n, m \in Newest(S) : rank[n] = rank[m] => n = m
  <2>1. Newest(S) \subseteq Nat
    BY <1>1 DEF Numbers
  <2> QED
    BY <1>4, <2>1
<1>6. rank \in Injection(Newest(S), 0 .. (Keep - 1))
  BY <1>3, <1>5 DEF Injection, IsInjective
<1>7. IsFiniteSet(0 .. (Keep - 1)) /\ Cardinality(0 .. (Keep - 1)) = Keep
  BY FS_Interval, RetentionAssumption DEF RetentionAssumption
<1> QED
  BY <1>1, <1>6, <1>7, FS_Injection

\* More numbers are above n in a larger set.
LEMMA AboveGrows ==
    ASSUME NEW A, NEW B, A \subseteq B, IsFiniteSet(B), NEW n
    PROVE  /\ Cardinality(Above(A, n)) \in Nat /\ Cardinality(Above(B, n)) \in Nat
           /\ Cardinality(Above(A, n)) <= Cardinality(Above(B, n))
<1>1. Above(A, n) \subseteq Above(B, n) /\ Above(B, n) \subseteq B
  BY DEF Above
<1>2. IsFiniteSet(Above(B, n)) /\ IsFiniteSet(Above(A, n))
  BY <1>1, FS_Subset
<1> QED
  BY <1>1, <1>2, FS_Subset, FS_CardinalityType

\* The places are finite.
LEMMA PlacedFinite ==
    ASSUME NEW n \in Nat, NEW S, IsFiniteSet(S), NEW k, NEW T, T \subseteq 1 .. n \cup S \cup {k}
    PROVE  IsFiniteSet(T)
<1>0. IsFiniteSet({k})
  BY FS_Singleton
<1>1. IsFiniteSet(1 .. n)
  BY FS_Interval
<1>2. IsFiniteSet(1 .. n \cup S)
  BY <1>1, FS_Union
<1>3. IsFiniteSet(1 .. n \cup S \cup {k})
  BY <1>0, <1>2, FS_Union
<1> QED
  BY <1>3, FS_Subset

\* A step that takes no healthy build's tag away and no place keeps the places.
LEMMA PlacesGrow ==
    ASSUME RetentionTyped, RetentionTyped', PlacesInv, Pending' \subseteq tags',
           (tags \subseteq Healthy \cup left \cup Pending)',
           Placed \subseteq Placed', Healthy' \ tags' \subseteq Healthy \ tags,
           (tags \ (left \cup Loose))' \subseteq tags \ (left \cup Loose)
    PROVE  PlacesInv'
<1>1. \A n \in Healthy' \ tags' : Keep <= Cardinality(Above(Placed', n))
  <2> TAKE n \in Healthy' \ tags'
  <2>1. Keep <= Cardinality(Above(Placed, n))
    BY DEF PlacesInv
  <2>2. IsFiniteSet(Placed')
    <3>1. Healthy' \subseteq 1 .. Len(history') /\ Len(history') \in Nat /\ IsFiniteSet(left')
      BY DEF Healthy, RetentionTyped, Numbers
    <3>2. Placed' \subseteq 1 .. Len(history') \cup left' \cup {Current'}
      BY <3>1 DEF Placed, Sure, Pending
    <3> QED
      BY <3>1, <3>2, PlacedFinite
  <2>3. /\ Cardinality(Above(Placed, n)) \in Nat /\ Cardinality(Above(Placed', n)) \in Nat
        /\ Cardinality(Above(Placed, n)) <= Cardinality(Above(Placed', n))
    BY <2>2, AboveGrows
  <2> QED
    BY <2>1, <2>3, RetentionAssumption DEF RetentionAssumption
<1>2. Cardinality((tags \ (left \cup Loose))') <= Keep + 1
  <2>1. IsFiniteSet(tags \ (left \cup Loose))
    BY FS_Difference DEF RetentionTyped, Numbers
  <2>2. /\ Cardinality((tags \ (left \cup Loose))') <= Cardinality(tags \ (left \cup Loose))
        /\ Cardinality((tags \ (left \cup Loose))') \in Nat
        /\ Cardinality(tags \ (left \cup Loose)) \in Nat
    BY <2>1, FS_Subset, FS_CardinalityType
  <2> QED
    BY <2>2, RetentionAssumption DEF RetentionAssumption, PlacesInv
<1> QED
  BY <1>1, <1>2 DEF PlacesInv, Above

----------------------------------------------------------------------------
(* Typing.                                                                 *)

\* Sets of numbers stay so.
LEMMA NumbersChange ==
    ASSUME NEW S, Numbers(S), NEW A, NEW k \in Nat \ {0}, A \subseteq {k}, NEW B
    PROVE  Numbers(S \cup A) /\ Numbers(S \ B) /\ Numbers(S \cup (A \ B))
<1>1. IsFiniteSet({k}) /\ IsFiniteSet(A) /\ IsFiniteSet(A \ B)
  BY FS_Singleton, FS_Subset
<1> QED
  BY <1>1, FS_Union, FS_Difference DEF Numbers, NoTag

\* What ends a deploy types its row.
LEMMA EndedTyped ==
    ASSUME RetentionTyped, ~At("none"), NEW status \in {"deploying", "healthy", "failed"}, Ended(status)
    PROVE  /\ history' \in Seq(Row)
           /\ Len(history') = Len(history)
           /\ \A n \in DOMAIN history' : history'[n].image = history[n].image
           /\ \A n \in DOMAIN history' : n # Current => history'[n] = history[n]
           /\ history'[Current].status = status
           /\ job' = NoJob
<1>1. Current = Len(history) /\ Current \in DOMAIN history
  BY DEF RetentionTyped, Current
<1>2. history' = [history EXCEPT ![Current].status = status] /\ job' = NoJob
  BY DEF Ended
<1>3. history[Current] \in Row
  BY <1>1 DEF RetentionTyped
<1>4. [history[Current] EXCEPT !.status = status] \in Row
  BY <1>3 DEF Row
<1>5. history' = [history EXCEPT ![Current] = [history[Current] EXCEPT !.status = status]]
  BY <1>2
<1> HIDE DEF Current
<1> QED
  BY <1>1, <1>2, <1>3, <1>4, <1>5 DEF RetentionTyped, Row

\* A created row.
LEMMA CreatedTyped ==
    ASSUME RetentionInv, NEW image \in Nat, image <= Len(history), NEW pc \in {"build", "roll"}, Created(image, pc)
    PROVE  RetentionTyped'
<1>1. history' \in Seq(Row) /\ Len(history') = Len(history) + 1
  BY DEF RetentionInv, RetentionTyped, Created, Row
<1>2. history'[Len(history) + 1] = [image |-> image, status |-> "deploying"]
     /\ \A n \in DOMAIN history : history'[n] = history[n]
  BY DEF RetentionInv, RetentionTyped, Created
<1> QED
  BY <1>1, <1>2 DEF RetentionInv, RetentionTyped, Created, At, Current, Pcs, Numbers

----------------------------------------------------------------------------
(* Steps.                                                                  *)

\* Nothing is pending between deploys, and the images of healthy builds stay
\* those of healthy builds.
LEMMA EndedPlaces ==
    ASSUME RetentionTyped, ~At("none"), NEW status \in {"deploying", "healthy", "failed"}, Ended(status)
    PROVE  /\ Pending' = {} /\ Sure' = {} /\ Loose' = {}
           /\ Healthy' = Healthy \cup (IF status = "healthy" THEN {Current} \cap {Image} ELSE {})
<1>1. job' = NoJob
  BY DEF Ended
<1>2. Current = Len(history) /\ Current \in DOMAIN history /\ history[Current].status = "deploying"
     /\ Image = history[Current].image
  BY DEF RetentionTyped, Current, Image
<1>3. /\ history' \in Seq(Row) /\ DOMAIN history' = DOMAIN history
      /\ \A n \in DOMAIN history : n # Current => history'[n] = history[n]
      /\ history'[Current] \in Row /\ history'[Current].status = status /\ history'[Current].image = Image
  <2>1. /\ history' \in Seq(Row) /\ Len(history') = Len(history)
        /\ \A n \in DOMAIN history' : history'[n].image = history[n].image
        /\ \A n \in DOMAIN history' : n # Current => history'[n] = history[n]
        /\ history'[Current].status = status
    BY EndedTyped
  <2>2. DOMAIN history' = DOMAIN history
    BY <2>1 DEF RetentionTyped
  <2> QED
    BY <1>2, <2>1, <2>2
<1>4. history'[Current] = [image |-> Image, status |-> status]
  BY <1>3 DEF Row
<1>5. history[Current] # [image |-> Current, status |-> "healthy"]
  BY <1>2
<1>6. Healthy' = {n \in DOMAIN history : history'[n] = [image |-> n, status |-> "healthy"]}
  BY <1>3 DEF Healthy
<1>7. Healthy' = Healthy \cup (IF status = "healthy" THEN {Current} \cap {Image} ELSE {})
  <2> HIDE DEF Current, Image
  <2>1. ASSUME NEW n \in DOMAIN history
        PROVE  n \in Healthy' <=> n \in Healthy \cup (IF status = "healthy" THEN {Current} \cap {Image} ELSE {})
    <3>1. CASE n = Current
      <4>1. Current \in Healthy' <=> [image |-> Image, status |-> status] = [image |-> Current, status |-> "healthy"]
        BY <1>2, <1>4, <1>6
      <4>2. [image |-> Image, status |-> status] = [image |-> Current, status |-> "healthy"]
            <=> Image = Current /\ status = "healthy"
        OBVIOUS
      <4>3. Current \notin Healthy
        BY <1>5 DEF Healthy
      <4> QED
        BY <3>1, <4>1, <4>2, <4>3
    <3>2. CASE n # Current
      BY <1>3, <1>6, <2>1, <3>2 DEF Healthy
    <3> QED
      BY <3>1, <3>2
  <2>2. Healthy' \subseteq DOMAIN history /\ Healthy \subseteq DOMAIN history
    BY <1>6 DEF Healthy
  <2> QED
    BY <1>2, <2>1, <2>2
<1> QED
  BY <1>1, <1>7 DEF Pending, Sure, Loose, At, NoJob

\* A deploy or a rollback begins.
LEMMA CreatedKeeps ==
    ASSUME RetentionInv, NEW image \in Nat, image <= Len(history), NEW pc \in {"build", "roll"}, Created(image, pc)
    PROVE  RetentionInv'
<1>1. RetentionTyped'
  BY CreatedTyped
<1>2. /\ Len(history') = Len(history) + 1 /\ history'[Len(history) + 1] = [image |-> image, status |-> "deploying"]
      /\ \A n \in DOMAIN history : history'[n] = history[n]
      /\ DOMAIN history' = DOMAIN history \cup {Len(history) + 1}
      /\ Len(history) \in Nat
  BY DEF RetentionInv, RetentionTyped, Created
<1>3. job' = [pc |-> pc, number |-> Len(history) + 1] /\ job.pc = "none"
  BY DEF Created, At
<1>4. Healthy' = Healthy
  BY <1>2 DEF Healthy
<1>5. Pending' = {} /\ Sure' = {} /\ Loose' = {} /\ Pending = {} /\ Sure = {} /\ Loose = {}
  BY <1>2, <1>3 DEF Pending, Sure, Loose, At, Current, Image
<1>6. PlacesInv'
  BY <1>1, <1>4, <1>5, PlacesGrow DEF RetentionInv, PlacesInv, Placed, Created
<1>7. RunningInv'
  BY <1>2, <1>3 DEF RetentionInv, RetentionTyped, RunningInv, Created, Current, At
<1>8. LogsInv'
  BY DEF RetentionInv, LogsInv, Created, Above
<1> QED
  BY <1>1, <1>6, <1>7, <1>8 DEF RetentionInv

\* Whatever ends a deploy, if a tag of its own has its place.
LEMMA EndedKeeps ==
    ASSUME RetentionInv, RetentionTyped', ~At("none"), NEW status \in {"deploying", "healthy", "failed"}, Ended(status),
           left \subseteq left', tags' \subseteq Healthy' \cup left',
           Sure \subseteq Healthy' \cup left', Healthy' \ tags' \subseteq Healthy \ tags,
           tags' \ left' \subseteq tags \ (left \cup Loose),
           running' # NoTag => running' \in tags', LogsInv'
    PROVE  RetentionInv'
<1>1. /\ Pending' = {} /\ Sure' = {} /\ Loose' = {} /\ Healthy \subseteq Healthy'
  BY EndedPlaces DEF RetentionInv
<1>2. PlacesInv'
  BY <1>1, PlacesGrow DEF RetentionInv, Placed
<1>3. RunningInv'
  BY DEF Ended, RunningInv, NoJob, At
<1> QED
  BY <1>2, <1>3 DEF RetentionInv

\* Typing of what ends a deploy.
LEMMA EndedTypes ==
    ASSUME RetentionTyped, ~At("none"), NEW status \in {"deploying", "healthy", "failed"}, Ended(status),
           Numbers(tags)', Numbers(left)', Numbers(logs)', Numbers(logged)', running' \in {running, NoTag}
    PROVE  RetentionTyped'
<1>1. /\ history' \in Seq(Row) /\ Len(history') = Len(history)
      /\ \A n \in DOMAIN history' : history'[n].image = history[n].image
      /\ job' = NoJob
  BY EndedTyped
<1>2. DOMAIN history' = DOMAIN history
  BY <1>1 DEF RetentionTyped
<1> QED
  BY <1>1, <1>2 DEF RetentionTyped, NoJob, At, Current, Pcs, NoTag, Numbers

\* A build fails, its outcome is not recorded, or the rollout fails.
LEMMA FailuresKeep ==
    ASSUME RetentionInv
    PROVE  /\ \A opened, tagged \in SUBSET {Current} : BuildFails(opened, tagged) => RetentionInv'
           /\ Unrecorded => RetentionInv'
           /\ \A removed \in SUBSET Orphan, runs \in {running, NoTag} : RollFails(removed, runs) => RetentionInv'
           /\ \A runs \in {running, NoTag} : Dies(runs) => RetentionInv'
<1> USE DEF RetentionInv
<1>0. At("none") \/ Current \in Nat \ {0}
  BY DEF RetentionTyped, Current
<1>1. ASSUME NEW opened \in SUBSET {Current}, NEW tagged \in SUBSET {Current}, BuildFails(opened, tagged)
      PROVE  RetentionInv'
  <2>1. ~At("none") /\ Ended("failed") /\ Pending = {} /\ Sure = {} /\ Loose = {}
    BY <1>1 DEF BuildFails, At, Pending, Sure, Loose
  <2>2. RetentionTyped'
    <3>1. Numbers(tags)' /\ Numbers(left)' /\ Numbers(logs)' /\ Numbers(logged)'
      BY <1>0, <1>1, <2>1, NumbersChange DEF BuildFails, RetentionTyped, Numbers
    <3> QED
      BY <1>1, <2>1, <3>1, EndedTypes DEF BuildFails
  <2>3. Healthy' = Healthy
    BY <2>1, EndedPlaces
  <2>4. LogsInv'
    <3>1. logged' \ logs' \subseteq logged \ logs /\ logs' \subseteq logged' /\ logged \subseteq logged'
      BY <1>1 DEF BuildFails, LogsInv
    <3>2. ASSUME NEW n \in logged' \ logs' PROVE Keep <= Cardinality(Above(logged', n))
      <4>1. /\ Cardinality(Above(logged, n)) \in Nat /\ Cardinality(Above(logged', n)) \in Nat
            /\ Cardinality(Above(logged, n)) <= Cardinality(Above(logged', n))
        BY <2>2, <3>1, AboveGrows DEF RetentionTyped, Numbers
      <4> QED
        BY <3>1, <3>2, <4>1, RetentionAssumption DEF LogsInv, RetentionAssumption
    <3> QED
      BY <3>1, <3>2 DEF LogsInv, Above
  <2> QED
    BY <1>1, <2>1, <2>2, <2>3, <2>4, EndedKeeps DEF BuildFails, PlacesInv, RunningInv
<1>2. ASSUME Unrecorded PROVE RetentionInv'
  <2>1. ~At("none") /\ Ended("failed") /\ Pending = {Current} /\ Sure = {} /\ Loose = {Current}
    BY <1>2 DEF Unrecorded, At, Pending, Sure, Loose
  <2>2. RetentionTyped'
    <3>1. Numbers(tags)' /\ Numbers(left)' /\ Numbers(logs)' /\ Numbers(logged)'
      BY <1>0, <1>2, <2>1, NumbersChange DEF Unrecorded, RetentionTyped, Numbers
    <3> QED
      BY <1>2, <2>1, <3>1, EndedTypes DEF Unrecorded
  <2>3. Healthy' = Healthy
    BY <2>1, EndedPlaces
  <2>4. LogsInv'
    BY <1>2 DEF Unrecorded, LogsInv, Above
  <2> QED
    BY <1>2, <2>1, <2>2, <2>3, <2>4, EndedKeeps DEF Unrecorded, PlacesInv, RunningInv
<1>3. ASSUME NEW removed \in SUBSET Orphan, NEW runs \in {running, NoTag}, RollFails(removed, runs)
      PROVE  RetentionInv'
  <2>1. ~At("none") /\ Ended("failed") /\ Pending = Orphan /\ Sure = {} /\ Loose = Orphan
    BY <1>3 DEF RollFails, At, Pending, Sure, Loose, Orphan
  <2>2. RetentionTyped'
    <3>1. Numbers(tags)' /\ Numbers(left)' /\ Numbers(logs)' /\ Numbers(logged)'
      <4>1. Current \in Nat \ {0} /\ Orphan \subseteq {Current} /\ tags' = tags \ removed
            /\ left' = left \cup (Orphan \ removed) /\ UNCHANGED <<logs, logged>>
        BY <1>0, <1>3, <2>1 DEF RollFails, Orphan
      <4>2. Numbers(tags \ removed) /\ Numbers(left \cup (Orphan \ removed))
        BY <4>1, NumbersChange DEF RetentionTyped
      <4> QED
        BY <4>1, <4>2 DEF RetentionTyped, Numbers
    <3> QED
      BY <1>3, <2>1, <3>1, EndedTypes DEF RollFails
  <2>3. Healthy' = Healthy
    BY <2>1, EndedPlaces
  <2>4. LogsInv'
    BY <1>3 DEF RollFails, LogsInv, Above
  <2>5. Orphan \cap Healthy = {}
    BY <1>0, <2>1 DEF Orphan, Healthy, RetentionTyped
  <2>6. running # NoTag => running \notin removed
    BY <1>3, <2>1 DEF RollFails, RunningInv, Orphan, At, RetentionTyped
  <2> QED
    BY <1>3, <2>1, <2>2, <2>3, <2>4, <2>5, <2>6, EndedKeeps DEF RollFails, PlacesInv, RunningInv
<1>4. ASSUME NEW runs \in {running, NoTag}, Dies(runs) PROVE RetentionInv'
  <2>1. ~At("none") /\ Ended("failed") /\ Pending \subseteq {Current} /\ Sure \subseteq Pending /\ Loose \subseteq Pending
    BY <1>4 DEF Dies, Pending, Sure, Loose
  <2>2. RetentionTyped'
    <3>1. Numbers(tags)' /\ Numbers(left)' /\ Numbers(logs)' /\ Numbers(logged)'
      <4>1. Current \in Nat \ {0} /\ {Current} \cap tags \subseteq {Current}
            /\ left' = left \cup ({Current} \cap tags) /\ UNCHANGED <<tags, logs, logged>>
        BY <1>0, <1>4, <2>1 DEF Dies
      <4>2. Numbers(left \cup ({Current} \cap tags))
        BY <4>1, NumbersChange DEF RetentionTyped
      <4> QED
        BY <4>1, <4>2 DEF RetentionTyped, Numbers
    <3> QED
      BY <1>4, <2>1, <3>1, EndedTypes DEF Dies
  <2>3. Healthy' = Healthy
    BY <2>1, EndedPlaces
  <2>4. LogsInv'
    BY <1>4 DEF Dies, LogsInv, Above
  <2> QED
    BY <1>4, <2>1, <2>2, <2>3, <2>4, EndedKeeps DEF Dies, PlacesInv, RunningInv
<1> QED
  BY <1>1, <1>2, <1>3, <1>4

\* The steps before the pruning.
LEMMA RolloutKeeps ==
    ASSUME RetentionInv, Build \/ Record \/ Cutover
    PROVE  RetentionInv'
<1> USE DEF RetentionInv
<1>1. /\ Current = Len(history) /\ Current \in Nat \ {0} /\ Current \in DOMAIN history
      /\ history[Current].status = "deploying" /\ ~At("none") /\ Image = history[Current].image
      /\ Image \in Nat /\ Image <= Current
  <2>1. ~At("none") /\ Image = history[Current].image
    BY DEF Build, Record, Cutover, At, Image
  <2>2. /\ Current = Len(history) /\ Current \in Nat \ {0} /\ history[Current].status = "deploying"
        /\ history \in Seq(Row) /\ \A n \in DOMAIN history : history[n].image <= n
    BY <2>1 DEF RetentionTyped, Current
  <2>3. Current \in DOMAIN history /\ history[Current] \in Row
    BY <2>2
  <2> QED
    BY <2>1, <2>2, <2>3 DEF Row
<1>2. CASE Build
  <2>1. /\ job'.pc = "record" /\ job'.number = Current /\ history' = history /\ job.pc = "build"
        /\ job' \in [pc : Pcs, number : Nat]
    BY <1>2 DEF Build, Onto, RetentionTyped, Pcs, Current, At
  <2>2. Numbers(tags \cup {Current}) /\ Numbers(logs \cup {Current}) /\ Numbers(logged \cup {Current})
    BY <1>1, NumbersChange DEF RetentionTyped
  <2>3. RetentionTyped'
    BY <1>1, <1>2, <2>1, <2>2 DEF RetentionTyped, Build, At, Current, Numbers
  <2>4. Healthy' = Healthy /\ Pending' = {Current} /\ Sure' = {} /\ Loose' = {Current} /\ Sure = {} /\ Pending = {} /\ Loose = {}
    BY <2>1 DEF Healthy, Pending, Sure, Loose, At, Current
  <2>5. PlacesInv'
    BY <1>2, <2>3, <2>4, PlacesGrow DEF Build, PlacesInv, Placed
  <2>6. RunningInv'
    BY <1>1, <1>2, <2>1 DEF Build, RunningInv, At, Current
  <2>7. LogsInv'
    <3>1. logged' \ logs' \subseteq logged \ logs /\ logs' \subseteq logged' /\ logged \subseteq logged'
      BY <1>2 DEF Build, LogsInv
    <3>2. ASSUME NEW n \in logged' \ logs' PROVE Keep <= Cardinality(Above(logged', n))
      <4>1. /\ Cardinality(Above(logged, n)) \in Nat /\ Cardinality(Above(logged', n)) \in Nat
            /\ Cardinality(Above(logged, n)) <= Cardinality(Above(logged', n))
        BY <2>3, <3>1, AboveGrows DEF RetentionTyped, Numbers
      <4> QED
        BY <3>1, <3>2, <4>1, RetentionAssumption DEF LogsInv, RetentionAssumption
    <3> QED
      BY <3>1, <3>2 DEF LogsInv, Above
  <2> QED
    BY <2>3, <2>5, <2>6, <2>7
<1>3. CASE Record
  <2>1. /\ job'.pc = "roll" /\ job'.number = Current /\ job.pc = "record" /\ job' \in [pc : Pcs, number : Nat]
    BY <1>3 DEF Record, Onto, RetentionTyped, Pcs, Current, At
  <2>2. /\ history' \in Seq(Row) /\ DOMAIN history' = DOMAIN history /\ Len(history') = Len(history)
        /\ \A n \in DOMAIN history : n # Current => history'[n] = history[n]
        /\ history'[Current].image = Current /\ history'[Current].status = "deploying"
    <3>1. history' = [history EXCEPT ![Current] = [history[Current] EXCEPT !.image = Current]]
      BY <1>3 DEF Record
    <3>2. history \in Seq(Row) /\ history[Current] \in Row
      BY <1>1 DEF RetentionTyped
    <3>3. [history[Current] EXCEPT !.image = Current] \in Row
      BY <1>1, <3>2 DEF Row
    <3> HIDE DEF Current
    <3> QED
      BY <1>1, <3>1, <3>2, <3>3 DEF Row
  <2>3. RetentionTyped'
    BY <1>1, <1>3, <2>1, <2>2 DEF RetentionTyped, Record, At, Current, Numbers
  <2>4. Healthy' = Healthy
    BY <1>1, <2>2 DEF Healthy
  <2>5. Pending' = {Current} /\ Sure' = {} /\ Loose' = {Current} /\ Sure = {} /\ Pending = {Current} /\ Loose = {Current}
    BY <2>1, <2>2 DEF Pending, Sure, Loose, At, Current, Image
  <2>6. PlacesInv'
    BY <1>3, <2>3, <2>4, <2>5, PlacesGrow DEF Record, PlacesInv, Placed
  <2>7. RunningInv'
    BY <1>3, <2>1 DEF Record, RunningInv, At, Current
  <2>8. LogsInv'
    BY <1>3 DEF Record, LogsInv, Above
  <2> QED
    BY <2>3, <2>6, <2>7, <2>8
<1>4. CASE Cutover
  <2>1. /\ job'.pc = (IF Image = NoTag THEN "finish" ELSE "images") /\ job'.number = Current /\ job.pc = "roll"
        /\ job' \in [pc : Pcs, number : Nat] /\ history' = history
    BY <1>4 DEF Cutover, Onto, RetentionTyped, Pcs, Current, At
  <2>2. Image' = Image
    BY <1>1, <2>1 DEF Image, At, Current
  <2>3. RetentionTyped'
    BY <1>1, <1>4, <2>1 DEF RetentionTyped, Cutover, At, Current, Numbers
  <2>4. /\ Healthy' = Healthy /\ Pending' = Pending /\ Sure = {} /\ Loose = Pending
        /\ Image = NoTag => Pending = {}
        /\ Image # NoTag => Loose' = Pending
        /\ Sure' = Pending
    BY <1>1, <2>1, <2>2 DEF Healthy, Pending, Sure, Loose, At, Current, NoTag
  <2>5. PlacesInv'
    BY <1>4, <2>3, <2>4, PlacesGrow DEF Cutover, PlacesInv, Placed
  <2>6. RunningInv'
    BY <1>4, <2>1, <2>2 DEF Cutover, RunningInv, At
  <2>7. LogsInv'
    BY <1>4 DEF Cutover, LogsInv, Above
  <2> QED
    BY <2>3, <2>5, <2>6, <2>7
<1> QED
  BY <1>2, <1>3, <1>4

\* The pruning of images: what goes has as many newer tags as are kept, which
\* are of healthy builds, of the one that ends, or have stayed behind.
LEMMA ImagesKeep ==
    ASSUME RetentionInv, NEW removed \in SUBSET Doomed, PruneImages(removed)
    PROVE  RetentionInv'
<1> USE DEF RetentionInv
<1>1. /\ job'.pc = (IF Image = Current THEN "logs" ELSE "finish") /\ job'.number = Current /\ job.pc = "images"
      /\ job' \in [pc : Pcs, number : Nat] /\ history' = history /\ ~At("none")
  BY DEF PruneImages, Onto, RetentionTyped, Pcs, Current, At
<1>2. Image' = Image /\ Healthy' = Healthy
  BY <1>1 DEF Image, At, Current, Healthy
<1>3. /\ Pending' = Pending /\ Sure = Pending /\ Sure' = Pending /\ Loose = Pending /\ Loose' = {}
      /\ Pending = {Current} \cap {Image}
  BY <1>1, <1>2 DEF Pending, Sure, Loose, At, Current
<1>4. /\ tags' = tags \ removed /\ left' = left \cup (Doomed \ removed) /\ UNCHANGED <<logs, running, logged>>
      /\ Doomed \subseteq tags /\ Image \notin Doomed
  BY DEF PruneImages, Doomed
<1>5. RetentionTyped'
  <2>1. Numbers(tags \ removed) /\ Numbers(left \cup (Doomed \ removed))
    <3>1. IsFiniteSet(tags \ removed) /\ IsFiniteSet(Doomed \ removed)
      BY <1>4, FS_Subset DEF RetentionTyped, Numbers
    <3> QED
      BY <1>4, <3>1, FS_Union DEF RetentionTyped, Numbers
  <2> QED
    BY <1>1, <1>4, <2>1 DEF RetentionTyped, At, Current, Numbers
<1>6. Placed \subseteq Placed' /\ tags \subseteq Placed /\ IsFiniteSet(Placed) /\ IsFiniteSet(Placed')
  <2>1. Placed \subseteq Placed' /\ tags \subseteq Placed
    BY <1>2, <1>3, <1>4 DEF Placed, PlacesInv
  <2>2. Len(history) \in Nat /\ Healthy \subseteq 1 .. Len(history) /\ IsFiniteSet(left) /\ IsFiniteSet(left')
    BY <1>5 DEF Healthy, RetentionTyped, Numbers
  <2>3. Placed \subseteq 1 .. Len(history) \cup left \cup {Current} /\ Placed' \subseteq 1 .. Len(history) \cup left' \cup {Current}
    BY <1>2, <1>3, <2>2 DEF Placed
  <2> QED
    BY <2>1, <2>2, <2>3, PlacedFinite
<1>7. ASSUME NEW n \in Healthy \ tags' PROVE Keep <= Cardinality(Above(Placed', n))
  <2>1. /\ Cardinality(Above(tags, n)) \in Nat /\ Cardinality(Above(Placed, n)) \in Nat /\ Cardinality(Above(Placed', n)) \in Nat
        /\ Cardinality(Above(tags, n)) <= Cardinality(Above(Placed, n))
        /\ Cardinality(Above(Placed, n)) <= Cardinality(Above(Placed', n))
    BY <1>6, AboveGrows
  <2>2. CASE n \in tags
    <3>1. Keep <= Cardinality(Above(tags, n))
      BY <1>4, <1>7, <2>1, <2>2, RetentionAssumption DEF Doomed, Newest, Above, RetentionAssumption
    <3> QED
      BY <2>1, <3>1, RetentionAssumption DEF RetentionAssumption
  <2>3. CASE n \notin tags
    BY <1>7, <2>1, <2>3, RetentionAssumption DEF PlacesInv, RetentionAssumption
  <2> QED
    BY <2>2, <2>3
<1>8. Cardinality(tags' \ (left' \cup Loose')) <= Keep + 1
  <2>1. /\ IsFiniteSet(Newest(tags)) /\ Cardinality(Newest(tags)) <= Keep /\ Cardinality(Newest(tags)) \in Nat
    BY NewestBound, FS_CardinalityType DEF RetentionTyped
  <2>2. IsFiniteSet(Newest(tags) \cup {Image}) /\ Cardinality(Newest(tags) \cup {Image}) <= Cardinality(Newest(tags)) + 1
    <3>1. CASE Image \in Newest(tags)
      <4> DEFINE T == Newest(tags)
      <4>1. T \cup {Image} = T
        BY <3>1
      <4>2. IsFiniteSet(T) /\ Cardinality(T) \in Nat
        BY <2>1
      <4> HIDE DEF T
      <4>3. IsFiniteSet(T \cup {Image}) /\ Cardinality(T \cup {Image}) = Cardinality(T)
        BY <4>1, <4>2, Zenon
      <4> QED
        BY <4>2, <4>3 DEF T
    <3>2. CASE Image \notin Newest(tags)
      BY <2>1, <3>2, FS_AddElement
    <3> QED
      BY <3>1, <3>2
  <2>3. tags' \ (left' \cup Loose') \subseteq Newest(tags) \cup {Image}
    BY <1>3, <1>4 DEF Doomed
  <2>4. /\ Cardinality(tags' \ (left' \cup Loose')) <= Cardinality(Newest(tags) \cup {Image})
        /\ Cardinality(tags' \ (left' \cup Loose')) \in Nat /\ Cardinality(Newest(tags) \cup {Image}) \in Nat
    BY <2>2, <2>3, FS_Subset, FS_CardinalityType
  <2> QED
    BY <2>1, <2>2, <2>4, RetentionAssumption DEF RetentionAssumption
<1>9. PlacesInv'
  <2>1. Pending' \subseteq tags' /\ tags' \subseteq Healthy' \cup left' \cup Pending'
    BY <1>2, <1>3, <1>4 DEF PlacesInv
  <2> QED
    BY <1>2, <1>7, <1>8, <2>1 DEF PlacesInv, Above
<1>10. RunningInv'
  BY <1>1, <1>4 DEF RunningInv, At
<1>11. LogsInv'
  BY <1>4 DEF LogsInv, Above
<1> QED
  BY <1>5, <1>9, <1>10, <1>11

\* The pruning of logs, and the end of the row.
LEMMA EndsKeep ==
    ASSUME RetentionInv
    PROVE  /\ \A removed \in SUBSET DoomedLogs : PruneLogs(removed) => RetentionInv'
           /\ \A status \in {"healthy", "deploying"} : FinishRow(status) => RetentionInv'
<1> USE DEF RetentionInv
<1>1. ASSUME NEW removed \in SUBSET DoomedLogs, PruneLogs(removed) PROVE RetentionInv'
  <2>1. /\ job'.pc = "finish" /\ job'.number = Current /\ job.pc = "logs"
        /\ job' \in [pc : Pcs, number : Nat] /\ history' = history /\ ~At("none")
    BY <1>1 DEF PruneLogs, Onto, RetentionTyped, Pcs, Current, At
  <2>2. logs' = logs \ removed /\ UNCHANGED <<tags, running, left, logged>> /\ DoomedLogs \subseteq logs
    BY <1>1 DEF PruneLogs, DoomedLogs
  <2>3. RetentionTyped'
    <3>1. IsFiniteSet(logs \ removed)
      BY FS_Subset DEF RetentionTyped, Numbers
    <3> QED
      BY <2>1, <2>2, <3>1 DEF RetentionTyped, At, Current, Numbers
  <2>4. Healthy' = Healthy /\ Pending' = Pending /\ Sure' = Sure /\ Loose' = Loose
    BY <2>1 DEF Healthy, Pending, Sure, Loose, At, Current, Image
  <2>5. PlacesInv'
    BY <2>2, <2>3, <2>4, PlacesGrow DEF PlacesInv, Placed
  <2>6. RunningInv'
    BY <2>1, <2>2 DEF RunningInv, At
  <2>7. ASSUME NEW n \in logged \ logs' PROVE Keep <= Cardinality(Above(logged, n))
    <3>1. /\ Cardinality(Above(logs, n)) \in Nat /\ Cardinality(Above(logged, n)) \in Nat
          /\ Cardinality(Above(logs, n)) <= Cardinality(Above(logged, n))
      BY AboveGrows DEF LogsInv, RetentionTyped, Numbers
    <3>2. CASE n \in logs
      BY <2>2, <2>7, <3>1, <3>2, RetentionAssumption DEF DoomedLogs, Newest, Above, RetentionAssumption
    <3>3. CASE n \notin logs
      BY <2>7, <3>3 DEF LogsInv
    <3> QED
      BY <3>2, <3>3
  <2>8. LogsInv'
    BY <2>2, <2>7 DEF LogsInv, Above
  <2> QED
    BY <2>3, <2>5, <2>6, <2>8
<1>2. ASSUME NEW status \in {"healthy", "deploying"}, FinishRow(status) PROVE RetentionInv'
  <2>1. /\ ~At("none") /\ Ended(status) /\ Pending = {Current} \cap {Image} /\ Sure = Pending /\ Loose = {}
        /\ UNCHANGED <<tags, logs, running, logged>>
        /\ left' = IF status = "healthy" THEN left ELSE left \cup ({Current} \cap tags)
    BY <1>2 DEF FinishRow, At, Pending, Sure, Loose
  <2>2. RetentionTyped'
    <3>1. Current \in Nat \ {0}
      BY <2>1 DEF RetentionTyped, Current
    <3>2. Numbers(left \cup ({Current} \cap tags)) /\ Numbers(left)
      BY <3>1, NumbersChange DEF RetentionTyped
    <3>3. Numbers(tags)' /\ Numbers(left)' /\ Numbers(logs)' /\ Numbers(logged)'
      BY <2>1, <3>2 DEF RetentionTyped, Numbers
    <3> QED
      BY <2>1, <3>3, EndedTypes
  <2>3. Healthy' = Healthy \cup (IF status = "healthy" THEN {Current} \cap {Image} ELSE {})
    BY <2>1, EndedPlaces
  <2>4. LogsInv'
    BY <2>1 DEF LogsInv, Above
  <2> QED
    BY <2>1, <2>2, <2>3, <2>4, EndedKeeps DEF PlacesInv, RunningInv
<1> QED
  BY <1>1, <1>2

\* Every step.
LEMMA RetentionSteps == ASSUME RetentionInv, RetentionNext PROVE RetentionInv'
<1>1. ASSUME StartBuild \/ StartImage PROVE RetentionInv'
  BY <1>1, CreatedKeeps DEF StartBuild, StartImage, NoTag, RetentionInv, RetentionTyped
<1>2. ASSUME NEW n \in DOMAIN history, Rollback(n) PROVE RetentionInv'
  <2>1. history[n] \in Row /\ n \in 1 .. Len(history) /\ history[n].image <= n /\ Len(history) \in Nat
    BY DEF RetentionInv, RetentionTyped
  <2>2. history[n].image \in Nat /\ history[n].image <= Len(history)
    BY <2>1 DEF Row
  <2> QED
    BY <1>2, <2>2, CreatedKeeps DEF Rollback
<1> QED
  BY <1>1, <1>2, FailuresKeep, RolloutKeeps, ImagesKeep, EndsKeep DEF RetentionNext

\* It holds at the start.
LEMMA RetentionStart ==
    ASSUME NEW leftover, IsFiniteSet(leftover), leftover \subseteq Nat \ {NoTag}, RetentionInit(leftover)
    PROVE  RetentionInv
<1>1. /\ history = <<>> /\ tags = leftover /\ left = leftover /\ logs = {} /\ logged = {} /\ running = NoTag
      /\ job = NoJob /\ DOMAIN history = {} /\ history \in Seq(Row) /\ Len(history) = 0
  BY DEF RetentionInit
<1>2. RetentionTyped
  BY <1>1, FS_EmptySet DEF RetentionTyped, Numbers, NoJob, NoTag, At, Pcs
<1>3. Healthy = {} /\ Pending = {} /\ Sure = {} /\ Loose = {}
  BY <1>1 DEF Healthy, Pending, Sure, Loose, At, NoJob
<1>4. tags \ (left \cup Loose) = {}
  BY <1>1, <1>3
<1>5. PlacesInv
  BY <1>1, <1>3, <1>4, FS_EmptySet, RetentionAssumption DEF PlacesInv, RetentionAssumption
<1> QED
  BY <1>1, <1>2, <1>5 DEF RetentionInv, RunningInv, LogsInv, NoJob, At

\* It implies the property.
LEMMA RetentionEnough == ASSUME RetentionInv PROVE RollbacksKept
<1>1. ASSUME At("none") PROVE Pending = {} /\ Sure = {} /\ Loose = {}
  BY <1>1 DEF Pending, Sure, Loose, At
<1> QED
  BY <1>1 DEF RetentionInv, PlacesInv, RunningInv, LogsInv, RollbacksKept, Placed, Above

\* However deploys and rollbacks end, the image that runs is there, a healthy
\* build is out of reach only when enough newer ones took its place, and the
\* tags are bounded (pruneBuiltImages, removeOrphanBuildImage, pruneBuildLogs).
THEOREM RollbacksStayPossible == Spec => []RollbacksKept
<1>1. Init => RetentionInv
  <2> SUFFICES ASSUME Init PROVE RetentionInv
    OBVIOUS
  <2>1. setting \in Settings /\ RetentionInit(setting.leftover)
    BY DEF Init, FollowInit
  <2>2. IsFiniteSet(setting.leftover) /\ setting.leftover \subseteq Nat \ {NoTag}
    BY <2>1, CliAssumption DEF CliAssumption
  <2> QED
    BY <2>1, <2>2, RetentionStart
<1>2. ASSUME RetentionInv, [Next]_vars PROVE RetentionInv'
  <2>1. CASE RetentionNext
    BY <1>2, <2>1, RetentionSteps
  <2>2. CASE UNCHANGED retentionVars
    BY <1>2, <2>2 DEF retentionVars, RetentionInv, RetentionTyped, PlacesInv, RunningInv, LogsInv,
       Pending, Sure, Loose, Placed, Above, Numbers, Healthy, At, Current, Image
  <2> QED
    BY <1>2, <2>1, <2>2 DEF Next, vars
<1>3. RetentionInv => RollbacksKept
  BY RetentionEnough
<1> QED
  BY <1>1, <1>2, <1>3, PTL DEF Spec

----------------------------------------------------------------------------
(* Loops. The theorems of the library about induction have an operator as  *)
(* a parameter; these have a set or a function, which a proof can name.    *)

\* What holds of 0, and of n + 1 when it does of n, holds of every number.
LEMMA NumbersFrom0 == ASSUME NEW S, 0 \in S, \A n \in Nat : n \in S => n + 1 \in S PROVE Nat \subseteq S
<1> SUFFICES ASSUME Nat \ S # {} PROVE FALSE
  OBVIOUS
<1>1. PICK x \in Nat \ S : \A y \in Nat \ S : ~(<<y, x>> \in OpToRel(<, Nat))
  BY NatLessThanWellFounded, WFMin
<1>2. \A y \in Nat \ S : ~(y < x)
  BY <1>1 DEF OpToRel
<1>3. x # 0 /\ x - 1 \in Nat /\ x - 1 \in S
  BY <1>2
<1> QED
  BY <1>3

\* The same of sequences.
LEMMA SequencesFromEmpty ==
    ASSUME NEW Y, NEW S, <<>> \in S,
           \A s \in Seq(Y) : \A y \in Y : s \in S => Append(s, y) \in S
    PROVE  Seq(Y) \subseteq S
<1> DEFINE Good == {n \in Nat : \A s \in Seq(Y) : Len(s) = n => s \in S}
<1>1. 0 \in Good
  <2>1. ASSUME NEW s \in Seq(Y), Len(s) = 0 PROVE s = <<>>
    BY <2>1, EmptySeq
  <2> QED
    BY <2>1
<1>2. ASSUME NEW n \in Nat, n \in Good PROVE n + 1 \in Good
  <2>1. ASSUME NEW s \in Seq(Y), Len(s) = n + 1 PROVE s \in S
    <3>1. s # <<>>
      BY <2>1, EmptySeq
    <3>2. PICK t \in Seq(Y), y \in Y : s = Append(t, y)
      BY <3>1, SequenceEmptyOrAppend
    <3>3. Len(t) = n
      BY <2>1, <3>2, AppendProperties, LenProperties
    <3> QED
      BY <1>2, <3>2, <3>3
  <2> QED
    BY <2>1
<1> HIDE DEF Good
<1>3. Nat \subseteq Good
  BY <1>1, <1>2, NumbersFrom0
<1> QED
  BY <1>3, LenProperties DEF Good

IsBody(X, Y, body) == body \in [X -> [Y -> X]]

\* The values of a loop before and after its first n elements.
Carries(body, start, s, n, g) ==
    g = [i \in 0..n |-> IF i = 0 THEN start ELSE body[g[i - 1]][s[i]]]
Carried(body, start, s) == CHOOSE g : Carries(body, start, s, Len(s), g)

\* There are such values.
LEMMA LoopExists ==
    ASSUME NEW X, NEW Y, NEW start \in X, NEW body, IsBody(X, Y, body), NEW s \in Seq(Y)
    PROVE  /\ Carries(body, start, s, Len(s), Carried(body, start, s))
           /\ Loop(body, start, s) = Carried(body, start, s)[Len(s)]
           /\ Carried(body, start, s) \in [0..Len(s) -> X]
<1> DEFINE N == Len(s)
           Good == {n \in Nat : n <= N => \E g \in [0..n -> X] : Carries(body, start, s, n, g)}
<1>0. N \in Nat /\ \A i \in 1..N : s[i] \in Y
  BY LenProperties, ElementOfSeq
<1>1. 0 \in Good
  <2> DEFINE g == [i \in 0..0 |-> start]
  <2>1. g \in [0..0 -> X] /\ Carries(body, start, s, 0, g)
    BY DEF Carries
  <2> HIDE DEF g
  <2> QED
    BY <2>1
<1>2. ASSUME NEW n \in Nat, n \in Good PROVE n + 1 \in Good
  <2> SUFFICES ASSUME n + 1 <= N PROVE \E g \in [0..(n + 1) -> X] : Carries(body, start, s, n + 1, g)
    OBVIOUS
  <2>1. PICK g \in [0..n -> X] : Carries(body, start, s, n, g)
    BY <1>0, <1>2
  <2>2. g[n] \in X /\ s[n + 1] \in Y
    BY <1>0, <2>1
  <2> DEFINE last == body[g[n]][s[n + 1]]
             h == [i \in 0..(n + 1) |-> IF i = n + 1 THEN last ELSE g[i]]
  <2>3. last \in X
    BY <2>2 DEF IsBody
  <2>4. h \in [0..(n + 1) -> X] /\ h[n + 1] = last /\ \A i \in 0..n : h[i] = g[i]
    <3>1. \A i \in 0..(n + 1) : i = n + 1 \/ i \in 0..n
      OBVIOUS
    <3> HIDE DEF last
    <3> QED
      BY <2>1, <2>3, <3>1
  <2> HIDE DEF h, last
  <2>5. ASSUME NEW i \in 0..(n + 1) PROVE h[i] = IF i = 0 THEN start ELSE body[h[i - 1]][s[i]]
    <3>1. CASE i \in 0..n
      <4>1. g[i] = IF i = 0 THEN start ELSE body[g[i - 1]][s[i]]
        BY <2>1, <3>1 DEF Carries
      <4> QED
        <5>1. i # 0 => i - 1 \in 0..n
          BY <3>1
        <5> QED
          BY <2>4, <3>1, <4>1, <5>1
    <3>2. CASE i = n + 1
      <4>1. i # 0 /\ i - 1 = n /\ n \in 0..n
        BY <3>2
      <4>2. h[i - 1] = g[n]
        BY <2>4, <4>1
      <4> QED
        BY <2>4, <3>2, <4>1, <4>2 DEF last
    <3>3. i \in 0..n \/ i = n + 1
      OBVIOUS
    <3> QED
      BY <3>1, <3>2, <3>3
  <2>6. Carries(body, start, s, n + 1, h)
    BY <2>4, <2>5 DEF Carries
  <2> QED
    BY <2>4, <2>6
<1> HIDE DEF Good
<1>3. N \in Good
  BY <1>0, <1>1, <1>2, NumbersFrom0
<1>4. Carries(body, start, s, N, Carried(body, start, s))
  BY <1>0, <1>3 DEF Good, Carried
<1> DEFINE c == Carried(body, start, s)
<1> HIDE DEF c
<1>5. c = [i \in 0..N |-> IF i = 0 THEN start ELSE body[c[i - 1]][s[i]]]
  BY <1>4 DEF Carries, c
<1>11. \A i \in 0..N : c[i] = IF i = 0 THEN start ELSE body[c[i - 1]][s[i]]
  BY <1>5
<1> DEFINE Typed == {n \in Nat : n <= N => c[n] \in X}
<1>6. 0 \in Typed
  <2>1. 0 \in 0..N
    BY <1>0
  <2> QED
    BY <1>11, <2>1
<1>7. ASSUME NEW n \in Nat, n \in Typed PROVE n + 1 \in Typed
  <2> SUFFICES ASSUME n + 1 <= N PROVE c[n + 1] \in X
    OBVIOUS
  <2>1. c[n] \in X /\ s[n + 1] \in Y
    BY <1>0, <1>7
  <2>2. c[n + 1] = body[c[n]][s[n + 1]]
    <3>1. n + 1 \in 0..N /\ n + 1 # 0 /\ (n + 1) - 1 = n
      BY <1>0
    <3> QED
      BY <1>11, <3>1
  <2> QED
    BY <2>1, <2>2 DEF IsBody
<1> HIDE DEF Typed
<1>8. \A n \in Nat : n <= N => c[n] \in X
  <2>1. Nat \subseteq Typed
    BY <1>6, <1>7, NumbersFrom0
  <2> QED
    BY <2>1 DEF Typed
<1>9. c \in [0..N -> X]
  <2>1. \A i \in 0..N : c[i] \in X
    BY <1>0, <1>8
  <2>2. c = [i \in 0..N |-> c[i]]
    BY <1>5
  <2> QED
    BY <2>1, <2>2
<1>10. Loop(body, start, s) = c[N]
  BY DEF Loop, c, Carried, Carries
<1> QED
  BY <1>4, <1>9, <1>10 DEF c

\* What a loop computes, element by element.
LEMMA LoopStarts ==
    ASSUME NEW X, NEW Y, NEW start \in X, NEW body, IsBody(X, Y, body)
    PROVE  Loop(body, start, <<>>) = start
<1> DEFINE none == <<>>
<1>1. none \in Seq(Y) /\ Len(none) = 0
  BY EmptySeq
<1> HIDE DEF none
<1>2. ASSUME NEW s \in Seq(Y), Len(s) = 0 PROVE Loop(body, start, s) = start
  <2>1. Carries(body, start, s, Len(s), Carried(body, start, s))
        /\ Loop(body, start, s) = Carried(body, start, s)[Len(s)]
    BY LoopExists
  <2> QED
    BY <1>2, <2>1 DEF Carries
<1>3. Loop(body, start, none) = start
  BY <1>1, <1>2
<1> QED
  BY <1>3 DEF none

LEMMA LoopTyped ==
    ASSUME NEW X, NEW Y, NEW start \in X, NEW body, IsBody(X, Y, body), NEW s \in Seq(Y)
    PROVE  Loop(body, start, s) \in X
BY LoopExists, LenProperties

LEMMA LoopAppends ==
    ASSUME NEW X, NEW Y, NEW start \in X, NEW body, IsBody(X, Y, body), NEW s \in Seq(Y), NEW y \in Y
    PROVE  Loop(body, start, Append(s, y)) = body[Loop(body, start, s)][y]
<1> DEFINE N == Len(s)
           t == Append(s, y)
           c == Carried(body, start, s)
           d == Carried(body, start, t)
<1>1. N \in Nat /\ t \in Seq(Y) /\ Len(t) = N + 1 /\ t[N + 1] = y /\ \A i \in 1..N : t[i] = s[i]
  BY AppendProperties, LenProperties
<1>2. Carries(body, start, s, N, c) /\ Loop(body, start, s) = c[N]
  BY LoopExists
<1>3. Carries(body, start, t, N + 1, d) /\ Loop(body, start, t) = d[N + 1]
  BY <1>1, LoopExists
<1> HIDE DEF t, c, d
<1>4. /\ \A i \in 0..N : c[i] = IF i = 0 THEN start ELSE body[c[i - 1]][s[i]]
      /\ \A i \in 0..(N + 1) : d[i] = IF i = 0 THEN start ELSE body[d[i - 1]][t[i]]
  BY <1>2, <1>3 DEF Carries
<1> DEFINE Same == {n \in Nat : n <= N => d[n] = c[n]}
<1>5. 0 \in Same
  <2>1. 0 \in 0..N /\ 0 \in 0..(N + 1)
    BY <1>1
  <2> QED
    BY <1>4, <2>1
<1>6. ASSUME NEW n \in Nat, n \in Same PROVE n + 1 \in Same
  <2> SUFFICES ASSUME n + 1 <= N PROVE d[n + 1] = c[n + 1]
    OBVIOUS
  <2>1. /\ n + 1 \in 0..N /\ n + 1 \in 0..(N + 1) /\ n + 1 # 0 /\ (n + 1) - 1 = n
        /\ n + 1 \in 1..N /\ n <= N
    BY <1>1
  <2>2. d[n + 1] = body[d[n]][t[n + 1]] /\ c[n + 1] = body[c[n]][s[n + 1]]
    BY <1>4, <2>1
  <2>3. d[n] = c[n] /\ t[n + 1] = s[n + 1]
    BY <1>1, <1>6, <2>1
  <2> QED
    BY <2>2, <2>3
<1> HIDE DEF Same
<1>7. N \in Same
  BY <1>1, <1>5, <1>6, NumbersFrom0
<1>8. d[N] = c[N] /\ d[N + 1] = body[d[N]][y]
  <2>1. N + 1 \in 0..(N + 1) /\ N + 1 # 0 /\ (N + 1) - 1 = N /\ N <= N
    BY <1>1
  <2>2. d[N] = c[N]
    BY <1>7, <2>1 DEF Same
  <2> QED
    BY <1>1, <1>4, <2>1, <2>2
<1> QED
  BY <1>2, <1>3, <1>8 DEF t

----------------------------------------------------------------------------
(* Logins.                                                                 *)

\* The loop of Allow.
LEMMA AfterSteps ==
    ASSUME NEW v \in Int
    PROVE  /\ After(<<>>, v) = <<>>
           /\ \A s \in Seq(Nat) : /\ After(s, v) \in Seq(Nat)
                                  /\ \A t \in Nat : After(Append(s, t), v) = IF t > v THEN Append(After(s, v), t)
                                                                             ELSE After(s, v)
<1> DEFINE body == [kept \in Seq(Nat) |-> [t \in Nat |-> IF t > v THEN Append(kept, t) ELSE kept]]
<1>1. IsBody(Seq(Nat), Nat, body)
  BY AppendProperties DEF IsBody
<1>2. \A s \in Seq(Nat), t \in Nat : body[s][t] = IF t > v THEN Append(s, t) ELSE s
  OBVIOUS
<1> DEFINE none == <<>>
<1>3. \A s : After(s, v) = Loop(body, none, s)
  BY DEF After
<1>4. none \in Seq(Nat)
  BY EmptySeq
<1> HIDE DEF body
<1>5. Loop(body, none, none) = none
  BY <1>1, <1>4, LoopStarts
<1> HIDE DEF none
<1>6. ASSUME NEW s \in Seq(Nat) PROVE Loop(body, none, s) \in Seq(Nat)
  BY <1>1, <1>4, LoopTyped
<1>7. ASSUME NEW s \in Seq(Nat), NEW t \in Nat
      PROVE  Loop(body, none, Append(s, t)) = body[Loop(body, none, s)][t]
  BY <1>1, <1>4, LoopAppends
<1>8. ASSUME NEW s \in Seq(Nat), NEW t \in Nat
      PROVE  After(Append(s, t), v) = IF t > v THEN Append(After(s, v), t) ELSE After(s, v)
  <2>1. body[Loop(body, none, s)][t] = IF t > v THEN Append(Loop(body, none, s), t) ELSE Loop(body, none, s)
    BY <1>2, <1>6
  <2> QED
    BY <1>3, <1>7, <2>1
<1>9. After(none, v) = none
  BY <1>3, <1>5
<1>10. \A s \in Seq(Nat) : After(s, v) \in Seq(Nat)
  BY <1>3, <1>6
<1> QED
  BY <1>8, <1>9, <1>10 DEF none

Within(s, low, high) == \A i \in 1..Len(s) : low < s[i] /\ s[i] <= high
Sorted(s) == \A i, j \in 1..Len(s) : i <= j => s[i] <= s[j]

\* What Append does to both.
LEMMA AppendedTimes ==
    ASSUME NEW s \in Seq(Nat), NEW t \in Nat
    PROVE  /\ \A low, high \in Int : Within(Append(s, t), low, high)
                                        <=> Within(s, low, high) /\ low < t /\ t <= high
           /\ Sorted(Append(s, t)) <=> Sorted(s) /\ \A i \in 1..Len(s) : s[i] <= t
<1> DEFINE N == Len(s)
           u == Append(s, t)
<1>1. /\ N \in Nat /\ Len(u) = N + 1 /\ u[N + 1] = t
      /\ \A i \in 1..N : u[i] = s[i] /\ s[i] \in Nat
  BY AppendProperties, LenProperties, ElementOfSeq
<1> HIDE DEF u
<1>2. \A i : i \in 1..(N + 1) <=> i \in 1..N \/ i = N + 1
  BY <1>1
<1>3. ASSUME NEW low \in Int, NEW high \in Int
      PROVE  Within(u, low, high) <=> Within(s, low, high) /\ low < t /\ t <= high
  BY <1>1, <1>2 DEF Within
<1>4. Sorted(u) <=> Sorted(s) /\ \A i \in 1..N : s[i] <= t
  <2>1. ASSUME Sorted(u) PROVE Sorted(s) /\ \A i \in 1..N : s[i] <= t
    <3>1. \A i, j \in 1..(N + 1) : i <= j => u[i] <= u[j]
      BY <1>1, <2>1 DEF Sorted
    <3>2. ASSUME NEW i \in 1..N PROVE s[i] <= t
      BY <1>1, <1>2, <3>1
    <3>3. ASSUME NEW i \in 1..N, NEW j \in 1..N, i <= j PROVE s[i] <= s[j]
      BY <1>1, <1>2, <3>1, <3>3
    <3> QED
      BY <3>2, <3>3 DEF Sorted
  <2>2. ASSUME Sorted(s), \A i \in 1..N : s[i] <= t PROVE Sorted(u)
    <3>1. ASSUME NEW i \in 1..(N + 1), NEW j \in 1..(N + 1), i <= j PROVE u[i] <= u[j]
      <4>1. CASE j \in 1..N
        <5>1. i \in 1..N
          BY <1>1, <3>1, <4>1
        <5> QED
          BY <1>1, <2>2, <3>1, <4>1, <5>1 DEF Sorted
      <4>2. CASE j = N + 1
        BY <1>1, <1>2, <2>2, <4>2
      <4> QED
        BY <1>2, <4>1, <4>2
    <3> QED
      BY <1>1, <3>1 DEF Sorted
  <2> QED
    BY <2>1, <2>2
<1> QED
  BY <1>3, <1>4 DEF u

\* What the loop keeps is in order, of the same range, after the cutoff.
LEMMA AfterBounds ==
    ASSUME NEW v \in Int, NEW s \in Seq(Nat)
    PROVE  /\ Len(After(s, v)) <= Len(s)
           /\ \A high \in Int : (\A i \in 1..Len(s) : s[i] <= high) => Within(After(s, v), v, high)
           /\ Sorted(s) => Sorted(After(s, v))
<1> DEFINE Bounded(u, high) == \A i \in 1..Len(u) : u[i] <= high
           Good == {u \in Seq(Nat) : /\ Len(After(u, v)) <= Len(u)
                                     /\ \A high \in Int : Bounded(u, high) => Within(After(u, v), v, high)
                                     /\ Sorted(u) => Sorted(After(u, v))}
<1>1. <<>> \in Good
  <2>1. <<>> \in Seq(Nat) /\ Len(<<>>) = 0 /\ After(<<>>, v) = <<>>
    BY EmptySeq, AfterSteps
  <2> QED
    BY <2>1 DEF Within
<1>2. ASSUME NEW u \in Seq(Nat), NEW t \in Nat, u \in Good PROVE Append(u, t) \in Good
  <2> DEFINE w == Append(u, t)
  <2>1. /\ w \in Seq(Nat) /\ Len(w) = Len(u) + 1 /\ Len(u) \in Nat /\ w[Len(u) + 1] = t
        /\ \A i \in 1..Len(u) : w[i] = u[i]
    BY AppendProperties, LenProperties
  <2>2. /\ After(u, v) \in Seq(Nat) /\ Len(After(u, v)) \in Nat
        /\ After(w, v) = IF t > v THEN Append(After(u, v), t) ELSE After(u, v)
    BY AfterSteps, LenProperties
  <2>3. Len(Append(After(u, v), t)) = Len(After(u, v)) + 1
    BY <2>2, AppendProperties
  <2>4. Len(After(w, v)) <= Len(w)
    BY <1>2, <2>1, <2>2, <2>3
  <2>5. ASSUME NEW high \in Int, Bounded(w, high) PROVE Within(After(w, v), v, high)
    <3>1. Bounded(u, high) /\ t <= high
      <4>1. \A i \in 1..Len(u) : i \in 1..Len(w)
        BY <2>1
      <4>2. Len(u) + 1 \in 1..Len(w)
        BY <2>1
      <4> HIDE DEF w
      <4> QED
        BY <2>1, <2>5, <4>1, <4>2
    <3>2. Within(After(u, v), v, high)
      BY <1>2, <3>1
    <3>3. t > v => Within(Append(After(u, v), t), v, high)
      BY <2>2, <3>1, <3>2, AppendedTimes
    <3> QED
      BY <2>2, <3>2, <3>3
  <2>6. ASSUME Sorted(w) PROVE Sorted(After(w, v))
    <3>1. Sorted(u) /\ Bounded(u, t)
      BY <2>6, AppendedTimes
    <3>2. Sorted(After(u, v)) /\ Within(After(u, v), v, t)
      BY <1>2, <3>1
    <3>3. Sorted(Append(After(u, v), t))
      BY <2>2, <3>2, AppendedTimes DEF Within
    <3> QED
      BY <2>2, <3>2, <3>3
  <2> QED
    BY <2>1, <2>4, <2>5, <2>6
<1> HIDE DEF Good
<1>3. s \in Good
  BY <1>1, <1>2, SequencesFromEmpty
<1> QED
  BY <1>3 DEF Good

\* Times that are all after the cutoff stay, times that are not go, and a later
\* cutoff makes an earlier one needless.
LEMMA AfterAll ==
    ASSUME NEW v \in Int, NEW s \in Seq(Nat)
    PROVE  /\ (\A i \in 1..Len(s) : s[i] > v) => After(s, v) = s
           /\ (\A i \in 1..Len(s) : s[i] <= v) => After(s, v) = <<>>
           /\ \A w \in Int : w >= v => After(After(s, v), w) = After(s, w)
<1> DEFINE Good == {u \in Seq(Nat) : /\ (\A i \in 1..Len(u) : u[i] > v) => After(u, v) = u
                                     /\ (\A i \in 1..Len(u) : u[i] <= v) => After(u, v) = <<>>
                                     /\ \A w \in Int : w >= v => After(After(u, v), w) = After(u, w)}
<1>1. <<>> \in Good
  <2>1. <<>> \in Seq(Nat) /\ \A w \in Int : After(<<>>, w) = <<>>
    BY EmptySeq, AfterSteps
  <2> QED
    BY <2>1
<1>2. ASSUME NEW u \in Seq(Nat), NEW t \in Nat, u \in Good PROVE Append(u, t) \in Good
  <2> DEFINE x == Append(u, t)
  <2>1. /\ x \in Seq(Nat) /\ Len(x) = Len(u) + 1 /\ Len(u) \in Nat /\ x[Len(u) + 1] = t
        /\ \A i \in 1..Len(u) : x[i] = u[i]
    BY AppendProperties, LenProperties
  <2>2. ASSUME NEW w \in Int
        PROVE  /\ After(u, w) \in Seq(Nat)
               /\ After(x, w) = IF t > w THEN Append(After(u, w), t) ELSE After(u, w)
    BY AfterSteps
  <2>3. (\A i \in 1..Len(u) : i \in 1..Len(x)) /\ Len(u) + 1 \in 1..Len(x)
    BY <2>1
  <2>8. x = Append(u, t)
    OBVIOUS
  <2> HIDE DEF x
  <2>4. ASSUME \A i \in 1..Len(x) : x[i] > v PROVE After(x, v) = x
    <3>1. t > v /\ \A i \in 1..Len(u) : u[i] > v
      BY <2>1, <2>3, <2>4
    <3> QED
      BY <1>2, <2>2, <2>8, <3>1
  <2>5. ASSUME \A i \in 1..Len(x) : x[i] <= v PROVE After(x, v) = <<>>
    <3>1. t <= v /\ \A i \in 1..Len(u) : u[i] <= v
      BY <2>1, <2>3, <2>5
    <3> QED
      BY <1>2, <2>2, <3>1
  <2>6. ASSUME NEW w \in Int, w >= v PROVE After(After(x, v), w) = After(x, w)
    <3>1. After(After(u, v), w) = After(u, w)
      BY <1>2, <2>6
    <3>2. CASE t > v
      <4>1. After(Append(After(u, v), t), w)
              = IF t > w THEN Append(After(After(u, v), w), t) ELSE After(After(u, v), w)
        BY <2>2, AfterSteps
      <4> QED
        BY <2>2, <3>1, <3>2, <4>1
    <3>3. CASE ~(t > v)
      BY <2>2, <2>6, <3>1, <3>3
    <3> QED
      BY <3>2, <3>3
  <2> QED
    BY <2>1, <2>4, <2>5, <2>6, <2>8
<1> HIDE DEF Good
<1>3. s \in Good
  BY <1>1, <1>2, SequencesFromEmpty
<1> QED
  BY <1>3 DEF Good

\* What a limiter has recorded of a key, and which limiter knows it.
TimesOf(l, k) == IF k \in Seen(l) THEN l.attempts[k] ELSE <<>>
Limiter(k) == IF k = "global" THEN all ELSE own
Start == clock - Window

LimiterTyped(l) ==
    /\ l = [attempts |-> l.attempts, swept |-> l.swept]
    /\ \A k \in Seen(l) : /\ l.attempts[k] \in Seq(Nat) /\ Sorted(l.attempts[k])
                          /\ \A i \in 1..Len(l.attempts[k]) : l.attempts[k][i] <= clock

\* What is recorded of a key, seen or not, is in order and not of the future.
LEMMA TimesTyped ==
    ASSUME NEW l, LimiterTyped(l), NEW k
    PROVE  /\ TimesOf(l, k) \in Seq(Nat) /\ Sorted(TimesOf(l, k))
           /\ \A i \in 1..Len(TimesOf(l, k)) : TimesOf(l, k)[i] <= clock
<1>1. CASE k \in Seen(l)
  BY <1>1 DEF LimiterTyped, TimesOf
<1>2. CASE k \notin Seen(l)
  <2> DEFINE none == <<>>
  <2>1. none \in Seq(Nat) /\ Len(none) = 0
    BY EmptySeq
  <2>2. TimesOf(l, k) = none
    BY <1>2 DEF TimesOf
  <2> HIDE DEF none
  <2> QED
    BY <2>1, <2>2 DEF Sorted
<1> QED
  BY <1>1, <1>2

\* What is stale is before the window.
LEMMA StaleIsBefore ==
    ASSUME clock \in Int, Window \in Int, NEW s \in Seq(Nat), Sorted(s), Stale(s), NEW v \in Int, v >= Start
    PROVE  After(s, v) = <<>>
<1>1. CASE s = <<>>
  BY <1>1, AfterSteps
<1>2. CASE s # <<>>
  <2>1. Len(s) \in Nat \ {0} /\ Last(s) = s[Len(s)] /\ \A i \in 1..Len(s) : s[i] \in Nat
    BY <1>2, EmptySeq, LenProperties, ElementOfSeq DEF Last
  <2>2. s[Len(s)] < Start
    BY <1>2, <2>1 DEF Stale, Start
  <2>3. ASSUME NEW i \in 1..Len(s) PROVE s[i] <= v
    <3>1. s[i] <= s[Len(s)]
      BY <2>1 DEF Sorted
    <3> QED
      BY <2>1, <2>2, <3>1 DEF Start
  <2> QED
    BY <2>3, AfterAll
<1> QED
  BY <1>1, <1>2

\* A sweep forgets nothing that is within the window.
LEMMA SweptKeeps ==
    ASSUME clock \in Nat, Window \in Nat, NEW l, LimiterTyped(l)
    PROVE  /\ LimiterTyped(Swept(l))
           /\ \A k : \A v \in Int : v >= Start => After(TimesOf(Swept(l), k), v) = After(TimesOf(l, k), v)
<1>1. CASE Swept(l) = l
  BY <1>1
<1>2. CASE Swept(l) # l
  <2> DEFINE m == [k \in {key \in Seen(l) : ~Stale(l.attempts[key])} |-> l.attempts[k]]
  <2>1. Swept(l) = [swept |-> clock, attempts |-> m]
    BY <1>2 DEF Swept
  <2>2. Seen(Swept(l)) = {key \in Seen(l) : ~Stale(l.attempts[key])}
        /\ \A k \in Seen(Swept(l)) : Swept(l).attempts[k] = l.attempts[k]
    BY <2>1 DEF Seen
  <2>3. LimiterTyped(Swept(l))
    <3>1. Swept(l) = [attempts |-> Swept(l).attempts, swept |-> Swept(l).swept]
      BY <2>1
    <3> QED
      BY <2>2, <3>1 DEF LimiterTyped
  <2>4. ASSUME NEW k, NEW v \in Int, v >= Start PROVE After(TimesOf(Swept(l), k), v) = After(TimesOf(l, k), v)
    <3>1. CASE k \in Seen(Swept(l)) \/ k \notin Seen(l)
      BY <2>2, <3>1 DEF TimesOf
    <3>2. CASE k \notin Seen(Swept(l)) /\ k \in Seen(l)
      <4>1. Stale(l.attempts[k]) /\ l.attempts[k] \in Seq(Nat) /\ Sorted(l.attempts[k])
        BY <2>2, <3>2 DEF LimiterTyped
      <4>2. After(l.attempts[k], v) = <<>> /\ After(<<>>, v) = <<>>
        BY <2>4, <4>1, StaleIsBefore, AfterSteps
      <4> QED
        BY <3>2, <4>2 DEF TimesOf
    <3> QED
      BY <3>1, <3>2
  <2> QED
    BY <2>3, <2>4
<1> QED
  BY <1>1, <1>2

\* The times a limiter counts for a key.
LEMMA InWindowIs ==
    ASSUME clock \in Nat, Window \in Nat, NEW l, NEW k
    PROVE  InWindow(l, k) = After(TimesOf(l, k), Start)
BY AfterSteps DEF InWindow, TimesOf, Start

\* A failure that is counted is added below the limit, and nothing else is forgotten.
LEMMA CountedKeeps ==
    ASSUME clock \in Nat, Window \in Nat \ {0}, NEW l, LimiterTyped(l), NEW key, NEW limit
    PROVE  /\ LimiterTyped(Counted(l, key, limit))
           /\ \A k : \A v \in Int : v >= Start =>
                 After(TimesOf(Counted(l, key, limit), k), v) =
                   IF k = key /\ Len(After(TimesOf(l, key), Start)) < limit /\ v < clock
                   THEN Append(After(TimesOf(l, k), v), clock) ELSE After(TimesOf(l, k), v)
<1> DEFINE s == Swept(l)
           kept == InWindow(s, key)
           now == IF Len(kept) < limit THEN Append(kept, clock) ELSE kept
           n == Counted(l, key, limit)
<1>0. Start \in Int /\ Start < clock
  BY DEF Start
<1>1. LimiterTyped(s) /\ \A k : \A v \in Int : v >= Start => After(TimesOf(s, k), v) = After(TimesOf(l, k), v)
  BY SweptKeeps
<1>2. kept = After(TimesOf(s, key), Start) /\ kept = After(TimesOf(l, key), Start)
  BY <1>0, <1>1, InWindowIs
<1>3. /\ kept \in Seq(Nat) /\ Sorted(kept) /\ Within(kept, Start, clock)
      /\ \A v \in Int : v >= Start => After(kept, v) = After(TimesOf(l, key), v)
  <2>1. TimesOf(s, key) \in Seq(Nat) /\ Sorted(TimesOf(s, key))
        /\ \A i \in 1..Len(TimesOf(s, key)) : TimesOf(s, key)[i] <= clock
    BY <1>1, TimesTyped
  <2>2. TimesOf(l, key) \in Seq(Nat)
    BY TimesTyped
  <2>3. ASSUME NEW w \in Seq(Nat), NEW v \in Int, v >= Start
        PROVE  After(After(w, Start), v) = After(w, v)
    BY <1>0, <2>3, AfterAll
  <2>4. ASSUME NEW w \in Seq(Nat), Sorted(w), \A i \in 1..Len(w) : w[i] <= clock
        PROVE  After(w, Start) \in Seq(Nat) /\ Sorted(After(w, Start)) /\ Within(After(w, Start), Start, clock)
    <3>1. clock \in Int
      OBVIOUS
    <3> QED
      BY <1>0, <2>4, <3>1, AfterSteps, AfterBounds
  <2>5. kept \in Seq(Nat) /\ Sorted(kept) /\ Within(kept, Start, clock)
    BY <1>2, <2>1, <2>4
  <2> QED
    BY <1>2, <2>2, <2>3, <2>5
<1>4. n = [s EXCEPT !.attempts = [k \in Seen(s) \cup {key} |-> IF k = key THEN now ELSE s.attempts[k]]]
  BY DEF Counted
<1> HIDE DEF n
<1>5. /\ n = [attempts |-> n.attempts, swept |-> n.swept]
      /\ n.attempts = [k \in Seen(s) \cup {key} |-> IF k = key THEN now ELSE s.attempts[k]]
  <2> HIDE DEF now, s
  <2>1. s = [attempts |-> s.attempts, swept |-> s.swept]
    BY <1>1 DEF LimiterTyped
  <2> QED
    BY <1>4, <2>1
<1> HIDE DEF s, kept
<1>6. now \in Seq(Nat) /\ Sorted(now) /\ \A i \in 1..Len(now) : now[i] <= clock
  <2>1. Within(Append(kept, clock), Start, clock) /\ Sorted(Append(kept, clock))
    <3>1. (\A i \in 1..Len(kept) : kept[i] <= clock) /\ clock \in Int
      BY <1>3 DEF Within
    <3> QED
      BY <1>0, <1>3, <3>1, AppendedTimes
  <2>3. Within(now, Start, clock) /\ Sorted(now)
    BY <1>3, <2>1
  <2>2. now \in Seq(Nat)
    BY <1>3, AppendProperties
  <2> HIDE DEF now
  <2> QED
    BY <2>2, <2>3 DEF Within
<1>7. ASSUME NEW v \in Int, v >= Start
      PROVE  After(now, v) = IF Len(kept) < limit /\ v < clock THEN Append(After(kept, v), clock) ELSE After(kept, v)
  BY <1>3, <1>7, AfterSteps
<1> HIDE DEF now
<1>8. LimiterTyped(n)
  BY <1>1, <1>5, <1>6 DEF LimiterTyped, Seen
<1>9. TimesOf(n, key) = now /\ \A k : k # key => TimesOf(n, k) = TimesOf(s, k)
  BY <1>5 DEF TimesOf, Seen
<1>10. ASSUME NEW k, NEW v \in Int, v >= Start
       PROVE  After(TimesOf(n, k), v) =
                IF k = key /\ Len(kept) < limit /\ v < clock
                THEN Append(After(TimesOf(l, k), v), clock) ELSE After(TimesOf(l, k), v)
  <2>1. CASE k = key
    BY <1>3, <1>7, <1>9, <1>10, <2>1
  <2>2. CASE k # key
    BY <1>1, <1>9, <1>10, <2>2
  <2> QED
    BY <2>1, <2>2
<1> QED
  BY <1>2, <1>8, <1>10 DEF n

LimitedKeys == {address[c] : c \in Callers} \cup {"global"}
Alone(k) == ~beside \/ Cardinality(From(k)) = 1
Busy(c) == login[c] \in {"peek all", "verify", "count", "count all"}

Steps == {"idle", "refused", "peek all", "verify", "count", "count all"}

\* The steps of those that have been let through for a key, and have yet to count.
Through(k) == IF k = "global" THEN {"verify", "count", "count all"} ELSE {"peek all", "verify", "count"}

LoginTyped ==
    /\ clock \in Nat /\ beside \in BOOLEAN
    /\ \A c \in Callers : address[c] # "global"
    /\ login \in [Callers -> Steps]
    /\ LimiterTyped(own) /\ LimiterTyped(all)
    /\ failed = [k \in LimitedKeys |-> failed[k]]
    /\ \A k \in LimitedKeys : failed[k] \in Seq(Nat) /\ Within(failed[k], Start, clock)

\* The limiters count no failure that was not, and every one of a key whose
\* requests come one after the other: now and at any later time.
CountsInv ==
    \A k \in LimitedKeys : \A v \in Int : v >= Start =>
        /\ Len(After(TimesOf(Limiter(k), k), v)) <= Len(After(failed[k], v))
        /\ Alone(k) => Len(After(TimesOf(Limiter(k), k), v)) = Len(After(failed[k], v))

RoomInv ==
    /\ beside \/ \A c, d \in Callers : Busy(c) /\ Busy(d) => c = d
    /\ \A k \in LimitedKeys : Alone(k) =>
         /\ Len(failed[k]) <= Limit(k)
         /\ \A c \in From(k) : login[c] \in Through(k) => Len(failed[k]) < Limit(k)

LoginInv == LoginTyped /\ CountsInv /\ RoomInv

LEMMA LimitTyped == ASSUME NEW k PROVE Limit(k) \in Nat
BY LoginAssumption DEF LoginAssumption, Limit

\* Of a key whose requests come one after the other, at most one is under way.
LEMMA OneAtATime ==
    ASSUME LoginInv, NEW k, Alone(k), NEW c \in From(k), NEW d \in From(k), Busy(c), Busy(d)
    PROVE  c = d
<1>1. From(k) \subseteq Callers
  BY DEF From
<1>2. CASE ~beside
  BY <1>1, <1>2 DEF LoginInv, RoomInv
<1>3. CASE Cardinality(From(k)) = 1
  <2>1. IsFiniteSet(From(k))
    BY <1>1, LoginAssumption, FS_Subset DEF LoginAssumption
  <2> QED
    BY <1>3, <2>1, FS_Singleton
<1> QED
  BY <1>2, <1>3 DEF Alone

\* What an answer of Blocked says of the failures.
LEMMA BlockedSays ==
    ASSUME LoginInv, NEW k \in LimitedKeys
    PROVE  /\ Len(failed[k]) \in Nat
           /\ Blocked(Limiter(k), k, Limit(k)) => Len(failed[k]) >= Limit(k)
           /\ ~Blocked(Limiter(k), k, Limit(k)) /\ Alone(k) => Len(failed[k]) < Limit(k)
<1> DEFINE l == Limiter(k)
<1>1. clock \in Nat /\ Window \in Nat /\ Start \in Int /\ Limit(k) \in Nat
  <2>1. clock \in Nat
    BY DEF LoginInv, LoginTyped
  <2>2. Limit(k) \in Nat
    BY LimitTyped
  <2> QED
    BY <2>1, <2>2, LoginAssumption DEF LoginAssumption, Start
<1>2. LimiterTyped(l)
  BY DEF LoginInv, LoginTyped, Limiter
<1>3. InWindow(Swept(l), k) = After(TimesOf(l, k), Start)
  <2>1. InWindow(Swept(l), k) = After(TimesOf(Swept(l), k), Start)
    BY <1>1, InWindowIs
  <2>2. After(TimesOf(Swept(l), k), Start) = After(TimesOf(l, k), Start)
    BY <1>1, <1>2, SweptKeeps
  <2> QED
    BY <2>1, <2>2
<1>4. After(failed[k], Start) = failed[k] /\ Len(failed[k]) \in Nat
  <2>1. failed[k] \in Seq(Nat) /\ Within(failed[k], Start, clock)
    BY DEF LoginInv, LoginTyped
  <2>2. \A i \in 1..Len(failed[k]) : failed[k][i] > Start
    <3>1. \A i \in 1..Len(failed[k]) : failed[k][i] \in Nat
      BY <2>1, ElementOfSeq
    <3> QED
      BY <1>1, <2>1, <3>1 DEF Within
  <2> QED
    BY <1>1, <2>1, <2>2, AfterAll, LenProperties
<1>5. Len(After(TimesOf(l, k), Start)) \in Nat
  BY <1>1, <1>2, TimesTyped, AfterSteps, LenProperties
<1>6. /\ Len(After(TimesOf(l, k), Start)) <= Len(failed[k])
      /\ Alone(k) => Len(After(TimesOf(l, k), Start)) = Len(failed[k])
  <2>1. Start >= Start
    BY <1>1
  <2> QED
    BY <1>1, <1>4, <2>1 DEF LoginInv, CountsInv
<1> HIDE DEF l
<1>7. Blocked(l, k, Limit(k)) <=> Len(After(TimesOf(l, k), Start)) >= Limit(k)
  BY <1>3 DEF Blocked
<1> QED
  BY <1>1, <1>4, <1>5, <1>6, <1>7 DEF l

\* A step that fails nothing: a sweep at most, and a caller that goes on.
LEMMA LookKeeps ==
    ASSUME LoginInv, UNCHANGED <<address, beside, clock, failed>>,
           own' = own \/ own' = Swept(own), all' = all \/ all' = Swept(all),
           NEW c \in Callers, NEW step \in Steps, login' = [login EXCEPT ![c] = step],
           step \notin {"idle", "refused"} => Busy(c) \/ beside \/ \A d \in Callers : ~Busy(d),
           \A k \in LimitedKeys : Alone(k) /\ c \in From(k) /\ step \in Through(k) => Len(failed[k]) < Limit(k)
    PROVE  LoginInv'
<1>1. clock \in Nat /\ Window \in Nat /\ Start \in Int
  <2>1. clock \in Nat
    BY DEF LoginInv, LoginTyped
  <2> QED
    BY <2>1, LoginAssumption DEF LoginAssumption, Start
<1>2. LimiterTyped(own) /\ LimiterTyped(all)
  BY DEF LoginInv, LoginTyped
<1>3. LimiterTyped(own') /\ LimiterTyped(all')
  BY <1>1, <1>2, SweptKeeps
<1>4. ASSUME NEW k, NEW v \in Int, v >= Start
      PROVE  /\ After(TimesOf(own', k), v) = After(TimesOf(own, k), v)
             /\ After(TimesOf(all', k), v) = After(TimesOf(all, k), v)
  BY <1>1, <1>2, <1>4, SweptKeeps
<1>5. \A d \in Callers : login'[d] = IF d = c THEN step ELSE login[d]
  BY DEF LoginInv, LoginTyped
<1>6. /\ Start' = Start /\ LimitedKeys' = LimitedKeys
      /\ \A k : (Alone(k) <=> Alone(k)') /\ From(k)' = From(k) /\ Limit(k)' = Limit(k) /\ failed'[k] = failed[k]
  BY DEF Start, LimitedKeys, Alone, From, Limit
<1>7. LoginTyped'
  <2>1. LimiterTyped(own)' /\ LimiterTyped(all)'
    BY <1>3 DEF LimiterTyped, Seen
  <2>2. login' \in [Callers -> Steps]
    BY DEF LoginInv, LoginTyped
  <2> QED
    BY <1>6, <2>1, <2>2 DEF LoginInv, LoginTyped
<1>8. CountsInv'
  <2> SUFFICES ASSUME NEW k \in LimitedKeys, NEW v \in Int, v >= Start
               PROVE  /\ Len(After(TimesOf(Limiter(k)', k), v)) <= Len(After(failed[k], v))
                      /\ Alone(k) => Len(After(TimesOf(Limiter(k)', k), v)) = Len(After(failed[k], v))
    BY <1>6 DEF CountsInv, TimesOf, Seen, After
  <2>1. After(TimesOf(Limiter(k)', k), v) = After(TimesOf(Limiter(k), k), v)
    BY <1>4 DEF Limiter
  <2> QED
    BY <2>1 DEF LoginInv, CountsInv
<1>9. RoomInv'
  <2>1. beside' \/ \A a, d \in Callers : (Busy(a)' /\ Busy(d)') => a = d
    BY <1>5 DEF LoginInv, RoomInv, Busy
  <2>2. ASSUME NEW k \in LimitedKeys, Alone(k)
        PROVE  /\ Len(failed[k]) <= Limit(k)
               /\ \A d \in From(k) : login'[d] \in Through(k) => Len(failed[k]) < Limit(k)
    <3>1. From(k) \subseteq Callers
      BY DEF From
    <3> QED
      BY <1>5, <2>2, <3>1 DEF LoginInv, RoomInv
  <2> QED
    BY <1>6, <2>1, <2>2 DEF RoomInv, Through
<1> QED
  BY <1>7, <1>8, <1>9 DEF LoginInv


\* A failure that is counted for a key.
CountsAt(c, key) ==
    /\ login[c] = IF key = "global" THEN "count all" ELSE "count"
    /\ login' = [login EXCEPT ![c] = IF key = "global" THEN "idle" ELSE "count all"]
    /\ failed' = [failed EXCEPT ![key] = Append(@, clock)]
    /\ own' = IF key = "global" THEN own ELSE Counted(own, key, Limit(key))
    /\ all' = IF key = "global" THEN Counted(all, key, Limit(key)) ELSE all
    /\ UNCHANGED <<address, beside, clock>>

LEMMA FailureKeeps ==
    ASSUME LoginInv, NEW key \in LimitedKeys, NEW c \in From(key), CountsAt(c, key)
    PROVE  LoginInv'
<1>0. /\ UNCHANGED <<address, beside, clock>>
      /\ key = "global" => login[c] = "count all" /\ own' = own /\ all' = Counted(all, key, Limit(key))
      /\ key # "global" => login[c] = "count" /\ all' = all /\ own' = Counted(own, key, Limit(key))
  BY DEF CountsAt
<1>1. clock \in Nat /\ Window \in Nat \ {0} /\ Start \in Int /\ Start < clock
  <2>1. clock \in Nat
    BY DEF LoginInv, LoginTyped
  <2> QED
    BY <2>1, LoginAssumption DEF LoginAssumption, Start
<1>2. LimiterTyped(own) /\ LimiterTyped(all)
  BY DEF LoginInv, LoginTyped
<1>3. LimiterTyped(own') /\ LimiterTyped(all')
  BY <1>0, <1>1, <1>2, CountedKeeps
<1>4. From(key) \subseteq Callers /\ c \in Callers
  BY DEF From
<1>5. \A d \in Callers : login'[d] = IF d # c THEN login[d] ELSE IF key = "global" THEN "idle" ELSE "count all"
  BY DEF LoginInv, LoginTyped, CountsAt
<1>6. /\ Start' = Start /\ LimitedKeys' = LimitedKeys
      /\ \A k : (Alone(k) <=> Alone(k)') /\ From(k)' = From(k) /\ Limit(k)' = Limit(k)
  BY <1>0 DEF Start, LimitedKeys, Alone, From, Limit
<1>7. /\ failed' = [k \in LimitedKeys |-> failed'[k]]
      /\ \A k \in LimitedKeys : failed'[k] = IF k = key THEN Append(failed[k], clock) ELSE failed[k]
  BY DEF LoginInv, LoginTyped, CountsAt
<1>8. \A k \in LimitedKeys : failed[k] \in Seq(Nat) /\ Within(failed[k], Start, clock) /\ Len(failed[k]) \in Nat
  <2>1. \A k \in LimitedKeys : failed[k] \in Seq(Nat) /\ Within(failed[k], Start, clock)
    BY DEF LoginInv, LoginTyped
  <2> QED
    BY <2>1, LenProperties
<1>9. LoginTyped'
  <2>1. LimiterTyped(own)' /\ LimiterTyped(all)'
    BY <1>0, <1>3 DEF LimiterTyped, Seen
  <2>2. login' \in [Callers -> Steps]
    BY DEF LoginInv, LoginTyped, Steps, CountsAt
  <2>3. ASSUME NEW s \in Seq(Nat), Within(s, Start, clock)
        PROVE  Append(s, clock) \in Seq(Nat) /\ Within(Append(s, clock), Start, clock)
    <3>1. clock \in Int
      BY <1>1
    <3> QED
      BY <1>1, <2>3, <3>1, AppendedTimes, AppendProperties
  <2>4. \A k \in LimitedKeys : failed'[k] \in Seq(Nat) /\ Within(failed'[k], Start, clock)
    BY <1>7, <1>8, <2>3
  <2>5. (\A k \in LimitedKeys : failed[k] \in Seq(Nat) /\ Within(failed[k], Start, clock))'
    BY <1>0, <1>6, <2>4 DEF Within
  <2>6. (failed = [k \in LimitedKeys |-> failed[k]])'
    BY <1>6, <1>7
  <2> QED
    BY <1>0, <2>1, <2>2, <2>5, <2>6 DEF LoginInv, LoginTyped
<1>10. CountsInv'
  <2> SUFFICES ASSUME NEW k \in LimitedKeys, NEW v \in Int, v >= Start
               PROVE  /\ Len(After(TimesOf(Limiter(k)', k), v)) <= Len(After(failed'[k], v))
                      /\ Alone(k) => Len(After(TimesOf(Limiter(k)', k), v)) = Len(After(failed'[k], v))
    BY <1>6 DEF CountsInv, TimesOf, Seen, After
  <2>1. /\ Len(After(TimesOf(Limiter(k), k), v)) <= Len(After(failed[k], v))
        /\ Alone(k) => Len(After(TimesOf(Limiter(k), k), v)) = Len(After(failed[k], v))
    BY DEF LoginInv, CountsInv
  <2>2. TimesOf(Limiter(k), k) \in Seq(Nat)
    BY <1>2, TimesTyped DEF Limiter
  <2>3. /\ After(TimesOf(Limiter(k), k), v) \in Seq(Nat) /\ Len(After(TimesOf(Limiter(k), k), v)) \in Nat
        /\ After(failed[k], v) \in Seq(Nat) /\ Len(After(failed[k], v)) \in Nat
    BY <1>8, <2>2, AfterSteps, LenProperties
  <2>4. CASE k # key
    <3>1. After(TimesOf(Limiter(k)', k), v) = After(TimesOf(Limiter(k), k), v)
      <4>1. ASSUME NEW l, LimiterTyped(l)
            PROVE  After(TimesOf(Counted(l, key, Limit(key)), k), v) = After(TimesOf(l, k), v)
        BY <1>1, <2>4, <4>1, CountedKeeps
      <4>2. CASE key = "global"
        BY <1>0, <1>2, <2>4, <4>1, <4>2 DEF Limiter
      <4>3. CASE key # "global"
        BY <1>0, <1>2, <2>4, <4>1, <4>3 DEF Limiter
      <4> QED
        BY <4>2, <4>3
    <3> QED
      BY <1>7, <2>1, <2>4, <3>1
  <2>5. CASE k = key
    <3>1. Limiter(k)' = Counted(Limiter(k), k, Limit(k)) /\ LimiterTyped(Limiter(k))
      BY <1>0, <1>2, <2>5 DEF Limiter
    <3>2. After(TimesOf(Limiter(k)', k), v)
            = IF Len(After(TimesOf(Limiter(k), k), Start)) < Limit(k) /\ v < clock
              THEN Append(After(TimesOf(Limiter(k), k), v), clock) ELSE After(TimesOf(Limiter(k), k), v)
      BY <1>1, <3>1, CountedKeeps
    <3>3. After(failed'[k], v) = IF clock > v THEN Append(After(failed[k], v), clock) ELSE After(failed[k], v)
      <4>1. failed'[k] = Append(failed[k], clock) /\ failed[k] \in Seq(Nat)
        BY <1>7, <1>8, <2>5
      <4>2. ASSUME NEW s \in Seq(Nat)
            PROVE  After(Append(s, clock), v) = IF clock > v THEN Append(After(s, v), clock) ELSE After(s, v)
        BY <1>1, AfterSteps
      <4> QED
        BY <4>1, <4>2
    <3>4. /\ Len(Append(After(failed[k], v), clock)) = Len(After(failed[k], v)) + 1
          /\ Len(Append(After(TimesOf(Limiter(k), k), v), clock)) = Len(After(TimesOf(Limiter(k), k), v)) + 1
      BY <1>1, <2>3, AppendProperties
    <3>5. ASSUME Alone(k) PROVE Len(After(TimesOf(Limiter(k), k), Start)) < Limit(k)
      <4>1. Len(failed[k]) < Limit(k)
        BY <1>0, <2>5, <3>5 DEF LoginInv, RoomInv, Through
      <4>2. After(failed[k], Start) = failed[k]
        <5>1. \A i \in 1..Len(failed[k]) : failed[k][i] > Start
          <6>1. \A i \in 1..Len(failed[k]) : failed[k][i] \in Nat
            BY <1>8, ElementOfSeq
          <6> QED
            BY <1>1, <1>8, <6>1 DEF Within
        <5> QED
          BY <1>1, <1>8, <5>1, AfterAll
      <4>3. Len(After(TimesOf(Limiter(k), k), Start)) = Len(After(failed[k], Start))
        <5>1. Start >= Start
          BY <1>1
        <5> QED
          BY <1>1, <3>5, <5>1 DEF LoginInv, CountsInv
      <4> QED
        BY <4>1, <4>2, <4>3
    <3>6. Len(After(TimesOf(Limiter(k)', k), v)) <= Len(After(failed'[k], v))
      BY <1>1, <2>1, <2>3, <3>2, <3>3, <3>4
    <3>7. ASSUME Alone(k) PROVE Len(After(TimesOf(Limiter(k)', k), v)) = Len(After(failed'[k], v))
      BY <1>1, <2>1, <2>3, <3>2, <3>3, <3>4, <3>5, <3>7
    <3> QED
      BY <3>6, <3>7
  <2> QED
    BY <2>4, <2>5
<1>11. RoomInv'
  <2>1. beside' \/ \A a, d \in Callers : (Busy(a)' /\ Busy(d)') => a = d
    BY <1>0, <1>4, <1>5 DEF LoginInv, RoomInv, Busy
  <2>2. ASSUME NEW k \in LimitedKeys, Alone(k)
        PROVE  /\ Len(failed'[k]) <= Limit(k)
               /\ \A d \in From(k) : login'[d] \in Through(k) => Len(failed'[k]) < Limit(k)
    <3>1. From(k) \subseteq Callers
      BY DEF From
    <3>2. /\ Len(failed[k]) <= Limit(k)
          /\ \A d \in From(k) : login[d] \in Through(k) => Len(failed[k]) < Limit(k)
      BY <2>2 DEF LoginInv, RoomInv
    <3>3. CASE k = key
      <4>1. Len(failed'[k]) = Len(failed[k]) + 1
        BY <1>1, <1>7, <1>8, <3>3, AppendProperties
      <4>2. Len(failed[k]) < Limit(k)
        BY <1>0, <3>2, <3>3 DEF Through
      <4>3. Len(failed'[k]) <= Limit(k)
        BY <1>8, <4>1, <4>2, LimitTyped
      <4>4. ASSUME NEW d \in From(k), login'[d] \in Through(k) PROVE FALSE
        <5>1. d # c
          BY <1>4, <1>5, <3>3, <4>4 DEF Through
        <5>2. Busy(d) /\ Busy(c)
          BY <1>0, <1>5, <3>1, <3>3, <4>4, <5>1 DEF Busy, Through
        <5> QED
          BY <2>2, <3>3, <5>1, <5>2, OneAtATime
      <4> QED
        BY <4>3, <4>4
    <3>4. CASE k # key
      <4>1. failed'[k] = failed[k]
        BY <1>7, <3>4
      <4>2. ASSUME NEW d \in From(k), login'[d] \in Through(k) PROVE login[d] \in Through(k)
        <5>1. CASE d # c
          BY <1>5, <3>1, <4>2, <5>1
        <5>2. CASE d = c
          BY <1>0, <1>4, <1>5, <3>4, <4>2, <5>2 DEF Through
        <5> QED
          BY <5>1, <5>2
      <4> QED
        BY <3>2, <4>1, <4>2
    <3> QED
      BY <3>3, <3>4
  <2> QED
    BY <1>6, <2>1, <2>2 DEF RoomInv, Through
<1> QED
  BY <1>9, <1>10, <1>11 DEF LoginInv

LEMMA TimeKeeps == ASSUME LoginInv, TimePasses PROVE LoginInv'
<1>1. clock \in Nat /\ Window \in Nat \ {0} /\ Start \in Int
  <2>1. clock \in Nat
    BY DEF LoginInv, LoginTyped
  <2> QED
    BY <2>1, LoginAssumption DEF LoginAssumption, Start
<1>2. /\ clock' = clock + 1 /\ Start' = Start + 1
      /\ UNCHANGED <<address, beside, own, all, login>>
  BY <1>1 DEF TimePasses, Start
<1>3. /\ LimitedKeys' = LimitedKeys
      /\ \A k : (Alone(k) <=> Alone(k)') /\ From(k)' = From(k) /\ Limit(k)' = Limit(k)
  BY <1>2 DEF LimitedKeys, Alone, From, Limit
<1>4. /\ failed' = [k \in LimitedKeys |-> failed'[k]]
      /\ \A k \in LimitedKeys : failed'[k] = After(failed[k], Start')
  <2>1. DOMAIN failed = LimitedKeys
    BY DEF LoginInv, LoginTyped
  <2>2. failed' = [k \in DOMAIN failed |-> After(failed[k], Start')]
    BY DEF TimePasses, Start
  <2> QED
    BY <2>1, <2>2
<1>5. ASSUME NEW k \in LimitedKeys
      PROVE  /\ failed[k] \in Seq(Nat) /\ failed'[k] \in Seq(Nat) /\ Within(failed'[k], Start', clock')
             /\ Len(failed[k]) \in Nat /\ Len(failed'[k]) \in Nat /\ Len(failed'[k]) <= Len(failed[k])
             /\ \A v \in Int : v >= Start' => After(failed'[k], v) = After(failed[k], v)
  <2>1. failed[k] \in Seq(Nat) /\ Within(failed[k], Start, clock)
    BY DEF LoginInv, LoginTyped
  <2>2. \A i \in 1..Len(failed[k]) : failed[k][i] <= clock + 1
    <3>1. \A i \in 1..Len(failed[k]) : failed[k][i] \in Nat
      BY <2>1, ElementOfSeq
    <3> QED
      BY <1>1, <2>1, <3>1 DEF Within
  <2>3. Start' \in Int /\ clock' \in Int
    BY <1>1, <1>2
  <2>4. ASSUME NEW s \in Seq(Nat), \A i \in 1..Len(s) : s[i] <= clock + 1
        PROVE  /\ After(s, Start') \in Seq(Nat) /\ Within(After(s, Start'), Start', clock')
               /\ Len(After(s, Start')) <= Len(s)
               /\ \A v \in Int : v >= Start' => After(After(s, Start'), v) = After(s, v)
    <3>1. After(s, Start') \in Seq(Nat) /\ Len(After(s, Start')) <= Len(s)
      BY <2>3, AfterSteps, AfterBounds
    <3>2. Within(After(s, Start'), Start', clock')
      BY <1>2, <2>3, <2>4, AfterBounds
    <3>3. \A v \in Int : v >= Start' => After(After(s, Start'), v) = After(s, v)
      BY <2>3, AfterAll
    <3> QED
      BY <3>1, <3>2, <3>3
  <2> QED
    BY <1>4, <2>1, <2>2, <2>4, LenProperties
<1>6. LoginTyped'
  <2>1. ASSUME NEW l, LimiterTyped(l), l' = l PROVE LimiterTyped(l)'
    <3>1. ASSUME NEW s \in Seq(Nat), NEW i \in 1..Len(s), s[i] <= clock PROVE s[i] <= clock + 1
      <4>1. s[i] \in Nat
        BY ElementOfSeq
      <4> QED
        BY <1>1, <3>1, <4>1
    <3> QED
      BY <1>2, <2>1, <3>1 DEF LimiterTyped, Seen
  <2>2. LimiterTyped(own)' /\ LimiterTyped(all)'
    BY <1>2, <2>1 DEF LoginInv, LoginTyped
  <2>3. clock' \in Nat /\ beside' \in BOOLEAN /\ (\A c \in Callers : address'[c] # "global") /\ login' \in [Callers -> Steps]
    BY <1>1, <1>2 DEF LoginInv, LoginTyped
  <2>4. (failed = [k \in LimitedKeys |-> failed[k]])'
    BY <1>3, <1>4
  <2>5. (\A k \in LimitedKeys : failed[k] \in Seq(Nat) /\ Within(failed[k], Start, clock))'
    BY <1>3, <1>5 DEF Within
  <2> QED
    BY <2>2, <2>3, <2>4, <2>5 DEF LoginTyped
<1>7. CountsInv'
  <2> SUFFICES ASSUME NEW k \in LimitedKeys, NEW v \in Int, v >= Start'
               PROVE  /\ Len(After(TimesOf(Limiter(k), k), v)) <= Len(After(failed'[k], v))
                      /\ Alone(k) => Len(After(TimesOf(Limiter(k), k), v)) = Len(After(failed'[k], v))
    BY <1>2, <1>3 DEF CountsInv, TimesOf, Seen, After, Limiter
  <2>1. v >= Start
    BY <1>1, <1>2
  <2> QED
    BY <1>5, <2>1 DEF LoginInv, CountsInv
<1>8. RoomInv'
  <2>1. beside' \/ \A a, d \in Callers : (Busy(a)' /\ Busy(d)') => a = d
    BY <1>2 DEF LoginInv, RoomInv, Busy
  <2>2. ASSUME NEW k \in LimitedKeys, Alone(k)
        PROVE  /\ Len(failed'[k]) <= Limit(k)
               /\ \A d \in From(k) : login'[d] \in Through(k) => Len(failed'[k]) < Limit(k)
    <3>1. /\ Len(failed[k]) <= Limit(k)
          /\ \A d \in From(k) : login[d] \in Through(k) => Len(failed[k]) < Limit(k)
      BY <2>2 DEF LoginInv, RoomInv
    <3>2. Limit(k) \in Nat /\ Len(failed[k]) \in Nat /\ Len(failed'[k]) \in Nat /\ Len(failed'[k]) <= Len(failed[k])
      BY <1>5, LimitTyped
    <3> QED
      BY <1>2, <3>1, <3>2
  <2> QED
    BY <1>3, <2>1, <2>2 DEF RoomInv, Through
<1> QED
  BY <1>6, <1>7, <1>8 DEF LoginInv

\* Every step keeps it.
LEMMA LoginSteps == ASSUME LoginInv, NEW who, who \subseteq Callers, LoginNext(who) PROVE LoginInv'
<1>1. \A d \in Callers : login[d] \in Steps
  BY DEF LoginInv, LoginTyped
<1>2. ASSUME NEW c \in Callers PROVE address[c] \in LimitedKeys /\ address[c] # "global" /\ c \in From(address[c])
  BY DEF LoginInv, LoginTyped, LimitedKeys, From
<1>3. "global" \in LimitedKeys /\ From("global") = Callers /\ Limit("global") = AllLimit /\ Limiter("global") = all
  BY DEF LimitedKeys, From, Limit, Limiter
<1>4. ASSUME NEW c \in Callers PROVE Limit(address[c]) = OwnLimit /\ Limiter(address[c]) = own
  BY <1>2 DEF Limit, Limiter
<1>5. ASSUME NEW c \in who, Peek(c) PROVE LoginInv'
  <2>1. c \in Callers /\ UNCHANGED <<address, beside, clock, all, failed>> /\ own' = Swept(own)
    BY <1>5 DEF Peek
  <2>2. beside \/ \A d \in Callers : ~Busy(d)
    BY <1>5 DEF Peek, Busy
  <2> DEFINE step == IF Blocked(own, address[c], OwnLimit) THEN "refused" ELSE "peek all"
  <2>3. step \in Steps /\ login' = [login EXCEPT ![c] = step]
    BY <1>5 DEF Peek, Goto, Steps
  <2>4. ASSUME NEW k \in LimitedKeys, Alone(k), c \in From(k), step \in Through(k) PROVE Len(failed[k]) < Limit(k)
    <3>1. step = "peek all" /\ k # "global"
      BY <2>4 DEF Through
    <3>2. k = address[c] /\ ~Blocked(own, k, OwnLimit)
      BY <2>1, <2>4, <3>1 DEF From
    <3> QED
      BY <1>4, <2>1, <2>4, <3>2, BlockedSays
  <2> HIDE DEF step
  <2> QED
    BY <2>1, <2>2, <2>3, <2>4, LookKeeps
<1>6. ASSUME NEW c \in who, PeekAll(c) PROVE LoginInv'
  <2>1. c \in Callers /\ UNCHANGED <<address, beside, clock, own, failed>> /\ all' = Swept(all) /\ login[c] = "peek all"
    BY <1>6 DEF PeekAll
  <2> DEFINE step == IF Blocked(all, "global", AllLimit) THEN "refused" ELSE "verify"
  <2>3. step \in Steps /\ login' = [login EXCEPT ![c] = step]
    BY <1>6 DEF PeekAll, Goto, Steps
  <2>4. ASSUME NEW k \in LimitedKeys, Alone(k), c \in From(k), step \in Through(k) PROVE Len(failed[k]) < Limit(k)
    <3>1. step = "verify" /\ ~Blocked(all, "global", AllLimit)
      BY <2>4 DEF Through
    <3>2. CASE k = "global"
      BY <1>3, <2>4, <3>1, <3>2, BlockedSays
    <3>3. CASE k # "global"
      BY <2>1, <2>4, <3>3 DEF LoginInv, RoomInv, Through
    <3> QED
      BY <3>2, <3>3
  <2>5. Busy(c)
    BY <2>1 DEF Busy
  <2> HIDE DEF step
  <2> QED
    BY <2>1, <2>3, <2>4, <2>5, LookKeeps
<1>7. ASSUME NEW c \in who, Verify(c) PROVE LoginInv'
  <2>1. c \in Callers /\ UNCHANGED <<address, beside, clock, own, all, failed>> /\ login[c] = "verify" /\ Busy(c)
    BY <1>7 DEF Verify, Busy
  <2>2. PICK step \in {"idle", "count"} : login' = [login EXCEPT ![c] = step]
    BY <1>7 DEF Verify, Goto
  <2>3. step \in Steps
    BY DEF Steps
  <2>4. ASSUME NEW k \in LimitedKeys, Alone(k), c \in From(k), step \in Through(k) PROVE Len(failed[k]) < Limit(k)
    BY <2>1, <2>4 DEF LoginInv, RoomInv, Through
  <2> QED
    BY <2>1, <2>2, <2>3, <2>4, LookKeeps
<1>8. ASSUME NEW c \in who, Again(c) PROVE LoginInv'
  <2>1. c \in Callers /\ UNCHANGED <<address, beside, clock, own, all, failed>> /\ login' = [login EXCEPT ![c] = "idle"]
    BY <1>8 DEF Again, Goto
  <2>2. "idle" \in Steps /\ \A k : "idle" \notin Through(k)
    BY DEF Steps, Through
  <2> QED
    BY <2>1, <2>2, LookKeeps
<1>9. ASSUME NEW c \in who, Count(c) PROVE LoginInv'
  <2>1. c \in Callers
    OBVIOUS
  <2>2. CountsAt(c, address[c])
    BY <1>2, <1>4, <1>9, <2>1 DEF Count, CountsAt, Fails, Goto
  <2> QED
    BY <1>2, <2>1, <2>2, FailureKeeps
<1>10. ASSUME NEW c \in who, CountAll(c) PROVE LoginInv'
  <2>1. CountsAt(c, "global")
    BY <1>3, <1>10 DEF CountAll, CountsAt, Fails, Goto
  <2> QED
    BY <1>3, <2>1, FailureKeeps
<1> QED
  BY <1>5, <1>6, <1>7, <1>8, <1>9, <1>10, TimeKeeps DEF LoginNext

LEMMA LoginStart == ASSUME Init PROVE LoginInv
<1> DEFINE none == <<>>
           fresh == [attempts |-> none, swept |-> 0]
<1>1. setting \in Settings /\ LoginInit(setting.from, setting.overlap)
  BY DEF Init, FollowInit
<1>2. setting.overlap \in BOOLEAN /\ \A c \in Callers : setting.from[c] # "global"
  BY <1>1, CliAssumption DEF CliAssumption
<1>3. /\ address = setting.from /\ beside = setting.overlap /\ clock = 0 /\ own = fresh /\ all = fresh
      /\ login = [c \in Callers |-> "idle"]
  BY <1>1 DEF LoginInit
<1>12. failed = [k \in LimitedKeys |-> none]
  BY <1>1, <1>3 DEF LoginInit, LimitedKeys
<1>4. none \in Seq(Nat) /\ Len(none) = 0 /\ \A v \in Int : After(none, v) = none
  BY EmptySeq, AfterSteps
<1>5. Window \in Nat \ {0} /\ Start \in Int
  BY <1>3, LoginAssumption DEF LoginAssumption, Start
<1>6. DOMAIN none = {} /\ \A k : k \notin DOMAIN none
  OBVIOUS
<1> HIDE DEF none
<1>7. LimiterTyped(own) /\ LimiterTyped(all) /\ \A k : TimesOf(own, k) = none /\ TimesOf(all, k) = none
  BY <1>3, <1>6 DEF LimiterTyped, TimesOf, Seen, none
<1>8. LoginTyped
  <2>1. login \in [Callers -> Steps]
    BY <1>3 DEF Steps
  <2>2. \A k \in LimitedKeys : failed[k] \in Seq(Nat) /\ Within(failed[k], Start, clock)
    BY <1>4, <1>12 DEF Within
  <2>3. failed = [k \in LimitedKeys |-> failed[k]]
    BY <1>12
  <2> QED
    BY <1>2, <1>3, <1>7, <2>1, <2>2, <2>3 DEF LoginTyped
<1>9. CountsInv
  BY <1>4, <1>7, <1>12 DEF CountsInv, Limiter
<1>10. RoomInv
  <2>1. \A k \in LimitedKeys : Len(failed[k]) = 0 /\ Limit(k) \in Nat
    BY <1>4, <1>12, LimitTyped
  <2>2. \A k : \A c \in From(k) : login[c] \notin Through(k)
    BY <1>3 DEF From, Through
  <2>3. \A c \in Callers : ~Busy(c)
    BY <1>3 DEF Busy
  <2> QED
    BY <2>1, <2>2, <2>3 DEF RoomInv
<1> QED
  BY <1>8, <1>9, <1>10 DEF LoginInv

\* A request is refused only when as many failures are within the window.
LEMMA RefusedFor ==
    ASSUME LoginInv, LoginNext(Callers), NEW c \in Callers, login[c] # "refused", login'[c] = "refused"
    PROVE  \E k \in {address[c], "global"} : Len(failed[k]) >= Limit(k)
<1>1. \A d \in Callers : login[d] \in Steps /\ DOMAIN login = Callers
  BY DEF LoginInv, LoginTyped
<1>2. address[c] \in LimitedKeys /\ "global" \in LimitedKeys /\ address[c] # "global"
  BY DEF LoginInv, LoginTyped, LimitedKeys
<1>3. ASSUME NEW d \in Callers, NEW step, Goto(d, step) PROVE d = c /\ step = "refused"
  BY <1>1, <1>3 DEF Goto
<1>4. ASSUME NEW d \in Callers, Peek(d) PROVE Blocked(own, address[c], OwnLimit)
  <2> DEFINE step == IF Blocked(own, address[d], OwnLimit) THEN "refused" ELSE "peek all"
  <2>1. Goto(d, step)
    BY <1>4 DEF Peek
  <2>2. step # "refused" \/ Blocked(own, address[d], OwnLimit)
    OBVIOUS
  <2> HIDE DEF step
  <2> QED
    BY <1>3, <2>1, <2>2
<1>5. ASSUME NEW d \in Callers, PeekAll(d) PROVE Blocked(all, "global", AllLimit)
  <2> DEFINE step == IF Blocked(all, "global", AllLimit) THEN "refused" ELSE "verify"
  <2>1. Goto(d, step)
    BY <1>5 DEF PeekAll
  <2>2. step # "refused" \/ Blocked(all, "global", AllLimit)
    OBVIOUS
  <2> HIDE DEF step
  <2> QED
    BY <1>3, <2>1, <2>2
<1>6. ASSUME NEW d \in Callers, Verify(d) \/ Count(d) \/ CountAll(d) \/ Again(d) PROVE FALSE
  <2>1. CASE Verify(d)
    <3>1. PICK right \in BOOLEAN : Goto(d, IF right THEN "idle" ELSE "count")
      BY <2>1 DEF Verify
    <3> QED
      BY <1>3, <3>1
  <2>2. CASE Count(d)
    BY <1>1, <2>2 DEF Count, Goto
  <2>3. CASE CountAll(d)
    BY <1>1, <2>3 DEF CountAll, Goto
  <2>4. CASE Again(d)
    BY <1>3, <2>4 DEF Again
  <2> QED
    BY <1>6, <2>1, <2>2, <2>3, <2>4
<1>7. ASSUME TimePasses PROVE FALSE
  BY <1>7 DEF TimePasses
<1>8. Blocked(own, address[c], OwnLimit) => Len(failed[address[c]]) >= Limit(address[c])
  <2>1. Limiter(address[c]) = own /\ Limit(address[c]) = OwnLimit
    BY <1>2 DEF Limiter, Limit
  <2> QED
    BY <1>2, <2>1, BlockedSays
<1>9. Blocked(all, "global", AllLimit) => Len(failed["global"]) >= Limit("global")
  <2>1. Limiter("global") = all /\ Limit("global") = AllLimit
    BY DEF Limiter, Limit
  <2> QED
    BY <1>2, <2>1, BlockedSays
<1> QED
  BY <1>4, <1>5, <1>6, <1>7, <1>8, <1>9 DEF LoginNext

\* LoginsLimited, for any callers, limits and window: while the requests of an
\* address (or of all) come one after the other, its failures within a window
\* never pass the limit, however the sweeps of the limiter fall; and nobody is
\* refused before they have reached it (handleLogin; Blocked, Allow and
\* maybeSweep of rateLimiter).
THEOREM LoginsStayLimited == Spec => LoginsLimited
<1>1. Init => LoginInv
  BY LoginStart
<1>2. Having("login") \subseteq Callers
  BY CliAssumption DEF CliAssumption, Having
<1>3. ASSUME LoginInv, [Next]_vars PROVE LoginInv' /\ (LoginNext(Having("login")) \/ UNCHANGED loginVars)
  <2>1. LoginNext(Having("login")) \/ UNCHANGED loginVars
    BY <1>3 DEF Next, vars
  <2>2. CASE UNCHANGED loginVars
    <3>1. UNCHANGED <<address, beside, clock, own, all, login, failed>>
      BY <2>2 DEF loginVars
    <3>2. Start' = Start /\ LimitedKeys' = LimitedKeys
          /\ \A k : (Alone(k) <=> Alone(k)') /\ From(k)' = From(k) /\ Limit(k)' = Limit(k)
      BY <3>1 DEF Start, LimitedKeys, Alone, From, Limit
    <3>3. LoginTyped'
      BY <1>3, <3>1, <3>2 DEF LoginInv, LoginTyped, LimiterTyped, Seen
    <3>4. CountsInv'
      BY <1>3, <3>1, <3>2 DEF LoginInv, CountsInv, Limiter, TimesOf, Seen, After
    <3>5. RoomInv'
      BY <1>3, <3>1, <3>2 DEF LoginInv, RoomInv, Busy, Through
    <3> QED
      BY <2>1, <3>3, <3>4, <3>5 DEF LoginInv
  <2> QED
    BY <1>2, <1>3, <2>1, <2>2, LoginSteps
<1>4. ASSUME LoginInv, LoginInv', [Next]_vars
      PROVE  [/\ \A k \in DOMAIN failed : ~beside \/ Cardinality(From(k)) = 1 => Len(failed'[k]) <= Limit(k)
              /\ \A c \in Callers : login[c] # "refused" /\ login'[c] = "refused" =>
                    \E k \in {address[c], "global"} : Len(failed[k]) >= Limit(k)]_loginVars
  <2> SUFFICES ASSUME ~(UNCHANGED loginVars)
               PROVE  /\ \A k \in DOMAIN failed : ~beside \/ Cardinality(From(k)) = 1 => Len(failed'[k]) <= Limit(k)
                      /\ \A c \in Callers : login[c] # "refused" /\ login'[c] = "refused" =>
                            \E k \in {address[c], "global"} : Len(failed[k]) >= Limit(k)
    OBVIOUS
  <2>1. LoginNext(Having("login"))
    BY <1>3, <1>4
  <2>2. LoginNext(Callers)
    BY <1>2, <2>1 DEF LoginNext
  <2>3. UNCHANGED <<address, beside>>
    BY <2>1 DEF LoginNext, Peek, PeekAll, Verify, Count, CountAll, Again, TimePasses
  <2>4. ASSUME NEW k \in DOMAIN failed, ~beside \/ Cardinality(From(k)) = 1 PROVE Len(failed'[k]) <= Limit(k)
    <3>1. DOMAIN failed = LimitedKeys
      BY <1>4 DEF LoginInv, LoginTyped
    <3>2. LimitedKeys' = LimitedKeys /\ Limit(k)' = Limit(k) /\ From(k)' = From(k)
      BY <2>3 DEF LimitedKeys, Limit, From
    <3>3. Alone(k)'
      BY <2>3, <2>4, <3>2 DEF Alone
    <3>4. \A j \in LimitedKeys' : Alone(j)' => Len(failed'[j]) <= Limit(j)'
      BY <1>4 DEF LoginInv, RoomInv
    <3> QED
      BY <3>1, <3>2, <3>3, <3>4
  <2> QED
    BY <1>4, <2>2, <2>4, RefusedFor
<1> QED
  BY <1>1, <1>3, <1>4, PTL DEF Spec, LoginsLimited

----------------------------------------------------------------------------
(* The text of logs.                                                       *)

IsPieces(Y, Z, g) == g \in [Y -> Seq(Z)]

\* The loop of Gathered.
LEMMA GatheredSteps ==
    ASSUME NEW Y, NEW Z, NEW g, IsPieces(Y, Z, g)
    PROVE  /\ Gathered(Z, g, <<>>) = <<>>
           /\ \A s \in Seq(Y) : /\ Gathered(Z, g, s) \in Seq(Z)
                                /\ \A y \in Y : Gathered(Z, g, Append(s, y)) = Gathered(Z, g, s) \o g[y]
<1> DEFINE body == [got \in Seq(Z) |-> [x \in DOMAIN g |-> got \o g[x]]]
           none == <<>>
<1>1. IsBody(Seq(Z), Y, body)
  BY ConcatProperties DEF IsBody, IsPieces
<1>2. \A s \in Seq(Z), y \in Y : body[s][y] = s \o g[y]
  BY DEF IsPieces
<1>3. none \in Seq(Z)
  BY EmptySeq
<1>4. \A s : Gathered(Z, g, s) = Loop(body, none, s)
  BY DEF Gathered
<1> HIDE DEF body, none
<1>5. Loop(body, none, <<>>) = none
  BY <1>1, <1>3, LoopStarts
<1>6. ASSUME NEW s \in Seq(Y)
      PROVE  /\ Loop(body, none, s) \in Seq(Z)
             /\ \A y \in Y : Loop(body, none, Append(s, y)) = Loop(body, none, s) \o g[y]
  <2>1. Loop(body, none, s) \in Seq(Z)
    BY <1>1, <1>3, LoopTyped
  <2>2. ASSUME NEW y \in Y PROVE Loop(body, none, Append(s, y)) = body[Loop(body, none, s)][y]
    BY <1>1, <1>3, LoopAppends
  <2> QED
    BY <1>2, <2>1, <2>2
<1> QED
  BY <1>4, <1>5, <1>6 DEF none

\* What is gathered from two sequences one after the other.
LEMMA GatheredOfBoth ==
    ASSUME NEW Y, NEW Z, NEW g, IsPieces(Y, Z, g), NEW s \in Seq(Y), NEW t \in Seq(Y)
    PROVE  Gathered(Z, g, s \o t) = Gathered(Z, g, s) \o Gathered(Z, g, t)
<1> DEFINE G(u) == Gathered(Z, g, u)
           Good == {u \in Seq(Y) : G(s \o u) = G(s) \o G(u)}
<1>0. /\ G(<<>>) = <<>>
      /\ \A u \in Seq(Y) : G(u) \in Seq(Z) /\ \A y \in Y : G(Append(u, y)) = G(u) \o g[y]
  BY GatheredSteps
<1> HIDE DEF G
<1>1. <<>> \in Good
  BY <1>0, ConcatEmptySeq, EmptySeq
<1>2. ASSUME NEW u \in Seq(Y), NEW y \in Y, u \in Good PROVE Append(u, y) \in Good
  <2>1. s \o u \in Seq(Y) /\ Append(u, y) \in Seq(Y)
    BY ConcatProperties, AppendProperties
  <2>2. s \o Append(u, y) = Append(s \o u, y)
    <3>1. Append(u, y) = u \o <<y>> /\ Append(s \o u, y) = (s \o u) \o <<y>> /\ <<y>> \in Seq(Y)
      BY <2>1, AppendIsConcat
    <3> QED
      BY <3>1, ConcatAssociative
  <2>3. G(Append(s \o u, y)) = (G(s) \o G(u)) \o g[y]
    BY <1>0, <1>2, <2>1
  <2>4. G(Append(u, y)) = G(u) \o g[y]
    BY <1>0
  <2>5. G(s) \in Seq(Z) /\ G(u) \in Seq(Z) /\ g[y] \in Seq(Z)
    BY <1>0 DEF IsPieces
  <2>6. (G(s) \o G(u)) \o g[y] = G(s) \o (G(u) \o g[y])
    <3>1. \A a, b, d \in Seq(Z) : (a \o b) \o d = a \o (b \o d)
      BY ConcatAssociative
    <3> QED
      BY <2>5, <3>1
  <2> QED
    BY <2>1, <2>2, <2>3, <2>4, <2>6
<1> HIDE DEF Good
<1>3. t \in Good
  BY <1>1, <1>2, SequencesFromEmpty
<1> QED
  BY <1>3 DEF Good, G

\* What is gathered from one element.
LEMMA GatheredOfOne ==
    ASSUME NEW Y, NEW Z, NEW g, IsPieces(Y, Z, g), NEW y \in Y
    PROVE  Gathered(Z, g, <<y>>) = g[y]
<1>1. <<>> \in Seq(Y) /\ Append(<<>>, y) = <<y>>
  BY EmptySeq
<1> DEFINE none == <<>>
<1> HIDE DEF none
<1>2. ASSUME NEW s \in Seq(Y) PROVE Gathered(Z, g, Append(s, y)) = Gathered(Z, g, s) \o g[y]
  BY GatheredSteps
<1>3. Gathered(Z, g, Append(none, y)) = Gathered(Z, g, none) \o g[y]
  BY <1>1, <1>2 DEF none
<1>4. Gathered(Z, g, none) = <<>>
  BY GatheredSteps DEF none
<1>5. g[y] \in Seq(Z)
  BY DEF IsPieces
<1>6. <<>> \o g[y] = g[y]
  BY <1>5, ConcatEmptySeq
<1> QED
  BY <1>1, <1>3, <1>4, <1>6 DEF none

\* A text without some symbols.
LEMMA WithoutSteps ==
    ASSUME NEW T
    PROVE  /\ Without(<<>>, T) = <<>>
           /\ \A t \in Text : /\ Without(t, T) \in Text
                              /\ \A x \in Symbols : Without(Append(t, x), T) = IF x \in T THEN Without(t, T)
                                                                              ELSE Append(Without(t, T), x)
           /\ \A t, u \in Text : Without(t \o u, T) = Without(t, T) \o Without(u, T)
<1> DEFINE g == [x \in Symbols |-> IF x \in T THEN <<>> ELSE <<x>>]
<1>1. IsPieces(Symbols, Symbols, g)
  <2>1. \A x \in Symbols : <<>> \in Seq(Symbols) /\ <<x>> \in Seq(Symbols)
    OBVIOUS
  <2> QED
    BY <2>1 DEF IsPieces
<1>2. \A x \in Symbols : g[x] = IF x \in T THEN <<>> ELSE <<x>>
  OBVIOUS
<1>3. \A t : Without(t, T) = Gathered(Symbols, g, t)
  BY DEF Without
<1> HIDE DEF g
<1>4. Gathered(Symbols, g, <<>>) = <<>>
  BY <1>1, GatheredSteps
<1>5. ASSUME NEW t \in Seq(Symbols)
      PROVE  /\ Gathered(Symbols, g, t) \in Seq(Symbols)
             /\ \A x \in Symbols : Gathered(Symbols, g, Append(t, x)) = IF x \in T THEN Gathered(Symbols, g, t)
                                                                       ELSE Append(Gathered(Symbols, g, t), x)
  <2> DEFINE G == Gathered(Symbols, g, t)
  <2>1. G \in Seq(Symbols)
    BY <1>1, GatheredSteps
  <2>2. ASSUME NEW x \in Symbols PROVE Gathered(Symbols, g, Append(t, x)) = G \o g[x]
    BY <1>1, GatheredSteps
  <2> HIDE DEF G
  <2>3. ASSUME NEW x \in Symbols PROVE G \o <<>> = G /\ G \o <<x>> = Append(G, x)
    BY <2>1, ConcatEmptySeq, AppendIsConcat
  <2>4. ASSUME NEW x \in Symbols PROVE Gathered(Symbols, g, Append(t, x)) = IF x \in T THEN G ELSE Append(G, x)
    BY <1>2, <2>2, <2>3
  <2> QED
    BY <2>1, <2>4 DEF G
<1>6. ASSUME NEW t \in Seq(Symbols), NEW u \in Seq(Symbols)
      PROVE  Gathered(Symbols, g, t \o u) = Gathered(Symbols, g, t) \o Gathered(Symbols, g, u)
  BY <1>1, GatheredOfBoth
<1> QED
  BY <1>3, <1>4, <1>5, <1>6 DEF Text

\* Texts one after the other.
LEMMA JoinedSteps ==
    /\ Joined(<<>>) = <<>>
    /\ \A s \in Seq(Text) : /\ Joined(s) \in Text
                            /\ \A t \in Text : Joined(Append(s, t)) = Joined(s) \o t
    /\ \A s, u \in Seq(Text) : Joined(s \o u) = Joined(s) \o Joined(u)
    /\ \A t \in Text : Joined(<<t>>) = t
<1> DEFINE g == [t \in Text |-> t]
<1>1. IsPieces(Text, Symbols, g)
  BY DEF IsPieces, Text
<1>2. \A t \in Text : g[t] = t
  OBVIOUS
<1>3. \A s : Joined(s) = Gathered(Symbols, g, s)
  BY DEF Joined
<1> HIDE DEF g
<1>4. Gathered(Symbols, g, <<>>) = <<>>
  BY <1>1, GatheredSteps
<1>5. ASSUME NEW s \in Seq(Text)
      PROVE  /\ Gathered(Symbols, g, s) \in Text
             /\ \A t \in Text : Gathered(Symbols, g, Append(s, t)) = Gathered(Symbols, g, s) \o t
  <2>1. Gathered(Symbols, g, s) \in Seq(Symbols)
    BY <1>1, GatheredSteps
  <2>2. ASSUME NEW t \in Text PROVE Gathered(Symbols, g, Append(s, t)) = Gathered(Symbols, g, s) \o g[t]
    BY <1>1, GatheredSteps
  <2> QED
    BY <1>2, <2>1, <2>2 DEF Text
<1>6. ASSUME NEW s \in Seq(Text), NEW u \in Seq(Text)
      PROVE  Gathered(Symbols, g, s \o u) = Gathered(Symbols, g, s) \o Gathered(Symbols, g, u)
  BY <1>1, GatheredOfBoth
<1>7. ASSUME NEW t \in Text PROVE Gathered(Symbols, g, <<t>>) = t
  <2>1. Gathered(Symbols, g, <<t>>) = g[t]
    BY <1>1, GatheredOfOne
  <2> QED
    BY <1>2, <2>1
<1> QED
  BY <1>3, <1>4, <1>5, <1>6, <1>7

\* Where the lines of a text end.
LEMMA CutSteps ==
    /\ Cut(<<>>) = [lines |-> <<>>, rest |-> <<>>]
    /\ \A t \in Text : /\ Cut(t) \in [lines : Seq(Text), rest : Text]
                       /\ \A x \in Symbols :
                            /\ Cut(Append(t, x)).lines = IF x = "nl" THEN Append(Cut(t).lines, Cut(t).rest) ELSE Cut(t).lines
                            /\ Cut(Append(t, x)).rest = IF x = "nl" THEN <<>> ELSE Append(Cut(t).rest, x)
<1> DEFINE Acc == [lines : Seq(Text), rest : Text]
           none == [lines |-> <<>>, rest |-> <<>>]
<1>0. <<>> \in Text /\ <<>> \in Seq(Text)
  BY EmptySeq DEF Text
<1>1. none \in Acc
  BY <1>0
<1>2. ASSUME NEW acc \in Acc, NEW x \in Symbols
      PROVE  /\ Split[acc][x] = IF x = "nl" THEN [lines |-> Append(acc.lines, acc.rest), rest |-> <<>>]
                                ELSE [lines |-> acc.lines, rest |-> Append(acc.rest, x)]
             /\ Split[acc][x] \in Acc
  <2>1. Split[acc][x] = IF x = "nl" THEN [lines |-> Append(acc.lines, acc.rest), rest |-> <<>>]
                        ELSE [lines |-> acc.lines, rest |-> Append(acc.rest, x)]
    BY DEF Split
  <2>2. acc.lines \in Seq(Text) /\ acc.rest \in Seq(Symbols)
    BY DEF Text
  <2>3. Append(acc.lines, acc.rest) \in Seq(Text) /\ Append(acc.rest, x) \in Seq(Symbols)
    BY <2>2, AppendProperties DEF Text
  <2> QED
    BY <1>0, <2>1, <2>2, <2>3 DEF Text
<1>3. IsBody(Acc, Symbols, Split)
  <2>1. Split = [acc \in Acc |-> [x \in Symbols |-> Split[acc][x]]]
    BY DEF Split
  <2> HIDE DEF Acc
  <2> QED
    BY <1>2, <2>1 DEF IsBody
<1>4. \A t : Cut(t) = Loop(Split, none, t)
  BY DEF Cut
<1> HIDE DEF Acc, none
<1>5. Loop(Split, none, <<>>) = none
  BY <1>1, <1>3, LoopStarts
<1>6. ASSUME NEW t \in Seq(Symbols) PROVE Cut(t) \in Acc
  BY <1>1, <1>3, <1>4, LoopTyped
<1>7. ASSUME NEW t \in Seq(Symbols), NEW x \in Symbols PROVE Cut(Append(t, x)) = Split[Cut(t)][x]
  <2>1. Loop(Split, none, Append(t, x)) = Split[Loop(Split, none, t)][x]
    BY <1>1, <1>3, LoopAppends
  <2> QED
    BY <1>4, <2>1
<1>8. ASSUME NEW t \in Seq(Symbols), NEW x \in Symbols
      PROVE  /\ Cut(Append(t, x)).lines = IF x = "nl" THEN Append(Cut(t).lines, Cut(t).rest) ELSE Cut(t).lines
             /\ Cut(Append(t, x)).rest = IF x = "nl" THEN <<>> ELSE Append(Cut(t).rest, x)
  <2> DEFINE acc == Cut(t)
  <2>1. acc \in Acc /\ Cut(Append(t, x)) = Split[acc][x]
    BY <1>6, <1>7
  <2> HIDE DEF acc
  <2>2. Split[acc][x] = IF x = "nl" THEN [lines |-> Append(acc.lines, acc.rest), rest |-> <<>>]
                        ELSE [lines |-> acc.lines, rest |-> Append(acc.rest, x)]
    BY <1>2, <2>1
  <2>3. /\ Cut(Append(t, x)).lines = IF x = "nl" THEN Append(acc.lines, acc.rest) ELSE acc.lines
        /\ Cut(Append(t, x)).rest = IF x = "nl" THEN <<>> ELSE Append(acc.rest, x)
    BY <2>1, <2>2
  <2> QED
    BY <2>3 DEF acc
<1> QED
  BY <1>4, <1>5, <1>6, <1>8 DEF Text, Acc, none

\* An element after two sequences is one after the second.
LEMMA AppendAfter ==
    ASSUME NEW Z, NEW s \in Seq(Z), NEW t \in Seq(Z), NEW y \in Z
    PROVE  s \o Append(t, y) = Append(s \o t, y)
<1>1. s \o t \in Seq(Z) /\ <<y>> \in Seq(Z)
  BY ConcatProperties
<1>2. Append(t, y) = t \o <<y>>
  BY AppendIsConcat
<1>3. \A w \in Seq(Z) : Append(w, y) = w \o <<y>>
  BY AppendIsConcat
<1>4. Append(s \o t, y) = (s \o t) \o <<y>>
  BY <1>1, <1>3
<1>5. (s \o t) \o <<y>> = s \o (t \o <<y>>)
  BY ONLY <1>1, s \in Seq(Z), t \in Seq(Z), ConcatAssociative
<1> QED
  BY ONLY <1>2, <1>4, <1>5

\* What follows the last line feed of a text has no line.
LEMMA CutOfRest == ASSUME NEW t \in Text PROVE Cut(Cut(t).rest) = [lines |-> <<>>, rest |-> Cut(t).rest]
<1> DEFINE Good == {u \in Text : Cut(Cut(u).rest).lines = <<>> /\ Cut(Cut(u).rest).rest = Cut(u).rest}
<1>0. <<>> \in Text
  BY EmptySeq DEF Text
<1>1. <<>> \in Good
  <2>1. Cut(<<>>).lines = <<>> /\ Cut(<<>>).rest = <<>>
    BY CutSteps
  <2> QED
    BY <1>0, <2>1
<1>2. ASSUME NEW u \in Seq(Symbols), NEW x \in Symbols, u \in Good PROVE Append(u, x) \in Good
  <2> DEFINE r == Cut(u).rest
             s == Cut(Append(u, x)).rest
  <2>1. Append(u, x) \in Text /\ u \in Text
    BY AppendProperties DEF Text
  <2>2. r \in Text
    BY <2>1, CutSteps
  <2>3. s = IF x = "nl" THEN <<>> ELSE Append(r, x)
    BY <2>1, CutSteps
  <2>4. Cut(r).lines = <<>> /\ Cut(r).rest = r
    BY <1>2
  <2> HIDE DEF r, s
  <2>5. x # "nl" => Cut(Append(r, x)).lines = Cut(r).lines /\ Cut(Append(r, x)).rest = Append(Cut(r).rest, x)
    BY <2>2, CutSteps
  <2>6. Cut(<<>>).lines = <<>> /\ Cut(<<>>).rest = <<>>
    BY CutSteps
  <2>7. Cut(s).lines = <<>> /\ Cut(s).rest = s
    BY <2>3, <2>4, <2>5, <2>6
  <2> QED
    BY <2>1, <2>7 DEF s
<1> HIDE DEF Good
<1>3. t \in Good
  BY <1>1, <1>2, SequencesFromEmpty DEF Text
<1>4. Cut(t).rest \in Text
  BY CutSteps
<1>5. Cut(Cut(t).rest) \in [lines : Seq(Text), rest : Text]
  BY <1>4, CutSteps
<1> QED
  BY <1>3, <1>5 DEF Good

\* A text that is cut in two has the lines of its first part, and those of the
\* second after what the first left unfinished.
LEMMA CutOfBoth ==
    ASSUME NEW a \in Text, NEW b \in Text
    PROVE  /\ Cut(a \o b).lines = Cut(a).lines \o Cut(Cut(a).rest \o b).lines
           /\ Cut(a \o b).rest = Cut(Cut(a).rest \o b).rest
<1> DEFINE r == Cut(a).rest
           l == Cut(a).lines
           Good == {u \in Text : Cut(a \o u).lines = l \o Cut(r \o u).lines /\ Cut(a \o u).rest = Cut(r \o u).rest}
<1>0. r \in Text /\ l \in Seq(Text) /\ <<>> \in Text
  BY CutSteps, EmptySeq DEF Text
<1>4. Cut(r).lines = <<>> /\ Cut(r).rest = r
  <2>1. Cut(r) = [lines |-> <<>>, rest |-> r]
    BY CutOfRest
  <2> HIDE DEF r
  <2> QED
    BY <2>1
<1>5. Cut(a).lines = l /\ Cut(a).rest = r
  OBVIOUS
<1> HIDE DEF r, l
<1>1. <<>> \in Good
  <2>1. a \o <<>> = a /\ r \o <<>> = r /\ l \o <<>> = l
    BY <1>0, ConcatEmptySeq DEF Text
  <2> QED
    BY <1>0, <1>4, <1>5, <2>1
<1>2. ASSUME NEW u \in Seq(Symbols), NEW x \in Symbols, u \in Good PROVE Append(u, x) \in Good
  <2> DEFINE au == a \o u
             ru == r \o u
  <2>1. au \in Text /\ ru \in Text /\ Append(u, x) \in Text
    BY <1>0, ConcatProperties, AppendProperties DEF Text
  <2>2. a \o Append(u, x) = Append(au, x) /\ r \o Append(u, x) = Append(ru, x)
    <3>1. a \in Seq(Symbols) /\ r \in Seq(Symbols)
      BY <1>0 DEF Text
    <3>2. \A t \in Seq(Symbols) : t \o Append(u, x) = Append(t \o u, x)
      BY ONLY u \in Seq(Symbols), x \in Symbols, AppendAfter
    <3> QED
      BY <3>1, <3>2
  <2>3. Cut(au).lines = l \o Cut(ru).lines /\ Cut(au).rest = Cut(ru).rest
    BY <1>2
  <2> HIDE DEF au, ru
  <2>4. /\ Cut(Append(au, x)).lines = IF x = "nl" THEN Append(Cut(au).lines, Cut(au).rest) ELSE Cut(au).lines
        /\ Cut(Append(au, x)).rest = IF x = "nl" THEN <<>> ELSE Append(Cut(au).rest, x)
    BY <2>1, CutSteps
  <2>5. /\ Cut(Append(ru, x)).lines = IF x = "nl" THEN Append(Cut(ru).lines, Cut(ru).rest) ELSE Cut(ru).lines
        /\ Cut(Append(ru, x)).rest = IF x = "nl" THEN <<>> ELSE Append(Cut(ru).rest, x)
        /\ Cut(ru).lines \in Seq(Text) /\ Cut(ru).rest \in Text
    BY <2>1, CutSteps
  <2>6. \A m \in Seq(Text), y \in Text : Append(l \o m, y) = l \o Append(m, y)
    BY <1>0, AppendAfter
  <2>7. Append(l \o Cut(ru).lines, Cut(ru).rest) = l \o Append(Cut(ru).lines, Cut(ru).rest)
    BY <2>5, <2>6
  <2>8. Cut(Append(au, x)).lines = l \o Cut(Append(ru, x)).lines /\ Cut(Append(au, x)).rest = Cut(Append(ru, x)).rest
    BY <2>3, <2>4, <2>5, <2>7
  <2> QED
    BY <2>1, <2>2, <2>8
<1> HIDE DEF Good
<1>3. b \in Good
  BY <1>1, <1>2, SequencesFromEmpty DEF Text
<1> QED
  BY <1>3, <1>5 DEF Good

\* A text without the ends of its lines, and lines without carriage returns.
Plain(text) == Without(text, {"nl", "cr"})
Stripped(lines) == [i \in DOMAIN lines |-> Without(lines[i], {"cr"})]

\* Without them it is the same as without carriage returns first.
LEMMA PlainOfStripped == ASSUME NEW t \in Text PROVE Plain(Without(t, {"cr"})) = Plain(t)
<1> DEFINE W(u) == Without(u, {"cr"})
           Good == {u \in Text : Plain(W(u)) = Plain(u)}
<1>1. /\ W(<<>>) = <<>> /\ Plain(<<>>) = <<>> /\ <<>> \in Text
      /\ \A u \in Text, x \in Symbols :
           /\ W(u) \in Text
           /\ W(Append(u, x)) = IF x = "cr" THEN W(u) ELSE Append(W(u), x)
           /\ Plain(Append(u, x)) = IF x \in {"nl", "cr"} THEN Plain(u) ELSE Append(Plain(u), x)
  <2>1. W(<<>>) = <<>> /\ Plain(<<>>) = <<>> /\ <<>> \in Text
    BY WithoutSteps, EmptySeq DEF Plain, Text
  <2>2. \A u \in Text : /\ W(u) \in Text
                         /\ \A x \in Symbols : W(Append(u, x)) = IF x \in {"cr"} THEN W(u) ELSE Append(W(u), x)
    BY WithoutSteps
  <2>3. \A u \in Text : \A x \in Symbols : Plain(Append(u, x)) = IF x \in {"nl", "cr"} THEN Plain(u) ELSE Append(Plain(u), x)
    BY WithoutSteps DEF Plain
  <2> HIDE DEF W
  <2> QED
    BY <2>1, <2>2, <2>3
<1> HIDE DEF W
<1>2. <<>> \in Good
  BY <1>1
<1>3. ASSUME NEW u \in Seq(Symbols), NEW x \in Symbols, u \in Good PROVE Append(u, x) \in Good
  <2>1. Append(u, x) \in Text /\ u \in Text
    BY AppendProperties DEF Text
  <2>2. W(u) \in Text /\ Plain(W(u)) = Plain(u)
    BY <1>1, <1>3
  <2>3. W(Append(u, x)) = IF x = "cr" THEN W(u) ELSE Append(W(u), x)
    BY <1>1, <2>1
  <2>4. Plain(Append(u, x)) = IF x \in {"nl", "cr"} THEN Plain(u) ELSE Append(Plain(u), x)
    BY <1>1, <2>1
  <2> DEFINE w == W(u)
  <2> HIDE DEF w
  <2>5. Plain(Append(w, x)) = IF x \in {"nl", "cr"} THEN Plain(w) ELSE Append(Plain(w), x)
    BY <1>1, <2>2 DEF w
  <2>6. Plain(W(Append(u, x))) = Plain(Append(u, x))
    BY <2>2, <2>3, <2>4, <2>5 DEF w
  <2> QED
    BY <2>1, <2>6
<1> HIDE DEF Good
<1>4. t \in Good
  BY <1>2, <1>3, SequencesFromEmpty DEF Text
<1> QED
  BY <1>4 DEF Good, W

\* The lines of a text say what it says.
LEMMA LinesSay == ASSUME NEW t \in Text PROVE Lines(t) \in Seq(Text) /\ Plain(Joined(Lines(t))) = Plain(t)
<1> DEFINE Good == {u \in Text : Plain(Joined(Cut(u).lines)) \o Plain(Cut(u).rest) = Plain(u)}
<1>0. /\ Plain(<<>>) = <<>> /\ <<>> \in Text
      /\ \A u \in Text : /\ Plain(u) \in Text
                         /\ \A x \in Symbols : Plain(Append(u, x)) = IF x \in {"nl", "cr"} THEN Plain(u) ELSE Append(Plain(u), x)
      /\ \A u, w \in Text : Plain(u \o w) = Plain(u) \o Plain(w)
  <2>1. Plain(<<>>) = <<>> /\ <<>> \in Text
    BY WithoutSteps, EmptySeq DEF Plain, Text
  <2> QED
    BY <2>1, WithoutSteps DEF Plain
<1>1. <<>> \in Good
  <2>1. Cut(<<>>).lines = <<>> /\ Cut(<<>>).rest = <<>> /\ Joined(<<>>) = <<>>
    BY CutSteps, JoinedSteps
  <2>2. <<>> \o <<>> = <<>>
    OBVIOUS
  <2> QED
    BY <1>0, <2>1, <2>2
<1>2. ASSUME NEW u \in Seq(Symbols), NEW x \in Symbols, u \in Good PROVE Append(u, x) \in Good
  <2> DEFINE l == Cut(u).lines
             r == Cut(u).rest
             J == Joined(l)
             v == Append(u, x)
  <2>1. u \in Text /\ v \in Text
    BY AppendProperties DEF Text
  <2>2. l \in Seq(Text) /\ r \in Text
    BY <2>1, CutSteps
  <2>3. Cut(v).lines = (IF x = "nl" THEN Append(l, r) ELSE l) /\ Cut(v).rest = (IF x = "nl" THEN <<>> ELSE Append(r, x))
    BY <2>1, CutSteps
  <2>4. Plain(J) \o Plain(r) = Plain(u)
    BY <1>2
  <2>5. Plain(v) = IF x \in {"nl", "cr"} THEN Plain(u) ELSE Append(Plain(u), x)
    BY <1>0, <2>1
  <2> HIDE DEF l, r, v
  <2>6. J \in Text /\ Joined(Append(l, r)) = J \o r
    BY <2>2, JoinedSteps
  <2> HIDE DEF J
  <2>7. Plain(J) \in Text /\ Plain(r) \in Text
    BY <1>0, <2>2, <2>6
  <2>8. CASE x = "nl"
    <3>1. Plain(Joined(Append(l, r))) = Plain(J) \o Plain(r)
      BY <1>0, <2>2, <2>6
    <3>2. \A w \in Text : w \o <<>> = w
      BY ConcatEmptySeq DEF Text
    <3>3. Plain(u) \in Text
      BY <1>0, <2>1
    <3>4. Plain(Joined(Cut(v).lines)) \o Plain(Cut(v).rest) = Plain(v)
      BY <1>0, <2>3, <2>4, <2>5, <2>8, <3>1, <3>2, <3>3
    <3> QED
      BY <2>1, <3>4 DEF v
  <2>9. CASE x # "nl"
    <3>1. Plain(Append(r, x)) = IF x \in {"nl", "cr"} THEN Plain(r) ELSE Append(Plain(r), x)
      BY <1>0, <2>2
    <3>2. \A a, b \in Text : a \o Append(b, x) = Append(a \o b, x)
      BY AppendAfter DEF Text
    <3>3. Plain(J) \o Append(Plain(r), x) = Append(Plain(J) \o Plain(r), x)
      BY <2>7, <3>2
    <3>4. Plain(Joined(Cut(v).lines)) \o Plain(Cut(v).rest) = Plain(v)
      BY <2>3, <2>4, <2>5, <2>9, <3>1, <3>3 DEF J
    <3> QED
      BY <2>1, <3>4 DEF v
  <2> QED
    BY <2>8, <2>9
<1> HIDE DEF Good
<1>3. t \in Good
  BY <1>1, <1>2, SequencesFromEmpty DEF Text
<1> DEFINE l == Cut(t).lines
           r == Cut(t).rest
<1>4. l \in Seq(Text) /\ r \in Text
  BY CutSteps
<1>5. Plain(Joined(l)) \o Plain(r) = Plain(t)
  BY <1>3 DEF Good
<1>6. Lines(t) = l \o Flush(r)
  BY DEF Lines
<1> HIDE DEF l, r
<1>7. Flush(r) \in Seq(Text) /\ Joined(Flush(r)) = r
  <2>1. CASE r = <<>>
    BY <2>1, JoinedSteps, EmptySeq DEF Flush
  <2>2. CASE r # <<>>
    BY <1>4, <2>2, JoinedSteps DEF Flush
  <2> QED
    BY <2>1, <2>2
<1>8. Joined(l \o Flush(r)) = Joined(l) \o r /\ Joined(l) \in Text
  <2>1. \A f \in Seq(Text) : Joined(l \o f) = Joined(l) \o Joined(f)
    BY <1>4, JoinedSteps
  <2> QED
    BY <1>4, <1>7, <2>1, JoinedSteps
<1>9. Plain(Joined(l) \o r) = Plain(Joined(l)) \o Plain(r)
  BY <1>0, <1>4, <1>8
<1>10. Lines(t) \in Seq(Text)
  BY <1>4, <1>6, <1>7, ConcatProperties
<1> QED
  BY <1>5, <1>6, <1>8, <1>9, <1>10

\* The lines without carriage returns, line by line.
LEMMA StrippedIs ==
    ASSUME NEW lines \in Seq(Text)
    PROVE  /\ Stripped(lines) \in Seq(Text) /\ Len(Stripped(lines)) = Len(lines)
           /\ \A i \in 1..Len(lines) : Stripped(lines)[i] = Without(lines[i], {"cr"})
<1>1. Len(lines) \in Nat /\ DOMAIN lines = 1..Len(lines) /\ \A i \in 1..Len(lines) : lines[i] \in Text
  BY LenProperties, ElementOfSeq
<1>2. Stripped(lines) = [i \in 1..Len(lines) |-> Without(lines[i], {"cr"})]
  BY <1>1 DEF Stripped
<1>3. \A i \in 1..Len(lines) : Without(lines[i], {"cr"}) \in Text
  BY <1>1, WithoutSteps
<1>4. Stripped(lines) \in [1..Len(lines) -> Text]
  BY <1>2, <1>3
<1>5. Stripped(lines) \in Seq(Text)
  BY <1>1, <1>4, SeqDef
<1> QED
  BY <1>1, <1>2, <1>5, LenProperties

\* So do the events that carry them.
LEMMA StrippedSay ==
    ASSUME NEW lines \in Seq(Text)
    PROVE  Stripped(lines) \in Seq(Text) /\ Plain(Joined(Stripped(lines))) = Plain(Joined(lines))
<1> DEFINE Good == {u \in Seq(Text) : Stripped(u) \in Seq(Text) /\ Plain(Joined(Stripped(u))) = Plain(Joined(u))}
<1>1. <<>> \in Good
  <2>1. Stripped(<<>>) = <<>>
    BY DEF Stripped
  <2> QED
    BY <2>1, EmptySeq
<1>2. ASSUME NEW u \in Seq(Text), NEW t \in Text, u \in Good PROVE Append(u, t) \in Good
  <2> DEFINE w == Without(t, {"cr"})
             v == Append(u, t)
             z == Stripped(u)
  <2>1. w \in Text /\ Plain(w) = Plain(t)
    BY WithoutSteps, PlainOfStripped
  <2>2. v \in Seq(Text) /\ z \in Seq(Text) /\ Plain(Joined(z)) = Plain(Joined(u))
    BY <1>2, AppendProperties
  <2>3. Stripped(v) = Append(z, w)
    <3>1. Len(v) = Len(u) + 1 /\ Len(u) \in Nat /\ v[Len(u) + 1] = t /\ \A i \in 1..Len(u) : v[i] = u[i]
      BY AppendProperties, LenProperties
    <3>2. Len(z) = Len(u) /\ \A i \in 1..Len(u) : z[i] = Without(u[i], {"cr"})
      BY StrippedIs
    <3>3. Stripped(v) \in Seq(Text) /\ Len(Stripped(v)) = Len(v)
          /\ \A i \in 1..Len(v) : Stripped(v)[i] = Without(v[i], {"cr"})
      BY <2>2, StrippedIs
    <3>4. Without(v[Len(u) + 1], {"cr"}) = w
      BY <3>1
    <3> HIDE DEF z, w, v
    <3>5. Append(z, w) \in Seq(Text) /\ Len(Append(z, w)) = Len(u) + 1 /\ Append(z, w)[Len(u) + 1] = w
          /\ \A i \in 1..Len(u) : Append(z, w)[i] = z[i]
      <4>1. Append(z, w) \in Seq(Text) /\ Len(Append(z, w)) = Len(z) + 1 /\ Append(z, w)[Len(z) + 1] = w
            /\ \A i \in 1..Len(z) : Append(z, w)[i] = z[i]
        BY <2>1, <2>2, AppendProperties
      <4> QED
        BY <3>2, <4>1
    <3>6. \A i \in 1..(Len(u) + 1) : i = Len(u) + 1 \/ i \in 1..Len(u)
      BY <3>1
    <3>7. \A i \in 1..Len(v) : Stripped(v)[i] = Append(z, w)[i]
      BY <3>1, <3>2, <3>3, <3>4, <3>5, <3>6
    <3> QED
      BY <3>1, <3>3, <3>5, <3>7, SeqEqual
  <2>4. /\ Joined(v) = Joined(u) \o t /\ Joined(u) \in Text
        /\ Joined(z) \in Text
    BY <2>2, JoinedSteps
  <2> HIDE DEF z, w, v
  <2>5. Joined(Append(z, w)) = Joined(z) \o w
    BY <2>1, <2>2, JoinedSteps
  <2>6. \A a, b \in Text : Plain(a \o b) = Plain(a) \o Plain(b)
    BY WithoutSteps DEF Plain
  <2>7. Plain(Joined(Stripped(v))) = Plain(Joined(v))
    <3>1. Plain(Joined(z) \o w) = Plain(Joined(z)) \o Plain(w)
      BY <2>1, <2>4, <2>6
    <3>2. Plain(Joined(u) \o t) = Plain(Joined(u)) \o Plain(t)
      BY <2>4, <2>6
    <3> QED
      BY <2>1, <2>2, <2>3, <2>4, <2>5, <3>1, <3>2
  <2>8. Stripped(v) \in Seq(Text)
    BY <2>2, StrippedIs DEF v
  <2> QED
    BY <2>2, <2>7, <2>8 DEF v
<1> HIDE DEF Good
<1>3. lines \in Good
  BY <1>1, <1>2, SequencesFromEmpty
<1> QED
  BY <1>3 DEF Good

\* What events say together, and what those say that carry a text.
LEMMA SaidSteps ==
    /\ Said(<<>>) = <<>>
    /\ \A s, u \in Seq(Text) : Said(s \o u) = Said(s) \o Said(u)
    /\ \A t \in Text : Said(<<t>>) = Plain(t) /\ Drain(t) \in Seq(Text) /\ Said(Drain(t)) = Plain(t)
<1>1. Said(<<>>) = <<>>
  BY JoinedSteps, WithoutSteps DEF Said
<1>2. ASSUME NEW s \in Seq(Text), NEW u \in Seq(Text) PROVE Said(s \o u) = Said(s) \o Said(u)
  <2>1. Joined(s \o u) = Joined(s) \o Joined(u) /\ Joined(s) \in Text /\ Joined(u) \in Text
    BY JoinedSteps
  <2>2. \A a, b \in Text : Plain(a \o b) = Plain(a) \o Plain(b)
    BY WithoutSteps DEF Plain
  <2>3. \A e : Said(e) = Plain(Joined(e))
    BY DEF Said, Plain
  <2> QED
    BY <2>1, <2>2, <2>3
<1>3. ASSUME NEW t \in Text PROVE Said(<<t>>) = Plain(t) /\ Drain(t) \in Seq(Text) /\ Said(Drain(t)) = Plain(t)
  <2>1. Said(<<t>>) = Plain(t)
    BY JoinedSteps DEF Said, Plain
  <2>2. Drain(t) = Stripped(Lines(t))
    BY DEF Drain, Stripped
  <2>3. Lines(t) \in Seq(Text) /\ Plain(Joined(Lines(t))) = Plain(t)
    BY LinesSay
  <2> DEFINE l == Lines(t)
  <2> HIDE DEF l
  <2>4. l \in Seq(Text) => Stripped(l) \in Seq(Text) /\ Plain(Joined(Stripped(l))) = Plain(Joined(l))
    BY StrippedSay
  <2>5. \A e : Said(e) = Plain(Joined(e))
    BY DEF Said, Plain
  <2> QED
    BY <2>1, <2>2, <2>3, <2>4, <2>5 DEF l
<1> QED
  BY <1>1, <1>2, <1>3

\* The lines of a stream, as events.
LEMMA OnSteps ==
    ASSUME NEW s \in Streams
    PROVE  /\ On(s, <<>>) = <<>>
           /\ \A a \in Seq(Text) : /\ On(s, a) \in Seq(Line) /\ Len(On(s, a)) = Len(a)
                                   /\ \A i \in 1..Len(a) : On(s, a)[i] = [stream |-> s, text |-> a[i]]
           /\ \A a, b \in Seq(Text) : On(s, a \o b) = On(s, a) \o On(s, b)
<1>1. On(s, <<>>) = <<>>
  BY DEF On
<1>2. ASSUME NEW a \in Seq(Text)
      PROVE  /\ On(s, a) \in Seq(Line) /\ Len(On(s, a)) = Len(a)
             /\ \A i \in 1..Len(a) : On(s, a)[i] = [stream |-> s, text |-> a[i]]
  <2>1. Len(a) \in Nat /\ DOMAIN a = 1..Len(a) /\ \A i \in 1..Len(a) : a[i] \in Text
    BY LenProperties, ElementOfSeq
  <2>2. On(s, a) = [i \in 1..Len(a) |-> [stream |-> s, text |-> a[i]]]
    BY <2>1 DEF On
  <2>3. \A i \in 1..Len(a) : [stream |-> s, text |-> a[i]] \in Line
    BY <2>1 DEF Line
  <2>4. On(s, a) \in [1..Len(a) -> Line]
    BY <2>2, <2>3
  <2>5. On(s, a) \in Seq(Line)
    BY <2>1, <2>4, SeqDef
  <2> QED
    BY <2>1, <2>2, <2>5, LenProperties
<1>3. ASSUME NEW a \in Seq(Text), NEW b \in Seq(Text) PROVE On(s, a \o b) = On(s, a) \o On(s, b)
  <2> DEFINE ab == a \o b
             x == On(s, a)
             y == On(s, b)
             z == On(s, ab)
  <2>1. ab \in Seq(Text) /\ Len(ab) = Len(a) + Len(b) /\ Len(a) \in Nat /\ Len(b) \in Nat
        /\ \A i \in 1..Len(ab) : ab[i] = IF i <= Len(a) THEN a[i] ELSE b[i - Len(a)]
    BY ConcatProperties, LenProperties
  <2>2. /\ x \in Seq(Line) /\ Len(x) = Len(a) /\ \A i \in 1..Len(a) : x[i] = [stream |-> s, text |-> a[i]]
        /\ y \in Seq(Line) /\ Len(y) = Len(b) /\ \A i \in 1..Len(b) : y[i] = [stream |-> s, text |-> b[i]]
    BY <1>2
  <2> HIDE DEF ab, x, y
  <2>3. z \in Seq(Line) /\ Len(z) = Len(ab) /\ \A i \in 1..Len(ab) : z[i] = [stream |-> s, text |-> ab[i]]
    BY <1>2, <2>1
  <2> HIDE DEF z
  <2>4. x \o y \in Seq(Line) /\ Len(x \o y) = Len(x) + Len(y)
        /\ \A i \in 1..(Len(x) + Len(y)) : (x \o y)[i] = IF i <= Len(x) THEN x[i] ELSE y[i - Len(x)]
    <3>1. x \in Seq(Line) /\ y \in Seq(Line)
      BY <2>2
    <3> QED
      BY ONLY <3>1, ConcatProperties
  <2>5. ASSUME NEW i \in 1..Len(z) PROVE z[i] = (x \o y)[i]
    <3>1. i \in 1..Len(ab) /\ i \in 1..(Len(x) + Len(y))
      BY <2>1, <2>2, <2>3
    <3>2. CASE i <= Len(a)
      <4>1. i \in 1..Len(a)
        BY <2>1, <3>1, <3>2
      <4> QED
        BY <2>1, <2>2, <2>3, <2>4, <3>1, <3>2, <4>1
    <3>3. CASE ~(i <= Len(a))
      <4>1. i - Len(a) \in 1..Len(b)
        BY <2>1, <3>1, <3>3
      <4>2. (x \o y)[i] = y[i - Len(a)]
        BY <2>2, <2>4, <3>1, <3>3
      <4>3. ab[i] = b[i - Len(a)]
        BY <2>1, <3>1, <3>3
      <4> QED
        BY <2>2, <2>3, <3>1, <4>1, <4>2, <4>3
    <3> QED
      BY <3>2, <3>3
  <2>6. Len(z) = Len(x \o y)
    BY <2>1, <2>2, <2>3, <2>4
  <2> DEFINE xy == x \o y
  <2> HIDE DEF xy
  <2>7. z = xy
    BY <2>3, <2>4, <2>5, <2>6, SeqEqual DEF xy
  <2> QED
    BY <2>7 DEF xy, x, y, z, ab
<1> QED
  BY <1>1, <1>2, <1>3

\* What a reader has of one of the streams.
LEMMA OfStreamSteps ==
    ASSUME NEW s \in Streams
    PROVE  /\ OfStream(<<>>, s) = <<>>
           /\ \A e \in Seq(Line) : /\ OfStream(e, s) \in Seq(Line)
                                   /\ \A x \in Line : OfStream(Append(e, x), s) = IF x.stream = s THEN Append(OfStream(e, s), x)
                                                                                  ELSE OfStream(e, s)
           /\ \A e, f \in Seq(Line) : OfStream(e \o f, s) = OfStream(e, s) \o OfStream(f, s)
<1> DEFINE g == [x \in Line |-> IF x.stream = s THEN <<x>> ELSE <<>>]
<1>1. IsPieces(Line, Line, g)
  <2>1. \A x \in Line : <<>> \in Seq(Line) /\ <<x>> \in Seq(Line)
    OBVIOUS
  <2> QED
    BY <2>1 DEF IsPieces
<1>2. \A x \in Line : g[x] = IF x.stream = s THEN <<x>> ELSE <<>>
  OBVIOUS
<1>3. \A e : OfStream(e, s) = Gathered(Line, g, e)
  BY DEF OfStream
<1> HIDE DEF g
<1>4. Gathered(Line, g, <<>>) = <<>>
  BY <1>1, GatheredSteps
<1>5. ASSUME NEW e \in Seq(Line)
      PROVE  /\ Gathered(Line, g, e) \in Seq(Line)
             /\ \A x \in Line : Gathered(Line, g, Append(e, x)) = IF x.stream = s THEN Append(Gathered(Line, g, e), x)
                                                                  ELSE Gathered(Line, g, e)
  <2> DEFINE G == Gathered(Line, g, e)
  <2>1. G \in Seq(Line)
    BY <1>1, GatheredSteps
  <2>2. ASSUME NEW x \in Line PROVE Gathered(Line, g, Append(e, x)) = G \o g[x]
    BY <1>1, GatheredSteps
  <2> HIDE DEF G
  <2>3. ASSUME NEW x \in Line PROVE G \o <<>> = G /\ G \o <<x>> = Append(G, x)
    BY <2>1, ConcatEmptySeq, AppendIsConcat
  <2>4. ASSUME NEW x \in Line PROVE Gathered(Line, g, Append(e, x)) = IF x.stream = s THEN Append(G, x) ELSE G
    BY <1>2, <2>2, <2>3
  <2> QED
    BY <2>1, <2>4 DEF G
<1>6. ASSUME NEW e \in Seq(Line), NEW f \in Seq(Line)
      PROVE  Gathered(Line, g, e \o f) = Gathered(Line, g, e) \o Gathered(Line, g, f)
  BY <1>1, GatheredOfBoth
<1>7. ASSUME NEW e \in Seq(Line)
      PROVE  /\ OfStream(e, s) \in Seq(Line)
             /\ \A x \in Line : OfStream(Append(e, x), s) = IF x.stream = s THEN Append(OfStream(e, s), x)
                                                            ELSE OfStream(e, s)
  BY <1>3, <1>5
<1>8. ASSUME NEW e \in Seq(Line), NEW f \in Seq(Line) PROVE OfStream(e \o f, s) = OfStream(e, s) \o OfStream(f, s)
  BY ONLY <1>3, <1>6
<1>9. OfStream(<<>>, s) = <<>>
  BY <1>3, <1>4
<1> QED
  BY ONLY <1>7, <1>8, <1>9

\* Of the lines of one of the two, all or none.
LEMMA OfStreamOn ==
    ASSUME NEW s \in Streams, NEW t \in Streams, NEW a \in Seq(Text)
    PROVE  OfStream(On(t, a), s) = IF t = s THEN On(s, a) ELSE <<>>
<1> DEFINE Good == {u \in Seq(Text) : OfStream(On(t, u), s) = IF t = s THEN On(s, u) ELSE <<>>}
<1>1. <<>> \in Good
  <2>1. On(t, <<>>) = <<>> /\ On(s, <<>>) = <<>> /\ OfStream(<<>>, s) = <<>>
    BY OnSteps, OfStreamSteps
  <2> QED
    BY <2>1, EmptySeq
<1>2. ASSUME NEW u \in Seq(Text), NEW y \in Text, u \in Good PROVE Append(u, y) \in Good
  <2> DEFINE v == Append(u, y)
             o == On(t, u)
             x == [stream |-> t, text |-> y]
  <2>1. v \in Seq(Text) /\ x \in Line /\ x.stream = t
    BY AppendProperties DEF Line
  <2>2. ASSUME NEW r \in Streams PROVE On(r, v) = Append(On(r, u), [stream |-> r, text |-> y])
    <3>1. v = u \o <<y>> /\ <<y>> \in Seq(Text)
      BY AppendIsConcat
    <3>2. On(r, u \o <<y>>) = On(r, u) \o On(r, <<y>>)
      BY <3>1, OnSteps
    <3>3. On(r, <<y>>) = <<[stream |-> r, text |-> y]>>
      BY DEF On
    <3>4. On(r, u) \in Seq(Line) /\ [stream |-> r, text |-> y] \in Line
      BY OnSteps DEF Line
    <3> DEFINE m == On(r, u)
               z == [stream |-> r, text |-> y]
    <3> HIDE DEF m, z
    <3>5. m \in Seq(Line) /\ z \in Line
      BY <3>4 DEF m, z
    <3>6. Append(m, z) = m \o <<z>>
      BY <3>5, AppendIsConcat
    <3> QED
      BY <3>1, <3>2, <3>3, <3>6 DEF m, z
  <2>3. o \in Seq(Line) /\ OfStream(o, s) = IF t = s THEN On(s, u) ELSE <<>>
    BY <1>2, OnSteps
  <2>4. On(t, v) = Append(o, x) /\ (t = s => On(s, v) = Append(On(s, u), x))
    BY <2>2
  <2> HIDE DEF v, o, x
  <2>5. OfStream(Append(o, x), s) = IF x.stream = s THEN Append(OfStream(o, s), x) ELSE OfStream(o, s)
    BY <2>1, <2>3, OfStreamSteps
  <2>6. OfStream(On(t, v), s) = IF t = s THEN On(s, v) ELSE <<>>
    BY <2>1, <2>3, <2>4, <2>5
  <2> QED
    BY <2>1, <2>6 DEF v
<1> HIDE DEF Good
<1>3. a \in Good
  BY <1>1, <1>2, SequencesFromEmpty
<1> QED
  BY <1>3 DEF Good

\* What the frames of a stream say.
LEMMA PayloadSteps ==
    ASSUME NEW s
    PROVE  /\ Payload(<<>>, s) = <<>>
           /\ \A fs \in Seq(Frame) : /\ Payload(fs, s) \in Text
                                     /\ \A f \in Frame : Payload(Append(fs, f), s) = IF f.stream = s THEN Payload(fs, s) \o f.text
                                                                                     ELSE Payload(fs, s)
<1> DEFINE g == [f \in Frame |-> IF f.stream = s THEN f.text ELSE <<>>]
<1>1. IsPieces(Frame, Symbols, g)
  <2>1. \A f \in Frame : <<>> \in Seq(Symbols) /\ f.text \in Seq(Symbols)
    BY DEF Frame, Text
  <2> QED
    BY <2>1 DEF IsPieces
<1>2. \A f \in Frame : g[f] = IF f.stream = s THEN f.text ELSE <<>>
  OBVIOUS
<1>3. \A fs : Payload(fs, s) = Gathered(Symbols, g, fs)
  BY DEF Payload
<1> HIDE DEF g
<1>4. Gathered(Symbols, g, <<>>) = <<>>
  BY <1>1, GatheredSteps
<1>5. ASSUME NEW fs \in Seq(Frame)
      PROVE  /\ Gathered(Symbols, g, fs) \in Text
             /\ \A f \in Frame : Gathered(Symbols, g, Append(fs, f)) = IF f.stream = s THEN Gathered(Symbols, g, fs) \o f.text
                                                                       ELSE Gathered(Symbols, g, fs)
  <2> DEFINE G == Gathered(Symbols, g, fs)
  <2>1. G \in Seq(Symbols)
    BY <1>1, GatheredSteps
  <2>2. ASSUME NEW f \in Frame PROVE Gathered(Symbols, g, Append(fs, f)) = G \o g[f]
    BY <1>1, GatheredSteps
  <2> HIDE DEF G
  <2>3. G \o <<>> = G
    BY <2>1, ConcatEmptySeq
  <2>4. ASSUME NEW f \in Frame PROVE Gathered(Symbols, g, Append(fs, f)) = IF f.stream = s THEN G \o f.text ELSE G
    BY <1>2, <2>2, <2>3
  <2> QED
    BY <2>1, <2>4 DEF G, Text
<1> QED
  BY <1>3, <1>4, <1>5

\* DemuxLogs keeps, of each stream, what follows the last line feed of all that
\* the stream has said.
LEMMA UnfinishedIs ==
    ASSUME NEW frames \in Seq(Frame)
    PROVE  Unfinished(frames) = [s \in Streams |-> Cut(Payload(frames, s)).rest]
<1> DEFINE P == [Streams -> Text]
           none == [s \in Streams |-> <<>>]
           body == [p \in P |-> [f \in Frame |-> Demux(p, f).partial]]
           Good == {u \in Seq(Frame) : Unfinished(u) = [s \in Streams |-> Cut(Payload(u, s)).rest]}
<1>0. <<>> \in Text
  BY EmptySeq DEF Text
<1>1. none \in P
  BY <1>0
<1>2. ASSUME NEW p \in P, NEW f \in Frame
      PROVE  body[p][f] = IF f.stream \in Streams THEN [p EXCEPT ![f.stream] = Cut(p[f.stream] \o f.text).rest] ELSE p
  BY DEF Demux
<1>3. ASSUME NEW p \in P, NEW f \in Frame PROVE body[p][f] \in P
  <2>1. CASE f.stream \in Streams
    <3> DEFINE t == p[f.stream] \o f.text
    <3>1. p[f.stream] \in Seq(Symbols) /\ f.text \in Seq(Symbols)
      BY <2>1 DEF Frame, Text
    <3>2. t \in Text
      BY <3>1, ConcatProperties DEF Text
    <3> HIDE DEF t
    <3>3. Cut(t).rest \in Text
      BY <3>2, CutSteps
    <3> QED
      BY <1>2, <2>1, <3>3 DEF t
  <2>2. CASE f.stream \notin Streams
    BY <1>2, <2>2
  <2> QED
    BY <2>1, <2>2
<1>4. IsBody(P, Frame, body)
  <2>1. body = [p \in P |-> [f \in Frame |-> body[p][f]]]
    OBVIOUS
  <2> HIDE DEF body, P
  <2> QED
    BY <1>3, <2>1 DEF IsBody
<1>5. \A fs : Unfinished(fs) = Loop(body, none, fs)
  BY DEF Unfinished
<1> HIDE DEF body
<1>6. <<>> \in Good
  <2>1. Unfinished(<<>>) = none
    <3> HIDE DEF none, P
    <3> QED
      BY <1>1, <1>4, <1>5, LoopStarts
  <2>2. \A s \in Streams : Cut(Payload(<<>>, s)).rest = <<>>
    <3>1. Cut(<<>>).rest = <<>>
      BY CutSteps
    <3>2. \A s \in Streams : Payload(<<>>, s) = <<>>
      BY PayloadSteps
    <3> QED
      BY <3>1, <3>2
  <2> QED
    BY <2>1, <2>2
<1>7. ASSUME NEW u \in Seq(Frame), NEW f \in Frame, u \in Good PROVE Append(u, f) \in Good
  <2> DEFINE v == Append(u, f)
             p == Unfinished(u)
  <2>1. v \in Seq(Frame)
    BY AppendProperties
  <2>2. Unfinished(v) = body[p][f] /\ p \in P
    <3> HIDE DEF none, P
    <3>1. Loop(body, none, Append(u, f)) = body[Loop(body, none, u)][f]
      BY <1>1, <1>4, LoopAppends
    <3>2. Loop(body, none, u) \in P
      BY <1>1, <1>4, LoopTyped
    <3> QED
      BY <1>5, <3>1, <3>2
  <2>3. p = [s \in Streams |-> Cut(Payload(u, s)).rest]
    BY <1>7
  <2>4. \A s \in Streams : /\ Payload(u, s) \in Text /\ f.text \in Text
                           /\ Payload(v, s) = IF f.stream = s THEN Payload(u, s) \o f.text ELSE Payload(u, s)
    BY PayloadSteps DEF Frame
  <2>5. ASSUME NEW s \in Streams PROVE body[p][f][s] = Cut(Payload(v, s)).rest
    <3> DEFINE w == Payload(u, s)
    <3>1. w \in Text /\ p[s] = Cut(w).rest
      BY <2>3, <2>4
    <3>2. Payload(v, s) = IF f.stream = s THEN w \o f.text ELSE w
      BY <2>4
    <3> HIDE DEF w, p, v
    <3>3. CASE f.stream = s
      <4>1. body[p][f][s] = Cut(p[s] \o f.text).rest
        <5>1. body[p][f] = [p EXCEPT ![f.stream] = Cut(p[f.stream] \o f.text).rest]
          BY <1>2, <2>2, <3>3
        <5>2. p = [x \in Streams |-> p[x]]
          BY <2>2
        <5> QED
          BY <3>3, <5>1, <5>2
      <4>2. Cut(w \o f.text).rest = Cut(Cut(w).rest \o f.text).rest
        <5>1. f.text \in Text
          BY DEF Frame
        <5> QED
          BY <3>1, <5>1, CutOfBoth
      <4> QED
        BY <3>1, <3>2, <3>3, <4>1, <4>2
    <3>4. CASE f.stream # s
      <4>1. body[p][f][s] = p[s]
        BY <1>2, <2>2, <3>4
      <4> QED
        BY <3>1, <3>2, <3>4, <4>1
    <3> QED
      BY <3>3, <3>4
  <2>6. body[p][f] = [s \in Streams |-> body[p][f][s]]
    BY <1>3, <2>2
  <2>7. Unfinished(v) = [s \in Streams |-> Cut(Payload(v, s)).rest]
    <3> HIDE DEF p, v
    <3> QED
      BY <2>2, <2>5, <2>6
  <2> QED
    BY <2>1, <2>7
<1> HIDE DEF Good
<1>8. frames \in Good
  BY <1>6, <1>7, SequencesFromEmpty
<1> QED
  BY <1>8 DEF Good

\* What a reader has of a container's log: of each stream, its lines.
HasLines(events, frames) ==
    /\ frames \in Seq(Frame) /\ events \in Seq(Line)
    /\ \A s \in Streams : OfStream(events, s) = On(s, Cut(Payload(frames, s)).lines)

\* A frame brings the lines that it finishes.
LEMMA FrameBrings ==
    ASSUME NEW frames, NEW events, HasLines(events, frames), NEW f \in Frame
    PROVE  HasLines(events \o Demux(Unfinished(frames), f).emitted, Append(frames, f))
<1> DEFINE fs == Append(frames, f)
           new == Demux(Unfinished(frames), f).emitted
           c == Cut(Cut(Payload(frames, f.stream)).rest \o f.text).lines
<1>1. frames \in Seq(Frame) /\ events \in Seq(Line) /\ f.text \in Text
  BY DEF HasLines, Frame
<1>2. \A s \in Streams : OfStream(events, s) = On(s, Cut(Payload(frames, s)).lines)
  BY DEF HasLines
<1>3. fs \in Seq(Frame)
  BY <1>1, AppendProperties
<1>4. \A s : /\ Payload(frames, s) \in Text
             /\ Payload(fs, s) = IF f.stream = s THEN Payload(frames, s) \o f.text ELSE Payload(frames, s)
  BY <1>1, PayloadSteps
<1>5. new = IF f.stream \in Streams THEN On(f.stream, c) ELSE <<>>
  <2>1. Unfinished(frames) = [s \in Streams |-> Cut(Payload(frames, s)).rest]
    BY <1>1, UnfinishedIs
  <2> QED
    BY <2>1 DEF Demux
<1> HIDE DEF fs, new
<1>6. CASE f.stream \notin Streams
  <2>1. new = <<>> /\ events \o <<>> = events
    BY <1>1, <1>5, <1>6, ConcatEmptySeq
  <2>2. \A s \in Streams : Payload(fs, s) = Payload(frames, s)
    BY <1>4, <1>6
  <2>3. HasLines(events \o new, fs)
    BY <1>1, <1>2, <1>3, <2>1, <2>2 DEF HasLines
  <2> QED
    BY <2>3 DEF fs, new
<1>7. CASE f.stream \in Streams
  <2> DEFINE t == f.stream
             p == Payload(frames, t)
             l == Cut(p).lines
  <2>1. p \in Text
    BY <1>4
  <2>2. l \in Seq(Text) /\ Cut(p).rest \in Text
    BY <2>1, CutSteps
  <2>3. Cut(p \o f.text).lines = l \o c
    <3> HIDE DEF p
    <3> QED
      BY <1>1, <2>1, CutOfBoth DEF p
  <2>4. c \in Seq(Text)
    <3> DEFINE r == Cut(p).rest
    <3>1. r \o f.text \in Text
      <4>1. r \in Seq(Symbols) /\ f.text \in Seq(Symbols)
        BY <1>1, <2>2 DEF Text
      <4> HIDE DEF r
      <4> QED
        BY <4>1, ConcatProperties DEF Text
    <3> DEFINE rt == r \o f.text
    <3>2. rt \in Text
      BY <3>1
    <3> HIDE DEF rt
    <3>3. Cut(rt).lines \in Seq(Text)
      BY <3>2, CutSteps
    <3> QED
      BY <3>3 DEF rt
  <2>5. new = On(t, c)
    BY <1>5, <1>7
  <2> HIDE DEF c, l, p
  <2>6. new \in Seq(Line) /\ \A s \in Streams : OfStream(new, s) = IF t = s THEN On(s, c) ELSE <<>>
    BY <1>7, <2>4, <2>5, OnSteps, OfStreamOn
  <2>7. ASSUME NEW s \in Streams PROVE OfStream(events \o new, s) = On(s, Cut(Payload(fs, s)).lines)
    <3>1. OfStream(events \o new, s) = OfStream(events, s) \o OfStream(new, s) /\ OfStream(events, s) \in Seq(Line)
      BY <1>1, <2>6, OfStreamSteps
    <3>2. CASE t = s
      <4>1. On(s, l \o c) = On(s, l) \o On(s, c)
        BY <2>2, <2>4, OnSteps
      <4>2. Payload(fs, s) = p \o f.text /\ OfStream(events, s) = On(s, l)
        BY <1>2, <1>4, <3>2 DEF p, l
      <4> QED
        BY <2>3, <2>6, <3>1, <3>2, <4>1, <4>2
    <3>3. CASE t # s
      <4>1. Payload(fs, s) = Payload(frames, s)
        BY <1>4, <3>3
      <4>2. OfStream(new, s) = <<>>
        BY <2>6, <3>3
      <4>3. OfStream(events, s) \o <<>> = OfStream(events, s)
        BY <3>1, ConcatEmptySeq
      <4> QED
        BY <1>2, <3>1, <4>1, <4>2, <4>3
    <3> QED
      BY <3>2, <3>3
  <2>8. events \o new \in Seq(Line)
    BY <1>1, <2>6, ConcatProperties
  <2>9. HasLines(events \o new, fs)
    BY <1>3, <2>7, <2>8 DEF HasLines
  <2> QED
    BY <2>9 DEF fs, new
<1> QED
  BY <1>6, <1>7

\* The end brings the unfinished lines of both.
LEMMA EndBrings ==
    ASSUME NEW frames, NEW events, HasLines(events, frames),
           NEW first \in Streams, NEW last \in Streams, first # last, NEW s \in Streams
    PROVE  OfStream(events \o On(first, Flush(Unfinished(frames)[first])) \o On(last, Flush(Unfinished(frames)[last])), s)
             = On(s, Lines(Payload(frames, s)))
<1> DEFINE p(r) == Payload(frames, r)
           F(r) == Flush(Cut(p(r)).rest)
           a == On(first, F(first))
           b == On(last, F(last))
           l == Cut(p(s)).lines
<1>1. frames \in Seq(Frame) /\ events \in Seq(Line) /\ OfStream(events, s) = On(s, l)
  BY DEF HasLines
<1>2. \A r \in Streams : Unfinished(frames)[r] = Cut(p(r)).rest
  BY <1>1, UnfinishedIs
<1>3. \A r \in Streams : F(r) \in Seq(Text)
  <2>1. ASSUME NEW x \in Text PROVE Flush(x) \in Seq(Text)
    BY EmptySeq DEF Flush
  <2>2. \A r \in Streams : p(r) \in Text
    BY <1>1, PayloadSteps
  <2> HIDE DEF p
  <2>3. \A r \in Streams : Cut(p(r)).rest \in Text
    BY <2>2, CutSteps
  <2> QED
    BY <2>1, <2>3
<1>4. l \in Seq(Text) /\ Lines(p(s)) = l \o F(s)
  <2>1. p(s) \in Text
    BY <1>1, PayloadSteps
  <2> HIDE DEF p
  <2> QED
    BY <2>1, CutSteps DEF Lines
<1> HIDE DEF F, l
<1>5. a \in Seq(Line) /\ b \in Seq(Line)
      /\ OfStream(a, s) = (IF first = s THEN On(s, F(first)) ELSE <<>>)
      /\ OfStream(b, s) = (IF last = s THEN On(s, F(last)) ELSE <<>>)
  BY <1>3, OnSteps, OfStreamOn
<1> HIDE DEF a, b
<1>6. /\ OfStream((events \o a) \o b, s) = OfStream(events \o a, s) \o OfStream(b, s)
      /\ OfStream(events \o a, s) = OfStream(events, s) \o OfStream(a, s)
  <2>1. events \o a \in Seq(Line)
    BY <1>1, <1>5, ConcatProperties
  <2>2. \A e, f \in Seq(Line) : OfStream(e \o f, s) = OfStream(e, s) \o OfStream(f, s)
    BY OfStreamSteps
  <2> QED
    BY <1>1, <1>5, <2>1, <2>2
<1>7. On(s, l) \o On(s, F(s)) = On(s, l \o F(s)) /\ On(s, l) \in Seq(Line) /\ On(s, F(s)) \in Seq(Line)
  BY <1>3, <1>4, OnSteps
<1>8. (s = first /\ s # last) \/ (s = last /\ s # first)
  BY DEF Streams
<1>9. OfStream((events \o a) \o b, s) = On(s, l \o F(s))
  <2>1. \A e \in Seq(Line) : e \o <<>> = e
    BY ConcatEmptySeq
  <2>2. CASE s = first /\ s # last
    <3>1. On(s, l) \o On(s, F(s)) \in Seq(Line)
      BY <1>7, ConcatProperties
    <3> QED
      BY <1>1, <1>5, <1>6, <1>7, <2>1, <2>2, <3>1
  <2>3. CASE s = last /\ s # first
    BY <1>1, <1>5, <1>6, <1>7, <2>1, <2>3
  <2> QED
    BY <1>8, <2>2, <2>3
<1>10. On(first, Flush(Unfinished(frames)[first])) = a /\ On(last, Flush(Unfinished(frames)[last])) = b
  BY <1>2 DEF a, b, F
<1> QED
  BY <1>4, <1>9, <1>10 DEF p

\* The beginning of a sequence, and of two one after the other.
LEMMA PrefixIs ==
    ASSUME NEW Z, NEW s \in Seq(Z), NEW n \in Nat, n <= Len(s)
    PROVE  SubSeq(s, 1, n) \in Seq(Z) /\ Len(SubSeq(s, 1, n)) = n /\ \A i \in 1..n : SubSeq(s, 1, n)[i] = s[i]
<1>1. Len(s) \in Nat /\ \A i \in 1..Len(s) : s[i] \in Z
  BY LenProperties, ElementOfSeq
<1>2. \A i \in 1..n : s[i] \in Z
  BY <1>1
<1>3. 1 \in Int /\ n \in Int
  OBVIOUS
<1>4. /\ SubSeq(s, 1, n) \in Seq(Z)
      /\ Len(SubSeq(s, 1, n)) = IF 1 <= n THEN n - 1 + 1 ELSE 0
      /\ \A i \in 1..(n - 1 + 1) : SubSeq(s, 1, n)[i] = s[1 + i - 1]
  BY ONLY <1>2, <1>3, SubSeqProperties
<1> QED
  BY <1>4

LEMMA PrefixOfBoth ==
    ASSUME NEW Z, NEW s \in Seq(Z), NEW t \in Seq(Z), NEW n \in Nat, n <= Len(s) + Len(t)
    PROVE  SubSeq(s \o t, 1, n) = IF n <= Len(s) THEN SubSeq(s, 1, n) ELSE s \o SubSeq(t, 1, n - Len(s))
<1> DEFINE st == s \o t
           x == SubSeq(st, 1, n)
<1>1. Len(s) \in Nat /\ Len(t) \in Nat
  BY LenProperties
<1>2. st \in Seq(Z) /\ Len(st) = Len(s) + Len(t)
      /\ \A i \in 1..(Len(s) + Len(t)) : st[i] = IF i <= Len(s) THEN s[i] ELSE t[i - Len(s)]
  BY ConcatProperties
<1> HIDE DEF st
<1>3. x \in Seq(Z) /\ Len(x) = n /\ \A i \in 1..n : x[i] = st[i]
  BY <1>2, PrefixIs
<1> HIDE DEF x
<1>4. CASE n <= Len(s)
  <2> DEFINE y == SubSeq(s, 1, n)
  <2>1. y \in Seq(Z) /\ Len(y) = n /\ \A i \in 1..n : y[i] = s[i]
    BY <1>4, PrefixIs
  <2> HIDE DEF y
  <2>2. ASSUME NEW i \in 1..Len(x) PROVE x[i] = y[i]
    <3>1. i \in 1..n /\ i \in 1..(Len(s) + Len(t)) /\ i <= Len(s)
      BY <1>1, <1>3, <1>4
    <3> QED
      BY <1>2, <1>3, <2>1, <3>1
  <2>3. x = y
    BY <1>3, <2>1, <2>2, SeqEqual
  <2> QED
    BY <1>4, <2>3 DEF x, y, st
<1>5. CASE ~(n <= Len(s))
  <2> DEFINE m == n - Len(s)
             z == SubSeq(t, 1, m)
             y == s \o z
  <2>1. m \in Nat /\ m <= Len(t) /\ n = Len(s) + m
    BY <1>1, <1>5
  <2> HIDE DEF m
  <2>2. z \in Seq(Z) /\ Len(z) = m /\ \A i \in 1..m : z[i] = t[i]
    BY <2>1, PrefixIs
  <2> HIDE DEF z
  <2>3. y \in Seq(Z) /\ Len(y) = Len(s) + Len(z)
        /\ \A i \in 1..(Len(s) + Len(z)) : y[i] = IF i <= Len(s) THEN s[i] ELSE z[i - Len(s)]
    BY <2>2, ConcatProperties
  <2> HIDE DEF y
  <2>4. ASSUME NEW i \in 1..Len(x) PROVE x[i] = y[i]
    <3>1. i \in 1..n /\ i \in 1..(Len(s) + Len(t)) /\ i \in 1..(Len(s) + Len(z))
      BY <1>1, <1>3, <2>1, <2>2
    <3>2. ~(i <= Len(s)) => i - Len(s) \in 1..m
      BY <1>1, <2>1, <3>1
    <3> QED
      BY <1>2, <1>3, <2>2, <2>3, <3>1, <3>2
  <2>5. x = y
    BY <1>3, <2>1, <2>2, <2>3, <2>4, SeqEqual
  <2> QED
    BY <1>5, <2>5 DEF x, y, z, m, st
<1> QED
  BY <1>4, <1>5 DEF x, st

\* The notice, and what a write forwards, are texts.
LEMMA NoticeTyped == Notice \in Text /\ \A out \in Text : Capped(out) \in Text
<1>0. {"nl", "cr", "notice"} \subseteq Symbols /\ Cap \in Nat
  BY LogTextAssumption DEF LogTextAssumption
<1>1. Notice \in Text
  BY <1>0 DEF Notice, Text
<1>2. ASSUME NEW out \in Text PROVE Capped(out) \in Text
  <2>0. out \in Seq(Symbols) /\ Len(out) \in Nat
    BY LenProperties DEF Text
  <2>1. CASE Len(out) < Cap
    BY <2>1 DEF Capped
  <2>2. CASE ~(Len(out) < Cap)
    <3> DEFINE a == SubSeq(out, 1, Cap)
               n == IF Cap > 0 THEN Notice ELSE <<>>
    <3>1. a \in Seq(Symbols)
      BY <1>0, <2>0, <2>2, PrefixIs
    <3>2. n \in Seq(Symbols)
      BY <1>1 DEF Text
    <3>3. Capped(out) = a \o n
      BY <2>2 DEF Capped
    <3> HIDE DEF a, n
    <3> QED
      BY <3>1, <3>2, <3>3, ConcatProperties DEF Text
  <2> QED
    BY <2>1, <2>2
<1> QED
  BY <1>1, <1>2

\* What of an output has reached the file.
Reached(out) == IF Len(out) < Cap THEN Len(out) ELSE Cap

\* limitedLogWriter.Write: the log grows at its end, and stays what was
\* printed before the build, and what it has printed, up to the cap.
LEMMA LimitedKeeps ==
    ASSUME NEW w \in Text, NEW out \in Text, NEW p \in Text
    PROVE  /\ Limited(w \o Capped(out), Reached(out), p) = w \o Capped(out \o p)
           /\ \E more \in Text : w \o Capped(out \o p) = (w \o Capped(out)) \o more
<1> DEFINE text == w \o Capped(out)
           n == IF Len(out) < Cap THEN Len(out) ELSE Cap
           F == Forwarded(n, p)
           N == IF n < Cap /\ n + Len(F) >= Cap THEN Notice ELSE <<>>
           op == out \o p
<1>0. Cap \in Nat /\ Notice \in Seq(Symbols) /\ Capped(out) \in Seq(Symbols) /\ w \in Seq(Symbols)
      /\ out \in Seq(Symbols) /\ p \in Seq(Symbols) /\ Len(out) \in Nat /\ Len(p) \in Nat
  BY NoticeTyped, LogTextAssumption, LenProperties DEF Text, LogTextAssumption
<1>1. ASSUME NEW a \in Seq(Symbols), NEW b \in Seq(Symbols), NEW c \in Seq(Symbols)
      PROVE  (a \o b) \o c = a \o (b \o c) /\ a \o b \in Seq(Symbols)
  <2>1. (a \o b) \o c = a \o (b \o c)
    BY ONLY a \in Seq(Symbols), b \in Seq(Symbols), c \in Seq(Symbols), ConcatAssociative
  <2> QED
    BY <2>1, ConcatProperties
<1>2. \A a \in Seq(Symbols) : a \o <<>> = a
  BY ConcatEmptySeq
<1>3. Limited(text, n, p) = (text \o F) \o N
  BY DEF Limited
<1>4. op \in Seq(Symbols) /\ Len(op) = Len(out) + Len(p)
  BY <1>0, ConcatProperties
<1> DEFINE e == <<>>
<1>5. e \in Seq(Symbols) /\ \A a \in Seq(Symbols) : a \o e = a
  BY <1>2
<1>6. n \in Nat
  BY <1>0
<1>7. F \in Seq(Symbols) /\ N \in Seq(Symbols) /\ Capped(out) \o (F \o N) = Capped(op)
  <2>1. CASE Len(out) >= Cap
    <3>1. F = e /\ N = e
      <4>1. n = Cap /\ n >= Cap /\ ~(n < Cap)
        BY <1>0, <2>1
      <4> HIDE DEF n
      <4> QED
        BY <4>1 DEF Forwarded
    <3>2. Capped(op) = SubSeq(op, 1, Cap) \o (IF Cap > 0 THEN Notice ELSE <<>>)
          /\ Capped(out) = SubSeq(out, 1, Cap) \o (IF Cap > 0 THEN Notice ELSE <<>>)
      <4>1. ~(Len(op) < Cap) /\ ~(Len(out) < Cap)
        BY <1>0, <1>4, <2>1
      <4> HIDE DEF op
      <4> QED
        BY <4>1 DEF Capped
    <3>3. SubSeq(op, 1, Cap) = SubSeq(out, 1, Cap)
      BY <1>0, <2>1, PrefixOfBoth
    <3> HIDE DEF e, F, N, op
    <3>4. Capped(out) \o (F \o N) = Capped(out)
      BY <1>0, <1>5, <3>1
    <3> QED
      BY <1>5, <3>1, <3>2, <3>3, <3>4
  <2>2. CASE Len(out) < Cap /\ Len(p) < Cap - Len(out)
    <3>1. n = Len(out) /\ F = p
      <4>1. n = Len(out) /\ F = SubSeq(p, 1, Len(p))
        BY <1>0, <2>2 DEF Forwarded
      <4> QED
        BY <1>0, <4>1, SubSeqFull
    <3>2. N = e
      BY <1>0, <2>2, <3>1
    <3>3. Capped(op) = op /\ Capped(out) = out
      <4>1. Len(op) < Cap
        BY <1>0, <1>4, <2>2
      <4> HIDE DEF op
      <4> QED
        BY <2>2, <4>1 DEF Capped
    <3> HIDE DEF F, N, e
    <3>4. F \o N = p
      BY <1>0, <1>5, <3>1, <3>2
    <3> QED
      BY <1>0, <1>5, <3>1, <3>2, <3>3, <3>4
  <2>3. CASE Len(out) < Cap /\ ~(Len(p) < Cap - Len(out))
    <3> DEFINE k == Cap - Len(out)
    <3>1. k \in Nat /\ k > 0 /\ k <= Len(p) /\ Cap > 0 /\ n = Len(out) /\ ~(n >= Cap)
      BY <1>0, <2>3
    <3>2. F = SubSeq(p, 1, k)
      BY <1>0, <2>3, <3>1 DEF Forwarded
    <3> HIDE DEF k, F
    <3>3. F \in Seq(Symbols) /\ Len(F) = k
      BY <1>0, <3>1, <3>2, PrefixIs
    <3>4. N = Notice
      <4>1. n < Cap /\ n + Len(F) >= Cap
        BY <1>0, <3>1, <3>3 DEF k
      <4> QED
        BY <4>1
    <3>5. Capped(op) = SubSeq(op, 1, Cap) \o Notice /\ Capped(out) = out
      <4>1. ~(Len(op) < Cap)
        BY <1>0, <1>4, <2>3
      <4> QED
        BY <2>3, <3>1, <4>1 DEF Capped
    <3>6. SubSeq(op, 1, Cap) = out \o F
      <4>1. Cap \in Nat /\ Cap <= Len(out) + Len(p) /\ ~(Cap <= Len(out))
        BY <1>0, <2>3
      <4>2. SubSeq(op, 1, Cap) = IF Cap <= Len(out) THEN SubSeq(out, 1, Cap) ELSE out \o SubSeq(p, 1, Cap - Len(out))
        BY <1>0, <4>1, PrefixOfBoth
      <4> QED
        BY <3>2, <4>1, <4>2 DEF k
    <3> HIDE DEF N, op
    <3> QED
      <4>1. (out \o F) \o Notice = out \o (F \o Notice)
        <5>1. out \in Seq(Symbols) /\ F \in Seq(Symbols) /\ Notice \in Seq(Symbols)
          BY <1>0, <3>3
        <5> QED
          BY ONLY <5>1, ConcatAssociative
      <4> QED
        BY <1>0, <3>3, <3>4, <3>5, <3>6, <4>1
  <2>4. Len(out) >= Cap \/ Len(out) < Cap
    BY <1>0
  <2> QED
    BY <2>1, <2>2, <2>3, <2>4
<1> HIDE DEF F, N, op
<1>8. Limited(text, n, p) = text \o (F \o N) /\ F \o N \in Seq(Symbols)
  <2>1. text \in Seq(Symbols)
    BY <1>0, <1>1
  <2> HIDE DEF text
  <2>2. (text \o F) \o N = text \o (F \o N) /\ F \o N \in Seq(Symbols)
    BY <1>1, <1>7, <2>1
  <2> QED
    BY <1>3, <2>2
<1>9. text \o (F \o N) = w \o Capped(op)
  <2>1. text \o (F \o N) = w \o (Capped(out) \o (F \o N))
    <3> DEFINE f == F \o N
    <3>1. f \in Seq(Symbols)
      BY <1>8
    <3> HIDE DEF f
    <3>2. (w \o Capped(out)) \o f = w \o (Capped(out) \o f)
      <4> DEFINE k == Capped(out)
      <4>1. w \in Seq(Symbols) /\ k \in Seq(Symbols)
        BY <1>0
      <4> HIDE DEF k
      <4>2. (w \o k) \o f = w \o (k \o f)
        BY ONLY <3>1, <4>1, ConcatAssociative
      <4> QED
        BY <4>2 DEF k
    <3> QED
      BY <3>2 DEF f
  <2> QED
    BY <1>7, <2>1
<1>10. Limited(text, n, p) = w \o Capped(op) /\ \E more \in Text : Limited(text, n, p) = text \o more
  BY <1>8, <1>9 DEF Text
<1> QED
  BY <1>10 DEF op, Reached

----------------------------------------------------------------------------
(* Builds and their logs.                                                  *)

\* The file of a deployment before its build, and what it holds from then on.
Untouched(d) == log[d].text = <<>> /\ ~log[d].there
Filled(d) == \E o \in Outputs : log[d].text = o.warnings \o Capped(build[d].out)

UnderWay(d) == build[d].pc \in {"queued", "building", "rolling", "failing"}

\* A deployment's row, goroutine and file go together: while the goroutine runs
\* the row says "deploying", unless it is gone.
FileInv(d) ==
    /\ Untouched(d) \/ Filled(d)
    /\ build[d].pc \in {"none", "queued"} => Untouched(d)
    /\ build[d].pc = "building" => Filled(d) /\ (row[d] = "gone" \/ log[d].there)
    /\ UnderWay(d) => row[d] \in {"deploying", "gone"}
    /\ row[d] = "none" => build[d].pc = "none"
    /\ row[d] # "gone" => log[d].there \/ log[d].text = <<>>
    /\ ~Up => ~UnderWay(d)

DeployTyped(d) ==
    /\ row[d] \in {"none", "deploying", "healthy", "failed", "gone"}
    /\ log[d] \in [text : Text, there : BOOLEAN]
    /\ build[d] \in [pc : {"none", "queued", "building", "rolling", "failing", "over", "stranded"}, left : Seq(Text), out : Text]

\* A request that has created a row is about to start its goroutine, which no
\* other will.
CreatedInv(c) ==
    cli[c].pc = "created" =>
        LET d == cli[c].number
        IN  /\ Up
            /\ d \in Deploys /\ row[d] \in {"deploying", "gone"} /\ build[d].pc = "none"
            /\ \A other \in Clients : cli[other].pc = "created" /\ cli[other].number = d => other = c

EngineInv ==
    /\ row = [d \in Deploys |-> row[d]] /\ log = [d \in Deploys |-> log[d]] /\ build = [d \in Deploys |-> build[d]]
    /\ path \subseteq Deploys
    /\ cli = [c \in Clients |-> cli[c]]
    /\ \A c \in Clients : cli[c] = [pc |-> cli[c].pc, number |-> cli[c].number, result |-> cli[c].result]
    /\ \A d \in Deploys : DeployTyped(d) /\ FileInv(d)
    /\ \A c \in Clients : CreatedInv(c)

\* What a step may do to a deployment, as a reader of its log sees it: the file
\* grows at its end, and no more once the row has said that it is over.
Moves(d) ==
    /\ \E more \in Text : log'[d].text = log[d].text \o more
    /\ row[d] # "none" => row'[d] # "none"
    /\ row[d] = "gone" => row'[d] = "gone"
    /\ row[d] \notin {"none", "deploying"} =>
         row'[d] # "deploying" /\ (row'[d] # "gone" => log'[d].text = log[d].text)

\* The invariant holds at the start.
LEMMA EngineStart == ASSUME Init PROVE EngineInv
<1>1. PICK o \in Outputs :
        /\ build = [d \in Deploys |-> IF d \in Earlier THEN [pc |-> "over", left |-> <<>>, out |-> Joined(o.writes)]
                                       ELSE [pc |-> "none", left |-> <<>>, out |-> <<>>]]
        /\ log = [d \in Deploys |-> IF d \in Earlier
                      THEN [text |-> o.warnings \o Capped(Joined(o.writes)), there |-> TRUE]
                      ELSE [text |-> <<>>, there |-> FALSE]]
  BY DEF Init, FollowInit
<1>2. /\ row = [d \in Deploys |-> IF d \in Earlier THEN "healthy" ELSE "none"]
      /\ path = Earlier /\ Earlier \subseteq Deploys /\ up = "up"
      /\ cli = [c \in Clients |-> [pc |-> IF setting.role[c] \in {"edit", "login", "release", "none"} THEN "done" ELSE "start", number |-> 0, result |-> "none"]]
  BY DEF Init, FollowInit, Earlier
<1> DEFINE out == Joined(o.writes)
           text == o.warnings \o Capped(out)
           e == <<>>
<1>3. o.warnings \in Seq(Symbols) /\ o.writes \in Seq(Text)
  BY FollowAssumption DEF FollowAssumption, Text
<1>4. out \in Text /\ Capped(out) \in Seq(Symbols) /\ e \in Text /\ e \in Seq(Text)
  <2>1. out \in Text
    BY <1>3, JoinedSteps
  <2> HIDE DEF out
  <2> QED
    BY <2>1, NoticeTyped, EmptySeq DEF Text
<1>5. text \in Text
  <2> HIDE DEF out
  <2> QED
    BY <1>3, <1>4, ConcatProperties DEF Text
<1> HIDE DEF out, text
<1>6. /\ build = [d \in Deploys |-> IF d \in Earlier THEN [pc |-> "over", left |-> e, out |-> out]
                                     ELSE [pc |-> "none", left |-> e, out |-> e]]
      /\ log = [d \in Deploys |-> IF d \in Earlier THEN [text |-> text, there |-> TRUE] ELSE [text |-> e, there |-> FALSE]]
  BY <1>1 DEF out, text
<1> HIDE DEF e
<1>7. ASSUME NEW d \in Deploys PROVE DeployTyped(d) /\ FileInv(d)
  <2>1. CASE d \in Earlier
    <3>1. row[d] = "healthy" /\ build[d] = [pc |-> "over", left |-> e, out |-> out] /\ log[d] = [text |-> text, there |-> TRUE]
      BY <1>2, <1>6, <2>1
    <3>2. DeployTyped(d)
      BY <1>4, <1>5, <3>1 DEF DeployTyped
    <3>3. log[d].text = o.warnings \o Capped(build[d].out)
      BY <3>1 DEF text
    <3> QED
      BY <3>1, <3>2, <3>3 DEF FileInv, Filled, UnderWay
  <2>2. CASE d \notin Earlier
    <3>1. row[d] = "none" /\ build[d] = [pc |-> "none", left |-> e, out |-> e] /\ log[d] = [text |-> e, there |-> FALSE]
      BY <1>2, <1>6, <2>2
    <3>2. DeployTyped(d)
      BY <1>4, <3>1 DEF DeployTyped
    <3>3. Untouched(d)
      BY <3>1 DEF Untouched, e
    <3> QED
      BY <3>1, <3>2, <3>3 DEF FileInv, UnderWay, Untouched
  <2> QED
    BY <2>1, <2>2
<1>8. \A c \in Clients : /\ cli[c].pc # "created"
                         /\ cli[c] = [pc |-> cli[c].pc, number |-> cli[c].number, result |-> cli[c].result]
  BY <1>2
<1>9. row = [d \in Deploys |-> row[d]] /\ log = [d \in Deploys |-> log[d]] /\ build = [d \in Deploys |-> build[d]]
      /\ cli = [c \in Clients |-> cli[c]]
  BY <1>2, <1>6
<1> QED
  BY <1>2, <1>7, <1>8, <1>9 DEF EngineInv, CreatedInv

\* The steps of one deployment's goroutine.
LEMMA GoroutineKeeps ==
    ASSUME EngineInv, NEW d \in Deploys, Goroutine(d)
    PROVE  /\ DeployTyped(d)' /\ FileInv(d)' /\ Moves(d)
           /\ build[d].pc # "none"
           /\ row' = [row EXCEPT ![d] = row'[d]] /\ log' = [log EXCEPT ![d] = log'[d]] /\ build' = [build EXCEPT ![d] = build'[d]]
           /\ path' = path
<1>0. /\ row = [e \in Deploys |-> row[e]] /\ log = [e \in Deploys |-> log[e]] /\ build = [e \in Deploys |-> build[e]]
      /\ DeployTyped(d) /\ FileInv(d) /\ Up /\ up' = up
  BY DEF EngineInv, Goroutine
<1>1. /\ build[d] = [pc |-> build[d].pc, left |-> build[d].left, out |-> build[d].out]
      /\ log[d] = [text |-> log[d].text, there |-> log[d].there]
      /\ log[d].text \in Text /\ log[d].there \in BOOLEAN /\ build[d].left \in Seq(Text) /\ build[d].out \in Text
      /\ row[d] \in {"none", "deploying", "healthy", "failed", "gone"}
  BY <1>0 DEF DeployTyped
<1> DEFINE e == <<>>
<1>2. e \in Text /\ e \in Seq(Text) /\ \A t \in Text : t \o e = t /\ e \o t = t
  BY EmptySeq, ConcatEmptySeq DEF Text
<1>3. ASSUME log' = log PROVE \E more \in Text : log'[d].text = log[d].text \o more
  BY <1>1, <1>2, <1>3
<1>4. ASSUME NEW pc \in {"failing", "rolling", "over", "stranded"}, Goes(d, pc)
      PROVE  /\ build' = [build EXCEPT ![d] = build'[d]]
             /\ build'[d] = [pc |-> pc, left |-> build[d].left, out |-> build[d].out]
  BY <1>0, <1>1, <1>4 DEF Goes
<1>5. CASE OpenLog(d)
  <2>0. build[d].pc = "queued" /\ Untouched(d) /\ row[d] \in {"deploying", "gone"} /\ row' = row /\ path' = path
    BY <1>0, <1>5 DEF OpenLog, FileInv, UnderWay
  <2>1. CASE Goes(d, "failing") /\ log' = log
    <3>1. build'[d] = [pc |-> "failing", left |-> build[d].left, out |-> build[d].out] /\ build' = [build EXCEPT ![d] = build'[d]]
      BY <1>4, <2>1
    <3>2. DeployTyped(d)'
      BY <1>0, <1>1, <2>0, <2>1, <3>1 DEF DeployTyped
    <3>3. FileInv(d)'
      BY <1>0, <2>0, <2>1, <3>1 DEF FileInv, Untouched, UnderWay, Up
    <3> QED
      BY <1>0, <1>3, <2>0, <2>1, <3>1, <3>2, <3>3 DEF Moves
  <2>2. ASSUME NEW o \in Outputs,
               build' = [build EXCEPT ![d] = [pc |-> "building", left |-> o.writes, out |-> <<>>]],
               log' = [log EXCEPT ![d] = [text |-> o.warnings, there |-> TRUE]]
        PROVE  /\ DeployTyped(d)' /\ FileInv(d)' /\ Moves(d)
               /\ log' = [log EXCEPT ![d] = log'[d]] /\ build' = [build EXCEPT ![d] = build'[d]]
    <3>1. o.warnings \in Text /\ o.writes \in Seq(Text)
      BY FollowAssumption DEF FollowAssumption
    <3>2. build'[d] = [pc |-> "building", left |-> o.writes, out |-> e] /\ log'[d] = [text |-> o.warnings, there |-> TRUE]
      BY <1>0, <2>2
    <3>3. Capped(e) = e
      <4>1. Cap \in Nat /\ Len(e) = 0 /\ SubSeq(e, 1, 0) = e /\ e \o e = e
        BY <1>2, LogTextAssumption, SubSeqEmpty DEF LogTextAssumption
      <4> QED
        BY <4>1 DEF Capped
    <3> HIDE DEF e
    <3>4. DeployTyped(d)'
      BY <1>1, <1>2, <2>0, <3>1, <3>2 DEF DeployTyped
    <3>5. Filled(d)'
      <4>1. log'[d].text = o.warnings \o Capped(build'[d].out)
        BY <1>2, <3>1, <3>2, <3>3
      <4> QED
        BY <4>1 DEF Filled
    <3>6. FileInv(d)'
      BY <1>0, <2>0, <3>2, <3>5 DEF FileInv, UnderWay, Up
    <3>7. log'[d].text = log[d].text \o o.warnings
      BY <1>2, <2>0, <3>1, <3>2 DEF Untouched, e
    <3>8. Moves(d)
      BY <2>0, <3>1, <3>7 DEF Moves
    <3> QED
      BY <1>0, <2>2, <3>4, <3>6, <3>8
  <2> QED
    BY <1>0, <1>5, <2>0, <2>1, <2>2 DEF OpenLog
<1>6. CASE Write(d)
  <2> DEFINE p == Head(build[d].left)
             out == build[d].out
             n == IF Len(out) < Cap THEN Len(out) ELSE Cap
             text == Limited(log[d].text, n, p)
             rest == Tail(build[d].left)
  <2>0. build[d].pc = "building" /\ Filled(d) /\ row[d] \in {"deploying", "gone"} /\ row' = row /\ path' = path
    BY <1>0, <1>6 DEF Write, FileInv, UnderWay
  <2>1. p \in Text /\ rest \in Seq(Text)
    <3>1. build[d].left # <<>>
      BY <1>6 DEF Write
    <3> QED
      BY <1>1, <3>1, HeadTailProperties
  <2>2. /\ log' = [log EXCEPT ![d] = log'[d]] /\ log'[d] = [text |-> text, there |-> log[d].there]
        /\ build' = [build EXCEPT ![d] = build'[d]] /\ build'[d] = [pc |-> "building", left |-> rest, out |-> out \o p]
    <3>1. /\ log' = [log EXCEPT ![d].text = Limited(@, n, p)]
          /\ build' = [build EXCEPT ![d].left = Tail(@), ![d].out = @ \o p]
      BY <1>6 DEF Write
    <3> HIDE DEF n, p
    <3> QED
      BY <1>0, <1>1, <2>0, <3>1
  <2>3. PICK o \in Outputs : log[d].text = o.warnings \o Capped(out)
    BY <2>0 DEF Filled
  <2>4. o.warnings \in Text /\ out \in Text
    BY <1>1, FollowAssumption DEF FollowAssumption
  <2> HIDE DEF p, rest, out
  <2>5. text = o.warnings \o Capped(out \o p) /\ \E more \in Text : text = log[d].text \o more
    <3> DEFINE w == o.warnings
               before == log[d].text
    <3>1. w \in Text /\ out \in Text /\ p \in Text
      BY <2>1, <2>4
    <3>2. before = w \o Capped(out) /\ n = Reached(out)
      BY <2>3 DEF Reached
    <3> HIDE DEF n, w, before
    <3>3. Limited(w \o Capped(out), Reached(out), p) = w \o Capped(out \o p)
          /\ \E more \in Text : w \o Capped(out \o p) = (w \o Capped(out)) \o more
      BY ONLY <3>1, LimitedKeeps
    <3>4. Limited(before, n, p) = w \o Capped(out \o p) /\ \E more \in Text : Limited(before, n, p) = before \o more
      BY ONLY <3>2, <3>3
    <3> QED
      BY <3>4 DEF w, before
  <2> HIDE DEF text
  <2>6. text \in Text /\ out \o p \in Text
    BY <1>1, <2>1, <2>4, <2>5, ConcatProperties DEF Text
  <2>7. DeployTyped(d)'
    BY <1>1, <2>0, <2>1, <2>2, <2>6 DEF DeployTyped
  <2>8. Filled(d)'
    <3>1. log'[d].text = o.warnings \o Capped(build'[d].out)
      BY <2>2, <2>5
    <3> QED
      BY <3>1 DEF Filled
  <2>9. FileInv(d)'
    <3>1. row[d] # "gone" => log[d].there
      BY <1>0, <2>0 DEF FileInv
    <3> QED
      BY <1>0, <2>0, <2>2, <2>8, <3>1 DEF FileInv, UnderWay, Up
  <2>10. Moves(d)
    <3>1. log'[d].text = text
      BY <2>2
    <3> QED
      BY <2>0, <2>5, <3>1 DEF Moves
  <2> QED
    BY <1>0, <2>0, <2>2, <2>7, <2>9, <2>10
<1>7. CASE Built(d)
  <2>0. build[d].pc = "building" /\ row' = row /\ path' = path /\ log' = log /\ row[d] \in {"deploying", "gone"} /\ Filled(d)
    BY <1>0, <1>7 DEF Built, FileInv, UnderWay
  <2>1. PICK pc \in {"failing", "rolling"} : Goes(d, pc)
    BY <1>7 DEF Built
  <2>2. build' = [build EXCEPT ![d] = build'[d]] /\ build'[d] = [pc |-> pc, left |-> build[d].left, out |-> build[d].out]
    BY <1>4, <2>1
  <2>3. DeployTyped(d)'
    BY <1>1, <2>0, <2>1, <2>2 DEF DeployTyped
  <2>4. FileInv(d)'
    <3>1. (Untouched(d) => Untouched(d)') /\ (Filled(d) => Filled(d)')
      <4>1. log'[d] = log[d] /\ build'[d].out = build[d].out
        BY <2>0, <2>2
      <4>2. ASSUME Filled(d) PROVE Filled(d)'
        <5>1. PICK o \in Outputs : log[d].text = o.warnings \o Capped(build[d].out)
          BY <4>2 DEF Filled
        <5> QED
          BY <4>1, <5>1 DEF Filled
      <4> QED
        BY <4>1, <4>2 DEF Untouched
    <3> QED
      BY <1>0, <2>0, <2>1, <2>2, <3>1 DEF FileInv, UnderWay, Up
  <2> QED
    BY <1>0, <1>3, <2>0, <2>2, <2>3, <2>4 DEF Moves
<1>8. CASE Finish(d)
  <2>0. build[d].pc \in {"rolling", "failing"} /\ path' = path /\ log' = log /\ row[d] \in {"deploying", "gone"}
    BY <1>0, <1>8 DEF Finish, FileInv, UnderWay
  <2>5. PICK pc \in {"over", "stranded"} : Goes(d, pc)
    BY <1>8 DEF Finish
  <2>6. (\E status \in {"healthy", "failed"} : Decided(d, status)) \/ row' = row
    BY <1>8 DEF Finish
  <2>1. row' = [row EXCEPT ![d] = row'[d]]
        /\ row'[d] \in {"deploying", "healthy", "failed", "gone"} /\ (row[d] = "gone" => row'[d] = "gone")
        /\ (row'[d] = "gone" => row[d] = "gone")
    BY <1>0, <1>1, <2>0, <2>6 DEF Decided
  <2>2. build' = [build EXCEPT ![d] = build'[d]] /\ build'[d] = [pc |-> pc, left |-> build[d].left, out |-> build[d].out]
    BY <1>4, <2>5
  <2>3. DeployTyped(d)'
    BY <1>1, <2>0, <2>1, <2>2 DEF DeployTyped
  <2>4. FileInv(d)'
    <3>1. (Untouched(d) => Untouched(d)') /\ (Filled(d) => Filled(d)')
      <4>1. log'[d] = log[d] /\ build'[d].out = build[d].out
        BY <2>0, <2>2
      <4>2. ASSUME Filled(d) PROVE Filled(d)'
        <5>1. PICK o \in Outputs : log[d].text = o.warnings \o Capped(build[d].out)
          BY <4>2 DEF Filled
        <5> QED
          BY <4>1, <5>1 DEF Filled
      <4> QED
        BY <4>1, <4>2 DEF Untouched
    <3> QED
      BY <1>0, <2>0, <2>1, <2>2, <3>1 DEF FileInv, UnderWay, Up
  <2> QED
    BY <1>0, <1>3, <2>0, <2>1, <2>2, <2>3, <2>4 DEF Moves
<1> QED
  BY <1>5, <1>6, <1>7, <1>8 DEF Goroutine

\* A deployment that a step leaves alone.
Left(d) == row'[d] = row[d] /\ log'[d] = log[d] /\ build'[d] = build[d] /\ up' = up

LEMMA LeftKeeps == ASSUME EngineInv, NEW d \in Deploys, Left(d) PROVE DeployTyped(d)' /\ FileInv(d)' /\ Moves(d)
<1>0. DeployTyped(d) /\ FileInv(d)
  BY DEF EngineInv
<1>1. DeployTyped(d)'
  BY <1>0 DEF DeployTyped, Left
<1>2. Filled(d)' <=> Filled(d)
  BY DEF Filled, Left
<1>3. FileInv(d)'
  BY <1>0, <1>2 DEF FileInv, Untouched, UnderWay, Up, Left
<1>4. log[d].text \in Text
  BY <1>0 DEF DeployTyped
<1>5. <<>> \in Text /\ log[d].text \o <<>> = log[d].text
  BY <1>4, EmptySeq, ConcatEmptySeq DEF Text
<1>6. Moves(d)
  BY <1>5 DEF Moves, Left
<1> QED
  BY <1>1, <1>3, <1>6

\* A client that has created a row, or has not, may go on as one that has not.
CliTyped ==
    /\ cli = [c \in Clients |-> cli[c]]
    /\ \A c \in Clients : cli[c] = [pc |-> cli[c].pc, number |-> cli[c].number, result |-> cli[c].result]

LEMMA ClientGoesOn ==
    ASSUME EngineInv, NEW c \in Clients, CliTyped', \A o \in Clients : o # c => cli'[o] = cli[o],
           cli'[c] = cli[c] \/ cli'[c].pc # "created",
           UNCHANGED <<row, path, log, build, up>>
    PROVE  EngineInv' /\ \A d \in Deploys : Moves(d)
<1>1. \A d \in Deploys : DeployTyped(d)' /\ FileInv(d)' /\ Moves(d)
  BY LeftKeeps DEF Left
<1>2. ASSUME NEW o \in Clients PROVE CreatedInv(o)'
  <2>1. CreatedInv(o)
    BY DEF EngineInv
  <2>2. ASSUME cli'[o].pc = "created" PROVE cli'[o] = cli[o]
    BY <2>2
  <2>3. \A other \in Clients : cli'[other].pc = "created" => cli'[other] = cli[other]
    OBVIOUS
  <2> QED
    BY <2>1, <2>2, <2>3 DEF CreatedInv, Up
<1> QED
  BY <1>1, <1>2 DEF EngineInv, CliTyped

LEMMA UploadKeeps == ASSUME EngineInv, NEW c \in Clients, Upload(c), up' = up PROVE EngineInv' /\ \A d \in Deploys : Moves(d)
<1>0. CliTyped
  BY DEF EngineInv, CliTyped
<1>1. CASE Ends(c, "error") /\ row' = row
  <2>1. CliTyped' /\ cli'[c].pc = "done" /\ \A o \in Clients : o # c => cli'[o] = cli[o]
    <3>1. cli[c] = [pc |-> cli[c].pc, number |-> cli[c].number, result |-> cli[c].result] /\ cli = [o \in Clients |-> cli[o]]
      BY <1>0 DEF CliTyped
    <3>2. /\ cli' = [o \in Clients |-> cli'[o]] /\ \A o \in Clients : o # c => cli'[o] = cli[o]
          /\ cli'[c] = [pc |-> "done", number |-> cli[c].number, result |-> "error"]
      BY <1>1, <3>1 DEF Ends
    <3>3. cli'[c].pc = "done" /\ cli'[c] = [pc |-> cli'[c].pc, number |-> cli'[c].number, result |-> cli'[c].result]
      BY <3>2
    <3> QED
      BY <1>0, <3>2, <3>3 DEF CliTyped
  <2>2. UNCHANGED <<row, path, log, build, up>>
    BY <1>1 DEF Upload
  <2> QED
    BY <2>1, <2>2, ClientGoesOn
<1>2. ASSUME NEW d \in Deploys, Session(c), row[d] = "none", row' = [row EXCEPT ![d] = "deploying"],
             cli' = [cli EXCEPT ![c].pc = "created", ![c].number = d]
      PROVE  EngineInv' /\ \A e \in Deploys : Moves(e)
  <2>0. /\ row = [e \in Deploys |-> row[e]] /\ log' = log /\ build' = build /\ path' = path
        /\ DeployTyped(d) /\ FileInv(d) /\ Up
    BY <1>2 DEF EngineInv, Upload, Session
  <2>1. row'[d] = "deploying" /\ row' = [e \in Deploys |-> row'[e]] /\ \A e \in Deploys : e # d => row'[e] = row[e]
    BY <1>2, <2>0
  <2>2. cli'[c].pc = "created" /\ cli'[c].number = d /\ CliTyped' /\ \A o \in Clients : o # c => cli'[o] = cli[o]
    <3>1. cli[c] = [pc |-> cli[c].pc, number |-> cli[c].number, result |-> cli[c].result] /\ cli = [o \in Clients |-> cli[o]]
      BY <1>0 DEF CliTyped
    <3>2. /\ cli' = [o \in Clients |-> cli'[o]] /\ \A o \in Clients : o # c => cli'[o] = cli[o]
          /\ cli'[c] = [pc |-> "created", number |-> d, result |-> cli[c].result]
      BY <1>2, <3>1
    <3>3. cli'[c].pc = "created" /\ cli'[c].number = d
          /\ cli'[c] = [pc |-> cli'[c].pc, number |-> cli'[c].number, result |-> cli'[c].result]
      BY <3>2
    <3> QED
      BY <1>0, <3>2, <3>3 DEF CliTyped
  <2>3. build[d].pc = "none" /\ Untouched(d)
    BY <1>2, <2>0 DEF FileInv
  <2>4. DeployTyped(d)'
    BY <2>0, <2>1 DEF DeployTyped
  <2>5. FileInv(d)'
    BY <2>0, <2>1, <2>3 DEF FileInv, Untouched, UnderWay
  <2>6. Moves(d)
    <3>1. log[d].text \in Text
      BY <2>0 DEF DeployTyped
    <3>2. <<>> \in Text /\ log[d].text \o <<>> = log[d].text
      BY <3>1, EmptySeq, ConcatEmptySeq DEF Text
    <3> QED
      BY <1>2, <2>0, <2>1, <3>2 DEF Moves
  <2>7. \A e \in Deploys : DeployTyped(e)' /\ FileInv(e)' /\ Moves(e)
    <3>1. \A e \in Deploys : e # d => Left(e)
      BY <2>0, <2>1 DEF Left
    <3> QED
      BY <2>4, <2>5, <2>6, <3>1, LeftKeeps
  <2>8. \A o \in Clients : cli[o].pc = "created" => cli[o].number # d /\ cli[o].number \in Deploys
    BY <1>2 DEF EngineInv, CreatedInv
  <2>9. CreatedInv(c)'
    <3>1. \A o \in Clients : cli'[o].pc = "created" /\ cli'[o].number = d => o = c
      BY <2>2, <2>8
    <3> QED
      BY <2>0, <2>1, <2>2, <2>3, <3>1 DEF CreatedInv, Up
  <2>10. ASSUME NEW o \in Clients, o # c PROVE CreatedInv(o)'
    <3> SUFFICES ASSUME cli'[o].pc = "created" PROVE CreatedInv(o)'
      BY DEF CreatedInv
    <3>1. cli[o].pc = "created" /\ cli'[o] = cli[o] /\ CreatedInv(o)
      BY <2>2, <2>10 DEF EngineInv
    <3> DEFINE n == cli[o].number
    <3>2. n \in Deploys /\ n # d /\ row[n] \in {"deploying", "gone"} /\ build[n].pc = "none"
          /\ \A other \in Clients : cli[other].pc = "created" /\ cli[other].number = n => other = o
      BY <2>8, <3>1 DEF CreatedInv
    <3>3. \A other \in Clients : cli'[other].pc = "created" /\ cli'[other].number = n => other = o
      BY <2>2, <3>2
    <3> QED
      BY <2>0, <2>1, <3>1, <3>2, <3>3 DEF CreatedInv, Up
  <2> QED
    BY <2>0, <2>1, <2>2, <2>7, <2>9, <2>10 DEF EngineInv, CliTyped
<1> QED
  BY <1>1, <1>2 DEF Upload

LEMMA AcceptedKeeps == ASSUME EngineInv, NEW c \in Clients, Accepted(c), up' = up PROVE EngineInv' /\ \A d \in Deploys : Moves(d)
<1>0. /\ CliTyped /\ CreatedInv(c) /\ build = [e \in Deploys |-> build[e]]
  BY DEF EngineInv, CliTyped
<1>13. PICK d \in Deploys : d = cli[c].number
  BY <1>0 DEF Accepted, CreatedInv
<1>1. /\ row[d] \in {"deploying", "gone"} /\ build[d].pc = "none" /\ Up
      /\ \A o \in Clients : cli[o].pc = "created" /\ cli[o].number = d => o = c
  BY <1>0, <1>13 DEF Accepted, CreatedInv
<1>2. Recorded(d) /\ log' = log /\ cli[c].pc = "created"
      /\ \/ Started(d) /\ Says(c, "mint")
         \/ Unmarked(d) /\ Ends(c, "error")
  BY <1>13 DEF Accepted
<1>3. CliTyped' /\ cli'[c].pc # "created" /\ \A o \in Clients : o # c => cli'[o] = cli[o]
  <2>1. cli[c] = [pc |-> cli[c].pc, number |-> cli[c].number, result |-> cli[c].result]
    BY <1>0 DEF CliTyped
  <2>2. CASE Says(c, "mint")
    BY <1>0, <2>2 DEF Says, CliTyped
  <2>3. CASE Ends(c, "error")
    <3>1. /\ cli' = [o \in Clients |-> cli'[o]] /\ \A o \in Clients : o # c => cli'[o] = cli[o]
          /\ cli'[c] = [pc |-> "done", number |-> cli[c].number, result |-> "error"]
      BY <1>0, <2>1, <2>3 DEF Ends, CliTyped
    <3>2. cli'[c].pc = "done" /\ cli'[c] = [pc |-> cli'[c].pc, number |-> cli'[c].number, result |-> cli'[c].result]
      BY <3>1
    <3> QED
      BY <1>0, <3>1, <3>2 DEF CliTyped
  <2> QED
    BY <1>2, <2>2, <2>3
<1>14. row = [e \in Deploys |-> row[e]] /\ d \in Deploys
  BY <1>0, <1>2, <1>13 DEF CreatedInv, EngineInv
<1>15. PICK pc \in {"queued", "over"} : Goes(d, pc) /\ (pc = "queued" => row' = row)
  BY <1>2 DEF Started, Unmarked
<1>16. /\ row' = [row EXCEPT ![d] = row'[d]] /\ row'[d] \in {"deploying", "failed", "gone"}
       /\ row[d] = "gone" <=> row'[d] = "gone"
  BY <1>1, <1>2, <1>14 DEF Started, Unmarked, Decided
<1>4. path' \subseteq Deploys
  BY <1>1, <1>2 DEF Recorded, EngineInv
<1>5. DeployTyped(d) /\ FileInv(d)
  BY <1>1 DEF EngineInv
<1>6. /\ build' = [e \in Deploys |-> build'[e]]
      /\ build'[d] = [pc |-> pc, left |-> build[d].left, out |-> build[d].out]
      /\ \A e \in Deploys : e # d => build'[e] = build[e]
  <2>1. build[d] = [pc |-> build[d].pc, left |-> build[d].left, out |-> build[d].out]
    BY <1>5 DEF DeployTyped
  <2> QED
    BY <1>0, <1>14, <1>15, <2>1 DEF Goes
<1>7. DeployTyped(d)'
  <2>1. build[d].left \in Seq(Text) /\ build[d].out \in Text
    BY <1>5 DEF DeployTyped
  <2>2. log[d] \in [text : Text, there : BOOLEAN] /\ row[d] \in {"none", "deploying", "healthy", "failed", "gone"}
    BY <1>5 DEF DeployTyped
  <2>3. build'[d] = [pc |-> pc, left |-> build[d].left, out |-> build[d].out] /\ log'[d] = log[d] /\ row'[d] \in {"none", "deploying", "healthy", "failed", "gone"}
    BY <1>2, <1>6, <1>16
  <2> QED
    BY <2>1, <2>2, <2>3 DEF DeployTyped
<1>8. FileInv(d)'
  <2>1. build'[d].pc = pc /\ log'[d] = log[d]
    BY <1>2, <1>6
  <2>2. Untouched(d)
    BY <1>1, <1>5 DEF FileInv
  <2> QED
    BY <1>1, <1>15, <1>16, <2>1, <2>2 DEF FileInv, Untouched, UnderWay, Up
<1>9. Moves(d)
  <2>1. log[d].text \in Text
    BY <1>5 DEF DeployTyped
  <2>2. <<>> \in Text /\ log[d].text \o <<>> = log[d].text
    BY <2>1, EmptySeq, ConcatEmptySeq DEF Text
  <2> QED
    BY <1>1, <1>2, <1>16, <2>2 DEF Moves
<1>10. \A e \in Deploys : DeployTyped(e)' /\ FileInv(e)' /\ Moves(e)
  <2>1. \A e \in Deploys : e # d => Left(e)
    BY <1>2, <1>6, <1>14, <1>16, <1>14 DEF Left
  <2> QED
    <3>1. ASSUME NEW e \in Deploys, e # d PROVE DeployTyped(e)' /\ FileInv(e)' /\ Moves(e)
      BY <2>1, <3>1, LeftKeeps
    <3> QED
      BY <1>7, <1>8, <1>9, <3>1
<1>11. ASSUME NEW o \in Clients PROVE CreatedInv(o)'
  <2> SUFFICES ASSUME cli'[o].pc = "created" PROVE CreatedInv(o)'
    BY DEF CreatedInv
  <2>1. o # c /\ cli'[o] = cli[o] /\ CreatedInv(o)
    BY <1>3 DEF EngineInv
  <2> DEFINE n == cli[o].number
  <2>2. n \in Deploys /\ row[n] \in {"deploying", "gone"} /\ build[n].pc = "none"
        /\ \A other \in Clients : cli[other].pc = "created" /\ cli[other].number = n => other = o
    BY <2>1 DEF CreatedInv
  <2>3. n # d
    BY <1>1, <2>1
  <2>4. \A other \in Clients : cli'[other].pc = "created" /\ cli'[other].number = n => other = o
    BY <1>3, <2>2
  <2>5. build'[n].pc = "none"
    BY <1>6, <2>2, <2>3
  <2> HIDE DEF n
  <2>6. cli'[o].number = n
    BY <2>1 DEF n
  <2>7. row'[n] = row[n]
    BY <1>14, <1>16, <2>2, <2>3
  <2> QED
    BY <1>1, <1>2, <2>2, <2>4, <2>5, <2>6, <2>7 DEF CreatedInv, Up
<1>12. row' = [e \in Deploys |-> row'[e]] /\ log' = [e \in Deploys |-> log'[e]]
  BY <1>2, <1>14, <1>16 DEF EngineInv
<1> QED
  BY <1>3, <1>4, <1>6, <1>10, <1>11, <1>12 DEF EngineInv, CliTyped

\* The steps of the clients.
LEMMA ClientEngine == ASSUME EngineInv, NEW c \in Clients, Client(c) PROVE EngineInv' /\ \A d \in Deploys : Moves(d)
<1>0. up' = up /\ CliTyped
  BY DEF Client, EngineInv, CliTyped
<1>1. ASSUME NEW pc \in {"mint", "open", "poll", "done", "follow"}, Says(c, pc)
      PROVE  CliTyped' /\ cli'[c].pc # "created" /\ \A o \in Clients : o # c => cli'[o] = cli[o]
  BY <1>0, <1>1 DEF Says, CliTyped
<1>2. ASSUME NEW result, Ends(c, result)
      PROVE  CliTyped' /\ cli'[c].pc # "created" /\ \A o \in Clients : o # c => cli'[o] = cli[o]
  <2>1. cli[c] = [pc |-> cli[c].pc, number |-> cli[c].number, result |-> cli[c].result] /\ cli = [o \in Clients |-> cli[o]]
    BY <1>0 DEF CliTyped
  <2>2. /\ cli' = [o \in Clients |-> cli'[o]] /\ \A o \in Clients : o # c => cli'[o] = cli[o]
        /\ cli'[c] = [pc |-> "done", number |-> cli[c].number, result |-> result]
    BY <1>2, <2>1 DEF Ends
  <2>3. cli'[c].pc = "done" /\ cli'[c] = [pc |-> cli'[c].pc, number |-> cli'[c].number, result |-> cli'[c].result]
    BY <2>2
  <2> QED
    BY <1>0, <2>2, <2>3 DEF CliTyped
<1>3. ASSUME UNCHANGED <<row, path, log, build>>,
             (\E pc \in {"mint", "open", "poll", "done", "follow"} : Says(c, pc)) \/ (\E result : Ends(c, result))
      PROVE  EngineInv' /\ \A d \in Deploys : Moves(d)
  BY <1>0, <1>1, <1>2, <1>3, ClientGoesOn
<1>4. CASE MintForDeploy(c) \/ MintForWeb(c)
  BY <1>3, <1>4 DEF MintForDeploy, MintForWeb, engine
<1>5. CASE AskForDeploy(c) \/ AskForLogs(c) \/ AskForWeb(c)
  <2>1. PICK t : Asks(c, t)
    BY <1>5 DEF AskForDeploy, AskForLogs, AskForWeb
  <2> QED
    BY <1>3, <2>1 DEF Asks, engine
<1>6. CASE Begin(c) \/ Follows(c)
  BY <1>3, <1>6 DEF Begin, Follows, engine
<1>7. CASE Poll(c)
  BY <1>3, <1>7 DEF Poll, engine
<1> QED
  BY <1>0, <1>4, <1>5, <1>6, <1>7, UploadKeeps, AcceptedKeeps DEF Client

\* The end of an app.
LEMMA DeleteKeeps == ASSUME EngineInv, DeleteApp PROVE EngineInv' /\ \A d \in Deploys : Moves(d)
<1>0. /\ row' = [d \in Deploys |-> IF row[d] = "none" THEN "none" ELSE "gone"]
      /\ path' = {}
      /\ log' = [d \in Deploys |-> [log[d] EXCEPT !.there = FALSE]]
      /\ build' = build /\ cli' = cli /\ up' = up
  BY DEF DeleteApp, server
<1>1. ASSUME NEW d \in Deploys PROVE DeployTyped(d)' /\ FileInv(d)' /\ Moves(d)
  <2>0. DeployTyped(d) /\ FileInv(d)
    BY DEF EngineInv
  <2>1. log[d] = [text |-> log[d].text, there |-> log[d].there] /\ log[d].text \in Text
    BY <2>0 DEF DeployTyped
  <2>2. /\ row'[d] = IF row[d] = "none" THEN "none" ELSE "gone"
        /\ log'[d] = [text |-> log[d].text, there |-> FALSE] /\ build'[d] = build[d]
    BY <1>0, <2>1
  <2>3. DeployTyped(d)'
    BY <2>0, <2>1, <2>2 DEF DeployTyped
  <2>4. (Filled(d) => Filled(d)') /\ (Untouched(d) => Untouched(d)')
    <3>1. ASSUME Filled(d) PROVE Filled(d)'
      <4>1. PICK o \in Outputs : log[d].text = o.warnings \o Capped(build[d].out)
        BY <3>1 DEF Filled
      <4>2. log'[d].text = log[d].text /\ build'[d].out = build[d].out
        BY <2>2
      <4> QED
        BY <4>1, <4>2 DEF Filled
    <3> QED
      BY <2>2, <3>1 DEF Untouched
  <2>5. FileInv(d)'
    BY <1>0, <2>0, <2>2, <2>4 DEF FileInv, UnderWay, Up, Untouched
  <2>6. <<>> \in Text /\ log[d].text \o <<>> = log[d].text
    BY <2>1, EmptySeq, ConcatEmptySeq DEF Text
  <2>7. Moves(d)
    <3>1. log'[d].text = log[d].text
      BY <2>2
    <3> QED
      BY <2>2, <2>6, <3>1 DEF Moves
  <2> QED
    BY <2>3, <2>5, <2>7
<1>2. ASSUME NEW c \in Clients PROVE CreatedInv(c)'
  <2>1. CreatedInv(c)
    BY DEF EngineInv
  <2> QED
    BY <1>0, <2>1 DEF CreatedInv, Up
<1> QED
  BY <1>0, <1>1, <1>2 DEF EngineInv

\* The death of the process.
LEMMA DieKeeps == ASSUME EngineInv, Die PROVE EngineInv' /\ \A d \in Deploys : Moves(d)
<1>0. /\ up' = "down"
      /\ cli' = [c \in Clients |-> IF cli[c].pc = "created" THEN [cli[c] EXCEPT !.pc = "done", !.result = "error"]
                                   ELSE cli[c]]
      /\ row' = row /\ path' = path /\ log' = log
  BY DEF Die
<1>3. PICK alive \in SUBSET {d \in Deploys : build[d].pc = "rolling"} :
          build' = [d \in Deploys |-> [build[d] EXCEPT !.pc = IF @ \in {"none", "stranded"} THEN @
                                                              ELSE IF d \in alive THEN "stranded" ELSE "over"]]
  BY DEF Die
<1> DEFINE last(d) == IF build[d].pc \in {"none", "stranded"} THEN build[d].pc ELSE IF d \in alive THEN "stranded" ELSE "over"
<1>1. ASSUME NEW d \in Deploys PROVE DeployTyped(d)' /\ FileInv(d)' /\ Moves(d)
  <2>0. DeployTyped(d) /\ FileInv(d)
    BY DEF EngineInv
  <2>1. build[d] = [pc |-> build[d].pc, left |-> build[d].left, out |-> build[d].out]
        /\ log[d].text \in Text /\ build[d].left \in Seq(Text) /\ build[d].out \in Text
    BY <2>0 DEF DeployTyped
  <2>2. /\ row'[d] = row[d] /\ log'[d] = log[d]
        /\ build'[d] = [pc |-> last(d), left |-> build[d].left, out |-> build[d].out]
    BY <1>0, <1>3, <2>1
  <2>3. DeployTyped(d)'
    <3>1. build'[d].pc \in {"none", "over", "stranded"}
      BY <2>2
    <3> QED
      BY <2>0, <2>1, <2>2, <3>1 DEF DeployTyped
  <2>4. (Filled(d) => Filled(d)') /\ (Untouched(d) => Untouched(d)')
    <3>1. ASSUME Filled(d) PROVE Filled(d)'
      <4>1. PICK o \in Outputs : log[d].text = o.warnings \o Capped(build[d].out)
        BY <3>1 DEF Filled
      <4>2. build'[d].out = build[d].out
        BY <2>2
      <4> QED
        BY <2>2, <4>1, <4>2 DEF Filled
    <3> QED
      BY <2>2, <3>1 DEF Untouched
  <2>5. FileInv(d)'
    <3>1. build'[d].pc \in {"none", "over", "stranded"} /\ (build[d].pc = "none" <=> build'[d].pc = "none")
      BY <2>2
    <3>2. row'[d] = row[d] /\ log'[d] = log[d] /\ up' = "down"
      BY <1>0
    <3> QED
      BY <2>0, <2>4, <3>1, <3>2 DEF FileInv, UnderWay, Up
  <2>6. <<>> \in Text /\ log[d].text \o <<>> = log[d].text
    BY <2>1, EmptySeq, ConcatEmptySeq DEF Text
  <2>7. Moves(d)
    BY <2>2, <2>6 DEF Moves
  <2> QED
    BY <2>3, <2>5, <2>7
<1>2. ASSUME NEW c \in Clients
      PROVE  cli'[c].pc # "created" /\ cli'[c] = [pc |-> cli'[c].pc, number |-> cli'[c].number, result |-> cli'[c].result]
  <2>1. cli[c] = [pc |-> cli[c].pc, number |-> cli[c].number, result |-> cli[c].result]
    BY DEF EngineInv
  <2>2. cli'[c] = (IF cli[c].pc = "created" THEN [pc |-> "done", number |-> cli[c].number, result |-> "error"] ELSE cli[c])
    <3>1. CASE cli[c].pc = "created"
      <4>1. cli'[c] = [cli[c] EXCEPT !.pc = "done", !.result = "error"]
        BY <1>0, <3>1
      <4>2. ASSUME NEW before, NEW after,
                   before = [pc |-> before.pc, number |-> before.number, result |-> before.result],
                   after = [before EXCEPT !.pc = "done", !.result = "error"]
            PROVE  after = [pc |-> "done", number |-> before.number, result |-> "error"]
        BY ONLY <4>2
      <4>3. cli'[c] = [pc |-> "done", number |-> cli[c].number, result |-> "error"]
        BY ONLY <2>1, <4>1, <4>2
      <4> QED
        BY <3>1, <4>3
    <3>2. CASE cli[c].pc # "created"
      BY <1>0, <3>2
    <3> QED
      BY <3>1, <3>2
  <2> QED
    BY <2>1, <2>2
<1>4. build' = [d \in Deploys |-> build'[d]] /\ cli' = [c \in Clients |-> cli'[c]]
  BY <1>0, <1>3
<1> QED
  BY <1>0, <1>1, <1>2, <1>4 DEF EngineInv, CreatedInv

\* Its restart.
LEMMA BootKeeps == ASSUME EngineInv, Boot PROVE EngineInv' /\ \A d \in Deploys : Moves(d)
<1>3. PICK alone \in SUBSET Deploys :
         row' = [d \in Deploys |-> IF row[d] = "deploying" /\ d \notin alone THEN "failed" ELSE row[d]]
  BY DEF Boot
<1>0. /\ ~Up /\ up' = "restarted" /\ row' = [d \in Deploys |-> row'[d]]
      /\ path' = path /\ log' = log /\ build' = build /\ cli' = cli
  BY <1>3 DEF Boot, server, Up
<1>1. ASSUME NEW d \in Deploys PROVE DeployTyped(d)' /\ FileInv(d)' /\ Moves(d)
  <2>0. DeployTyped(d) /\ FileInv(d)
    BY DEF EngineInv
  <2>1. /\ row'[d] = row[d] \/ (row[d] = "deploying" /\ row'[d] = "failed")
        /\ log'[d] = log[d] /\ build'[d] = build[d]
    BY <1>0, <1>3
  <2>2. DeployTyped(d)'
    BY <2>0, <2>1 DEF DeployTyped
  <2>3. (Filled(d) => Filled(d)') /\ (Untouched(d) => Untouched(d)')
    BY <2>1 DEF Filled, Untouched
  <2>4. FileInv(d)'
    BY <1>0, <2>0, <2>1, <2>3 DEF FileInv, UnderWay, Up
  <2>5. log[d].text \in Text
    BY <2>0 DEF DeployTyped
  <2>6. <<>> \in Text /\ log[d].text \o <<>> = log[d].text
    BY <2>5, EmptySeq, ConcatEmptySeq DEF Text
  <2>7. Moves(d)
    BY <2>1, <2>6 DEF Moves
  <2> QED
    BY <2>2, <2>4, <2>7
<1>2. \A c \in Clients : cli[c].pc # "created"
  BY <1>0 DEF EngineInv, CreatedInv
<1> QED
  BY <1>0, <1>1, <1>2 DEF EngineInv, CreatedInv

\* No step breaks the invariant, and every one moves a deployment as Moves says.
LEMMA EngineSteps == ASSUME EngineInv, [Next]_vars PROVE EngineInv' /\ \A d \in Deploys : Moves(d)
<1>1. CASE UNCHANGED <<row, path, log, build, up, cli>>
  <2>1. CliTyped /\ CliTyped'
    BY <1>1 DEF EngineInv, CliTyped
  <2>2. CASE Clients = {}
    <3>1. \A d \in Deploys : DeployTyped(d)' /\ FileInv(d)' /\ Moves(d)
      BY <1>1, LeftKeeps DEF Left
    <3> QED
      BY <1>1, <2>2, <3>1 DEF EngineInv
  <2>3. ASSUME NEW c \in Clients PROVE EngineInv' /\ \A d \in Deploys : Moves(d)
    BY <1>1, <2>1, ClientGoesOn
  <2> QED
    BY <2>2, <2>3
<1>2. ASSUME NEW c \in Clients, Client(c) PROVE EngineInv' /\ \A d \in Deploys : Moves(d)
  BY <1>2, ClientEngine
<1>3. ASSUME NEW d \in Deploys, Goroutine(d) PROVE EngineInv' /\ \A e \in Deploys : Moves(e)
  <2>1. /\ DeployTyped(d)' /\ FileInv(d)' /\ Moves(d)
        /\ build[d].pc # "none"
        /\ row' = [row EXCEPT ![d] = row'[d]] /\ log' = [log EXCEPT ![d] = log'[d]] /\ build' = [build EXCEPT ![d] = build'[d]]
        /\ path' = path
    BY <1>3, GoroutineKeeps
  <2>2. row = [e \in Deploys |-> row[e]] /\ log = [e \in Deploys |-> log[e]] /\ build = [e \in Deploys |-> build[e]]
        /\ cli' = cli /\ up' = up
    BY <1>3 DEF EngineInv, Goroutine
  <2>3. /\ row' = [e \in Deploys |-> row'[e]] /\ log' = [e \in Deploys |-> log'[e]] /\ build' = [e \in Deploys |-> build'[e]]
        /\ \A e \in Deploys : e # d => row'[e] = row[e] /\ log'[e] = log[e] /\ build'[e] = build[e]
    BY <2>1, <2>2
  <2>4. \A e \in Deploys : DeployTyped(e)' /\ FileInv(e)' /\ Moves(e)
    <3>1. ASSUME NEW e \in Deploys, e # d PROVE DeployTyped(e)' /\ FileInv(e)' /\ Moves(e)
      BY <2>2, <2>3, <3>1, LeftKeeps DEF Left
    <3> QED
      BY <2>1, <3>1
  <2>5. ASSUME NEW c \in Clients PROVE CreatedInv(c)'
    <3>1. CreatedInv(c)
      BY DEF EngineInv
    <3>2. cli[c].pc = "created" => cli[c].number # d
      BY <2>1, <3>1 DEF CreatedInv
    <3> QED
      BY <2>2, <2>3, <3>1, <3>2 DEF CreatedInv, Up
  <2> QED
    BY <2>1, <2>2, <2>3, <2>4, <2>5 DEF EngineInv
<1>4. ASSUME (\E c \in Clients : Handler(c) \/ Stream(c) \/ Expire(c)) \/ (\E u \in Users : Disable(u))
             \/ UNCHANGED followVars
      PROVE  UNCHANGED <<row, path, log, build, up, cli>>
  BY <1>4 DEF Handler, Stream, Expire, Disable, followVars, engine
<1> QED
  BY <1>1, <1>2, <1>3, <1>4, DeleteKeeps, DieKeeps, BootKeeps DEF Next, FollowNext, vars

----------------------------------------------------------------------------
(* What readers have received.                                             *)

Named(d) == d \in Deploys /\ row[d] # "none"

\* Of the file of deployment d, what comes before the offset.
HasRead(d, offset, events) ==
    /\ Named(d) /\ offset \in Nat /\ offset <= Len(log[d].text)
    /\ events \in Seq(Text) /\ Said(events) = Plain(SubSeq(log[d].text, 1, offset))

\* Of a connection k, which has brought the events.
ReaderIs(k, events) ==
    LET d == k.target.number
        scope == k.target.scope
    IN  /\ k.pc # "none" => k = [pc |-> k.pc, target |-> k.target, offset |-> k.offset, taken |-> k.taken]
        /\ k.pc \in {"none", "asked", "lookup", "slot"} => events = <<>>
        /\ k.pc \in {"asked", "lookup", "slot"} => k.offset = 0 /\ k.taken = <<>>
        /\ k.pc = "slot" /\ scope = "build_log" => Named(d)
        /\ k.pc \in {"tail", "tick", "last"} => scope = "build_log" /\ HasRead(d, k.offset, events)
        /\ k.pc = "last" => row[d] # "deploying"
        /\ k.pc = "frames" => scope # "build_log"
        /\ k.pc = "frames" /\ scope = "app_logs" => HasLines(events, k.taken)
        /\ k.pc = "ended" /\ scope = "build_log" =>
             Named(d) /\ row[d] # "deploying" /\ (row[d] # "gone" => Said(events) = Said(<<log[d].text>>))
        /\ k.pc = "ended" /\ scope = "app_logs" =>
             \A s \in Streams : OfStream(events, s) = On(s, Lines(Payload(k.taken, s)))

ReadersInv == seen = [c \in Clients |-> seen[c]] /\ \A c \in Clients : ReaderIs(conn[c], seen[c])

\* What was read of a file stays what it begins with.
LEMMA ReadStays ==
    ASSUME EngineInv, NEW d \in Deploys, Moves(d), NEW offset, NEW events, HasRead(d, offset, events)
    PROVE  HasRead(d, offset, events)'
<1> DEFINE text == log[d].text
<1>1. PICK more \in Text : log'[d].text = text \o more
  BY DEF Moves
<1>2. text \in Text
  BY DEF EngineInv, DeployTyped
<1>3. offset \in Nat /\ offset <= Len(text) /\ row[d] # "none" /\ row'[d] # "none"
  BY DEF HasRead, Named, Moves
<1> HIDE DEF text
<1>4. Len(text) \in Nat /\ Len(more) \in Nat /\ Len(text \o more) = Len(text) + Len(more)
  BY <1>2, LenProperties, ConcatProperties DEF Text
<1>5. SubSeq(text \o more, 1, offset) = SubSeq(text, 1, offset)
  <2>1. text \in Seq(Symbols) /\ more \in Seq(Symbols) /\ offset <= Len(text) + Len(more)
    BY <1>2, <1>3, <1>4 DEF Text
  <2>2. SubSeq(text \o more, 1, offset) = IF offset <= Len(text) THEN SubSeq(text, 1, offset)
                                          ELSE text \o SubSeq(more, 1, offset - Len(text))
    BY <1>3, <2>1, PrefixOfBoth
  <2> QED
    BY <1>3, <2>2
<1>6. log'[d].text = text \o more /\ events \in Seq(Text) /\ Said(events) = Plain(SubSeq(text, 1, offset))
  BY <1>1 DEF HasRead, text
<1>7. Said(events) = Plain(SubSeq(log'[d].text, 1, offset)) /\ offset <= Len(log'[d].text)
  <2> DEFINE both == text \o more
  <2>1. log'[d].text = both
    BY <1>6
  <2>2. SubSeq(both, 1, offset) = SubSeq(text, 1, offset) /\ Len(both) = Len(text) + Len(more)
    BY <1>4, <1>5
  <2> HIDE DEF both
  <2> QED
    <3>1. Said(events) = Plain(SubSeq(text, 1, offset))
      BY <1>6
    <3>2. SubSeq(log'[d].text, 1, offset) = SubSeq(text, 1, offset)
      BY ONLY <2>1, <2>2
    <3>3. Plain(SubSeq(log'[d].text, 1, offset)) = Plain(SubSeq(text, 1, offset))
      BY ONLY <3>2
    <3>4. offset <= Len(log'[d].text)
      BY <1>3, <1>4, <2>1, <2>2
    <3> QED
      BY ONLY <3>1, <3>3, <3>4
<1> QED
  BY <1>3, <1>6, <1>7 DEF HasRead, Named

\* What the rest of the system does to deployments is nothing to a reader.
LEMMA ReaderStays ==
    ASSUME EngineInv, \A d \in Deploys : Moves(d), NEW k, NEW events, ReaderIs(k, events)
    PROVE  ReaderIs(k, events)'
<1> DEFINE d == k.target.number
<1>1. ASSUME Named(d) PROVE Named(d)'
  BY <1>1 DEF Named, Moves
<1>2. ASSUME HasRead(d, k.offset, events) PROVE HasRead(d, k.offset, events)'
  BY <1>2, ReadStays DEF HasRead, Named
<1>3. ASSUME Named(d), row[d] # "deploying" PROVE row'[d] # "deploying"
  BY <1>3 DEF Named, Moves
<1>4. ASSUME Named(d), row[d] # "deploying", row[d] # "gone" => Said(events) = Said(<<log[d].text>>)
      PROVE  row'[d] # "gone" => Said(events) = Said(<<log'[d].text>>)
  BY <1>4 DEF Named, Moves
<1>5. k.pc \in {"tail", "tick", "last"} => HasRead(d, k.offset, events)
  BY DEF ReaderIs
<1>6. HasRead(d, k.offset, events) => Named(d)
  BY DEF HasRead
<1> QED
  BY <1>1, <1>2, <1>3, <1>4, <1>5, <1>6 DEF ReaderIs

\* A connection that was refused or cut.
Closed(k) == k.pc \in {"refused", "cut"} /\ k = [pc |-> k.pc, target |-> k.target, offset |-> k.offset, taken |-> k.taken]

LEMMA ClosedIs == ASSUME NEW k, NEW events, Closed(k) PROVE ReaderIs(k, events)
BY DEF Closed, ReaderIs

\* What a reader gets that goes on where it was.
LEMMA ReadsOn ==
    ASSUME EngineInv, NEW d \in Deploys, NEW offset, NEW events, HasRead(d, offset, events),
           NEW new, new = SubSeq(log[d].text, offset + 1, Len(log[d].text)) \/ new = <<>>
    PROVE  /\ HasRead(d, offset + Len(new), events \o Drain(new))
           /\ new # <<>> \/ offset = Len(log[d].text) => offset + Len(new) = Len(log[d].text)
<1> DEFINE text == log[d].text
           n == offset + Len(new)
           before == SubSeq(text, 1, offset)
           e == <<>>
<1>1. text \in Seq(Symbols) /\ Len(text) \in Nat
  BY LenProperties DEF EngineInv, DeployTyped, Text
<1>2. offset \in Nat /\ offset <= Len(text) /\ events \in Seq(Text) /\ Said(events) = Plain(before) /\ Named(d)
  BY DEF HasRead
<1>3. e \in Seq(Symbols) /\ Len(e) = 0 /\ \A s \in Seq(Symbols) : s \o e = s
  BY EmptySeq, ConcatEmptySeq
<1>4. new = SubSeq(text, offset + 1, Len(text)) \/ new = e
  OBVIOUS
<1> HIDE DEF text, e
<1>5. before \in Seq(Symbols)
  BY <1>1, <1>2, PrefixIs
<1>6. /\ new \in Seq(Symbols) /\ n \in Nat /\ n <= Len(text) /\ SubSeq(text, 1, n) = before \o new
      /\ new = e \/ n = Len(text)
  <2>1. CASE new = e
    <3>1. n = offset
      BY <1>2, <1>3, <2>1
    <3> QED
      BY <1>1, <1>2, <1>3, <1>5, <2>1, <3>1
  <2>2. CASE new = SubSeq(text, offset + 1, Len(text))
    <3>1. /\ new \in Seq(Symbols)
          /\ Len(new) = IF offset + 1 <= Len(text) THEN Len(text) - (offset + 1) + 1 ELSE 0
      <4>1. offset + 1 \in Int /\ Len(text) \in Int /\ \A i \in (offset + 1)..Len(text) : text[i] \in Symbols
        BY <1>1, <1>2, ElementOfSeq
      <4> QED
        BY ONLY <2>2, <4>1, SubSeqProperties
    <3>2. n = Len(text)
      BY <1>1, <1>2, <3>1
    <3>3. before \o new = SubSeq(text, 1, Len(text))
      <4>1. 1 \in 1..(Len(text) + 1) /\ offset \in (1 - 1)..Len(text) /\ Len(text) \in offset..Len(text)
        BY <1>1, <1>2
      <4> QED
        BY ONLY <1>1, <2>2, <4>1, ConcatAdjacentSubSeq
    <3> QED
      <4> HIDE DEF n, before
      <4> QED
        BY <1>1, <3>1, <3>2, <3>3
  <2> QED
    BY <1>4, <2>1, <2>2
<1> HIDE DEF before, n
<1>7. Drain(new) \in Seq(Text) /\ Said(Drain(new)) = Plain(new)
  BY <1>6, SaidSteps DEF Text
<1>8. Said(events \o Drain(new)) = Said(events) \o Said(Drain(new)) /\ events \o Drain(new) \in Seq(Text)
  <2>1. \A a, b \in Seq(Text) : Said(a \o b) = Said(a) \o Said(b)
    BY SaidSteps
  <2> QED
    BY <1>2, <1>7, <2>1, ConcatProperties
<1>9. Plain(before \o new) = Plain(before) \o Plain(new)
  <2>1. \A a, b \in Text : Plain(a \o b) = Plain(a) \o Plain(b)
    BY WithoutSteps DEF Plain
  <2> QED
    BY <1>5, <1>6, <2>1 DEF Text
<1>10. HasRead(d, n, events \o Drain(new))
  BY <1>2, <1>6, <1>7, <1>8, <1>9 DEF HasRead, text
<1>11. offset = Len(text) /\ new = e => n = Len(text)
  BY <1>1, <1>3 DEF n
<1> QED
  BY <1>6, <1>10, <1>11 DEF n, text, e

\* A step of one reader.
Reads(c) ==
    /\ row' = row /\ log' = log
    /\ seen' = [d \in Clients |-> seen'[d]]
    /\ \A d \in Clients : d # c => conn'[d] = conn[d] /\ seen'[d] = seen[d]
    /\ ReaderIs(conn'[c], seen'[c])

LEMMA ReadsKeeps == ASSUME ReadersInv, NEW c \in Clients, Reads(c) PROVE ReadersInv'
<1>1. ASSUME NEW d \in Clients PROVE ReaderIs(conn[d], seen[d])'
  <2>1. ReaderIs(conn'[d], seen'[d])
    BY DEF Reads, ReadersInv
  <2>2. row' = row /\ log' = log
    BY DEF Reads
  <2> QED
    BY <2>1, <2>2 DEF ReaderIs, Named, HasRead
<1> QED
  BY <1>1 DEF Reads, ReadersInv

\* A reader that reads nothing.
LEMMA TurnsTo ==
    ASSUME SlotsInv, ReadersInv, NEW c \in Clients, NEW pc, To(c, pc), conn[c].pc # "none", seen' = seen, row' = row, log' = log,
           ReaderIs([pc |-> pc, target |-> conn[c].target, offset |-> conn[c].offset, taken |-> conn[c].taken], seen[c])
    PROVE  Reads(c)
<1>1. conn = [d \in Clients |-> conn[d]] /\ ReaderIs(conn[c], seen[c]) /\ seen = [d \in Clients |-> seen[d]]
  BY DEF SlotsInv, ConnTyped, ReadersInv
<1>2. conn[c] = [pc |-> conn[c].pc, target |-> conn[c].target, offset |-> conn[c].offset, taken |-> conn[c].taken]
  BY <1>1 DEF ReaderIs
<1>3. conn'[c] = [pc |-> pc, target |-> conn[c].target, offset |-> conn[c].offset, taken |-> conn[c].taken]
      /\ \A d \in Clients : d # c => conn'[d] = conn[d]
  BY <1>1, <1>2 DEF To
<1> QED
  BY <1>1, <1>3 DEF Reads

\* The steps of the handlers.
LEMMA HandlerReads == ASSUME SlotsInv, EngineInv, ReadersInv, NEW c \in Clients, Handler(c) PROVE Reads(c)
<1> DEFINE t == conn[c].target
           o == conn[c].offset
           f == conn[c].taken
           d == t.number
           Now(pc) == [pc |-> pc, target |-> t, offset |-> o, taken |-> f]
<1>0. /\ conn[c].pc # "none" /\ row' = row /\ log' = log /\ ReaderIs(conn[c], seen[c])
      /\ conn = [x \in Clients |-> conn[x]] /\ seen = [x \in Clients |-> seen[x]]
  BY HandlerSlots DEF Handler, engine, SlotsInv, ConnTyped, ReadersInv
<1>1. conn[c] = Now(conn[c].pc)
  BY <1>0 DEF ReaderIs
<1>2. \A pc : /\ Now(pc).pc = pc /\ Now(pc).target = t /\ Now(pc).offset = o /\ Now(pc).taken = f
              /\ Now(pc) = [pc |-> Now(pc).pc, target |-> Now(pc).target, offset |-> Now(pc).offset, taken |-> Now(pc).taken]
  OBVIOUS
<1> HIDE DEF Now
<1>3. ASSUME NEW pc, To(c, pc), seen' = seen, ReaderIs(Now(pc), seen[c]) PROVE Reads(c)
  BY <1>0, <1>3, TurnsTo DEF Now
<1>4. \A pc \in {"refused", "cut"} : ReaderIs(Now(pc), seen[c])
  BY <1>2, ClosedIs DEF Closed
<1>5. CASE Authenticate(c)
  <2>1. (To(c, "lookup") \/ To(c, "refused")) /\ seen' = seen /\ conn[c].pc = "asked"
    BY <1>5 DEF Authenticate
  <2>2. ReaderIs(Now("lookup"), seen[c])
    BY <1>0, <1>2, <2>1 DEF ReaderIs
  <2> QED
    BY <1>3, <1>4, <2>1, <2>2
<1>6. CASE LookupBuild(c)
  <2>0. conn[c].pc = "lookup" /\ t.scope = "build_log"
    BY <1>6 DEF LookupBuild, Looks
  <2>1. CASE To(c, "refused") /\ seen' = seen
    BY <1>3, <1>4, <2>1
  <2>2. CASE row[d] \notin {"none", "gone"} /\ d \in path /\ row[d] = "deploying" /\ To(c, "slot") /\ seen' = seen
    <3>1. Named(d)
      BY <2>2 DEF Named, EngineInv
    <3>2. ReaderIs(Now("slot"), seen[c])
      BY <1>0, <1>2, <2>0, <3>1 DEF ReaderIs
    <3> QED
      BY <1>3, <2>2, <3>2
  <2>3. CASE row[d] \notin {"none", "gone"} /\ d \in path /\ row[d] # "deploying" /\ To(c, "ended") /\ seen' = [seen EXCEPT ![c] = <<log[d].text>>]
    <3>1. Named(d)
      BY <2>3 DEF Named, EngineInv
    <3>2. conn'[c] = Now("ended") /\ \A x \in Clients : x # c => conn'[x] = conn[x]
      BY <1>0, <1>1, <2>3 DEF To, Now
    <3>3. seen'[c] = <<log[d].text>> /\ seen' = [x \in Clients |-> seen'[x]] /\ \A x \in Clients : x # c => seen'[x] = seen[x]
      BY <1>0, <2>3
    <3>4. ReaderIs(Now("ended"), <<log[d].text>>)
      BY <1>2, <2>0, <2>3, <3>1 DEF ReaderIs
    <3> QED
      BY <1>0, <3>2, <3>3, <3>4 DEF Reads
  <2> QED
    BY <1>6, <2>0, <2>1, <2>2, <2>3 DEF LookupBuild, Number
<1>7. CASE LookupLogs(c) \/ LookupStats(c) \/ LookupAllStats(c)
  <2>1. conn[c].pc = "lookup" /\ t.scope # "build_log" /\ (NoApp(c) \/ Sourced(c))
    BY <1>7 DEF LookupLogs, LookupStats, LookupAllStats, Looks
  <2>2. seen' = seen /\ (To(c, "slot") \/ To(c, "refused"))
    BY <2>1 DEF NoApp, Sourced
  <2>3. ReaderIs(Now("slot"), seen[c])
    BY <1>0, <1>2, <2>1 DEF ReaderIs
  <2> QED
    BY <1>3, <1>4, <2>2, <2>3
<1>8. CASE Slot(c)
  <2>0. conn[c].pc = "slot" /\ seen' = seen
        /\ (To(c, "refused") \/ To(c, IF t.scope = "build_log" THEN "tail" ELSE "frames"))
    BY <1>8 DEF Slot
  <2>1. seen[c] = <<>> /\ o = 0 /\ f = <<>> /\ (t.scope = "build_log" => Named(d))
    BY <1>0, <2>0 DEF ReaderIs
  <2>2. CASE To(c, "tail") /\ t.scope = "build_log"
    <3>1. Named(d) /\ log[d].text \in Seq(Symbols)
      BY <2>1, <2>2 DEF Named, EngineInv, DeployTyped, Text
    <3>2. SubSeq(log[d].text, 1, 0) = <<>> /\ 0 <= Len(log[d].text) /\ <<>> \in Seq(Text)
      BY <3>1, LenProperties, SubSeqEmpty, EmptySeq
    <3>3. Said(<<>>) = Plain(<<>>)
      BY SaidSteps, WithoutSteps DEF Plain
    <3>4. HasRead(d, 0, <<>>)
      BY <3>1, <3>2, <3>3 DEF HasRead
    <3>5. ReaderIs(Now("tail"), seen[c])
      BY <1>2, <2>1, <2>2, <3>4 DEF ReaderIs
    <3> QED
      BY <1>3, <2>0, <2>2, <3>5
  <2>3. CASE To(c, "frames") /\ t.scope # "build_log"
    <3>1. HasLines(<<>>, <<>>)
      <4>1. Cut(<<>>).lines = <<>> /\ <<>> \in Seq(Frame) /\ <<>> \in Seq(Line)
        BY CutSteps, EmptySeq
      <4>2. \A s \in Streams : OfStream(<<>>, s) = <<>> /\ On(s, <<>>) = <<>> /\ Payload(<<>>, s) = <<>>
        BY OfStreamSteps, OnSteps, PayloadSteps
      <4> QED
        BY <4>1, <4>2 DEF HasLines
    <3>2. ReaderIs(Now("frames"), seen[c])
      BY <1>2, <2>1, <2>3, <3>1 DEF ReaderIs
    <3> QED
      BY <1>3, <2>0, <2>3, <3>2
  <2> QED
    BY <1>3, <1>4, <2>0, <2>2, <2>3
<1>9. CASE TailFile(c)
  <2> DEFINE new == New(c)
             more == seen[c] \o Drain(new)
             next == [pc |-> "tick", target |-> t, offset |-> o + Len(new), taken |-> f]
  <2>0. t.scope = "build_log" /\ HasRead(d, o, seen[c])
    BY <1>0, <1>9 DEF TailFile, ReaderIs
  <2>1. new = SubSeq(log[d].text, o + 1, Len(log[d].text)) \/ new = <<>>
    BY DEF New, Number
  <2>2. conn'[c] = next /\ \A x \in Clients : x # c => conn'[x] = conn[x]
    <3>1. conn' = [conn EXCEPT ![c].pc = "tick", ![c].offset = @ + Len(new)]
      BY <1>9 DEF TailFile
    <3> HIDE DEF new
    <3> QED
      BY <1>0, <1>1, <3>1 DEF Now
  <2>3. seen'[c] = more /\ seen' = [x \in Clients |-> seen'[x]] /\ \A x \in Clients : x # c => seen'[x] = seen[x]
    BY <1>0, <1>9 DEF TailFile
  <2> HIDE DEF new
  <2>4. HasRead(d, o + Len(new), more)
    <3>1. d \in Deploys
      BY <2>0 DEF HasRead, Named
    <3> QED
      BY <2>0, <2>1, <3>1, ReadsOn
  <2> HIDE DEF more
  <2>5. ReaderIs(next, more)
    BY <2>0, <2>4 DEF ReaderIs
  <2> QED
    BY <1>0, <2>2, <2>3, <2>5 DEF Reads
<1>10. CASE Tick(c)
  <2>0. conn[c].pc = "tick" /\ To(c, IF row[d] # "deploying" THEN "last" ELSE "tail") /\ seen' = seen
    BY <1>10 DEF Tick, Over, Number
  <2>1. t.scope = "build_log" /\ HasRead(d, o, seen[c])
    BY <1>0, <2>0 DEF ReaderIs
  <2>2. ReaderIs(Now("tail"), seen[c]) /\ (row[d] # "deploying" => ReaderIs(Now("last"), seen[c]))
    BY <1>2, <2>1 DEF ReaderIs
  <2> QED
    BY <1>3, <2>0, <2>2
<1>11. CASE LastRead(c)
  <2> DEFINE new == New(c)
             more == seen[c] \o Drain(new)
             text == log[d].text
  <2>0. t.scope = "build_log" /\ HasRead(d, o, seen[c]) /\ row[d] # "deploying"
    BY <1>0, <1>11 DEF LastRead, ReaderIs
  <2>1. new = SubSeq(text, o + 1, Len(text)) \/ (new = <<>> /\ ~log[d].there)
    BY DEF New, Number, Readable
  <2>2. conn'[c] = Now("ended") /\ \A x \in Clients : x # c => conn'[x] = conn[x]
    BY <1>0, <1>1, <1>11 DEF LastRead, Return, To, Now
  <2>3. seen'[c] = more /\ seen' = [x \in Clients |-> seen'[x]] /\ \A x \in Clients : x # c => seen'[x] = seen[x]
    BY <1>0, <1>11 DEF LastRead
  <2>4. d \in Deploys /\ Named(d) /\ o \in Nat /\ o <= Len(text)
    BY <2>0 DEF HasRead, Named
  <2>5. text \in Seq(Symbols) /\ Len(text) \in Nat
    BY <2>4, LenProperties DEF EngineInv, DeployTyped, Text
  <2> HIDE DEF new
  <2>6. HasRead(d, o + Len(new), more) /\ (new # <<>> \/ o = Len(text) => o + Len(new) = Len(text))
    BY <2>0, <2>1, <2>4, ReadsOn
  <2>7. ASSUME row[d] # "gone" PROVE Said(more) = Said(<<text>>)
    <3>1. o + Len(new) = Len(text)
      <4>1. CASE new = SubSeq(text, o + 1, Len(text)) /\ new = <<>>
        <5>1. o + 1 \in Int /\ Len(text) \in Int /\ \A i \in (o + 1)..Len(text) : text[i] \in Symbols
          BY <2>4, <2>5, ElementOfSeq
        <5>2. Len(new) = IF o + 1 <= Len(text) THEN Len(text) - (o + 1) + 1 ELSE 0
          BY ONLY <4>1, <5>1, SubSeqProperties
        <5>3. Len(new) = 0
          BY <4>1, EmptySeq
        <5>4. ASSUME NEW n \in Nat, NEW k \in Nat, NEW l, l = IF k + 1 <= n THEN n - (k + 1) + 1 ELSE 0, l = 0, k <= n
              PROVE  k = n
          BY ONLY <5>4
        <5>5. o = Len(text)
          <6>1. o \in Nat /\ o <= Len(text)
            BY <2>4
          <6> HIDE DEF o, text
          <6> QED
            BY ONLY <6>1, <2>5, <5>2, <5>3, <5>4
        <5> QED
          BY <2>6, <5>5
      <4>2. CASE new = <<>> /\ ~log[d].there
        <5>1. text = <<>>
          BY <2>4, <2>7, <4>2 DEF EngineInv, FileInv
        <5>2. Len(text) = 0
          BY <5>1, EmptySeq
        <5> QED
          BY <2>4, <2>6, <5>2
      <4> QED
        BY <2>1, <2>6, <4>1, <4>2
    <3>2. SubSeq(text, 1, Len(text)) = text
      BY <2>5, SubSeqFull
    <3>3. Said(more) = Plain(SubSeq(text, 1, o + Len(new)))
      BY <2>6 DEF HasRead
    <3>4. Said(<<text>>) = Plain(text)
      <4>1. \A x \in Text : Said(<<x>>) = Plain(x)
        BY SaidSteps
      <4> QED
        BY <2>5, <4>1 DEF Text
    <3> QED
      BY <3>1, <3>2, <3>3, <3>4
  <2> HIDE DEF more
  <2>8. ReaderIs(Now("ended"), more)
    BY <1>2, <2>0, <2>4, <2>7 DEF ReaderIs
  <2> QED
    BY <1>0, <2>2, <2>3, <2>8 DEF Reads
<1> QED
  BY <1>5, <1>6, <1>7, <1>8, <1>9, <1>10, <1>11 DEF Handler

\* The steps of podman and of clients that go.
LEMMA StreamReads == ASSUME SlotsInv, EngineInv, ReadersInv, NEW c \in Clients, Stream(c) PROVE Reads(c)
<1> DEFINE t == conn[c].target
           o == conn[c].offset
           f == conn[c].taken
           Now(pc) == [pc |-> pc, target |-> t, offset |-> o, taken |-> f]
<1>0. /\ conn[c].pc # "none" /\ row' = row /\ log' = log /\ ReaderIs(conn[c], seen[c])
      /\ conn = [x \in Clients |-> conn[x]] /\ seen = [x \in Clients |-> seen[x]]
  BY StreamSlots DEF Stream, engine, SlotsInv, ConnTyped, ReadersInv
<1>1. conn[c] = Now(conn[c].pc)
  BY <1>0 DEF ReaderIs
<1>2. \A pc : /\ Now(pc).pc = pc /\ Now(pc).target = t /\ Now(pc).offset = o /\ Now(pc).taken = f
              /\ Now(pc) = [pc |-> Now(pc).pc, target |-> Now(pc).target, offset |-> Now(pc).offset, taken |-> Now(pc).taken]
  OBVIOUS
<1> HIDE DEF Now
<1>3. ASSUME NEW pc, To(c, pc), seen' = seen, ReaderIs(Now(pc), seen[c]) PROVE Reads(c)
  BY <1>0, <1>3, TurnsTo DEF Now
<1>4. CASE ReadFrame(c)
  <2> DEFINE n == Len(f) + 1
             frame == Frames[n]
             more == seen[c] \o Demux(Unfinished(f), frame).emitted
             next == [pc |-> "frames", target |-> t, offset |-> o, taken |-> Append(f, frame)]
  <2>1. conn[c].pc = "frames" /\ t.scope = "app_logs" /\ Len(f) < Len(Frames) /\ HasLines(seen[c], f)
    BY <1>0, <1>4 DEF ReadFrame, ReaderIs
  <2>2. frame \in Frame
    <3>1. f \in Seq(Frame) /\ Frames \in Seq(Frame)
      BY <2>1, FollowAssumption DEF HasLines, FollowAssumption
    <3>2. Len(f) \in Nat /\ Len(Frames) \in Nat
      BY <3>1, LenProperties
    <3>3. n \in 1..Len(Frames)
      BY <2>1, <3>2
    <3> QED
      BY <3>1, <3>3, ElementOfSeq
  <2>3. seen'[c] = more /\ seen' = [x \in Clients |-> seen'[x]] /\ \A x \in Clients : x # c => seen'[x] = seen[x]
    BY <1>0, <1>4 DEF ReadFrame
  <2>4. conn'[c] = next /\ \A x \in Clients : x # c => conn'[x] = conn[x]
    <3>1. conn' = [conn EXCEPT ![c].taken = Append(@, frame)]
      BY <1>4 DEF ReadFrame
    <3> HIDE DEF frame
    <3>2. conn[c] = [pc |-> conn[c].pc, target |-> conn[c].target, offset |-> conn[c].offset, taken |-> conn[c].taken]
      BY <1>0 DEF ReaderIs
    <3>3. conn'[c] = [conn[c] EXCEPT !.taken = Append(f, frame)] /\ \A x \in Clients : x # c => conn'[x] = conn[x]
      BY <1>0, <3>1
    <3>4. ASSUME NEW k, NEW new, k = [pc |-> k.pc, target |-> k.target, offset |-> k.offset, taken |-> k.taken]
          PROVE  [k EXCEPT !.taken = new] = [pc |-> k.pc, target |-> k.target, offset |-> k.offset, taken |-> new]
      BY ONLY <3>4
    <3>5. conn'[c] = next
      <4>1. [conn[c] EXCEPT !.taken = Append(f, frame)]
              = [pc |-> conn[c].pc, target |-> conn[c].target, offset |-> conn[c].offset, taken |-> Append(f, frame)]
        BY ONLY <3>2, <3>4
      <4> QED
        BY <2>1, <3>3, <4>1
    <3> QED
      BY <3>3, <3>5
  <2> HIDE DEF frame
  <2>5. HasLines(more, Append(f, frame))
    BY <2>1, <2>2, FrameBrings
  <2> HIDE DEF more
  <2>6. ReaderIs(next, more)
    BY <2>1, <2>5 DEF ReaderIs
  <2> QED
    BY <1>0, <2>3, <2>4, <2>6 DEF Reads
<1>5. CASE LogsEnd(c)
  <2>1. conn[c].pc = "frames" /\ t.scope = "app_logs" /\ HasLines(seen[c], f) /\ To(c, "ended")
    BY <1>0, <1>5 DEF LogsEnd, ReaderIs, Return
  <2>2. PICK first \in Streams, last \in Streams :
          /\ first # last
          /\ LET rest == Unfinished(f)
             IN  seen' = [seen EXCEPT ![c] = @ \o On(first, Flush(rest[first])) \o On(last, Flush(rest[last]))]
    BY <1>5 DEF LogsEnd
  <2> DEFINE more == seen[c] \o On(first, Flush(Unfinished(f)[first])) \o On(last, Flush(Unfinished(f)[last]))
  <2>3. seen'[c] = more /\ seen' = [x \in Clients |-> seen'[x]] /\ \A x \in Clients : x # c => seen'[x] = seen[x]
    BY <1>0, <2>2
  <2>4. \A s \in Streams : OfStream(more, s) = On(s, Lines(Payload(f, s)))
    BY <2>1, <2>2, EndBrings
  <2> HIDE DEF more
  <2>5. ReaderIs(Now("ended"), more)
    BY <1>2, <2>1, <2>4 DEF ReaderIs
  <2>6. conn'[c] = Now("ended") /\ \A x \in Clients : x # c => conn'[x] = conn[x]
    BY <1>0, <1>1, <2>1 DEF To, Now
  <2> QED
    BY <1>0, <2>3, <2>5, <2>6 DEF Reads
<1>6. CASE StatsEnd(c)
  <2>1. t.scope \in {"stats", "all_stats"} /\ To(c, "ended") /\ seen' = seen
    BY <1>6 DEF StatsEnd, Return
  <2>2. ReaderIs(Now("ended"), seen[c])
    BY <1>2, <2>1 DEF ReaderIs
  <2> QED
    BY <1>3, <2>1, <2>2
<1>7. CASE Leave(c)
  <2>1. To(c, "cut") /\ seen' = seen
    BY <1>7 DEF Leave, Return
  <2>2. ReaderIs(Now("cut"), seen[c])
    BY <1>2, ClosedIs DEF Closed
  <2> QED
    BY <1>3, <2>1, <2>2
<1> QED
  BY <1>4, <1>5, <1>6, <1>7 DEF Stream

\* A client that asks has received nothing, and no other step of its is a reader's.
LEMMA ClientReads == ASSUME SlotsInv, EngineInv, ReadersInv, NEW c \in Clients, Client(c) PROVE ReadersInv'
<1>1. \A d \in Deploys : Moves(d)
  BY ClientEngine
<1>2. \A k, events : ReaderIs(k, events) => ReaderIs(k, events)'
  BY <1>1, ReaderStays
<1>3. CASE conn' = conn /\ seen' = seen
  <2>1. \A d \in Clients : ReaderIs(conn[d], seen[d])'
    BY <1>2, <1>3 DEF ReadersInv
  <2> QED
    BY <1>3, <2>1 DEF ReadersInv
<1>4. ASSUME NEW t, Asks(c, t) PROVE ReadersInv'
  <2>1. conn[c].pc = "none" /\ seen[c] = <<>> /\ conn = [d \in Clients |-> conn[d]]
    BY <1>4 DEF Asks, Unasked, SlotsInv, ConnTyped, ReadersInv, ReaderIs
  <2>2. seen' = seen /\ (\A d \in Clients : d # c => conn'[d] = conn[d])
        /\ (conn'[c] = Asked(t) \/ conn'[c] = [Asked(t) EXCEPT !.pc = "cut"])
    BY <1>4, <2>1 DEF Asks
  <2>3. ReaderIs(conn'[c], seen[c])
    <3>1. CASE conn'[c] = Asked(t)
      BY <2>1, <3>1 DEF Asked, ReaderIs
    <3>2. CASE conn'[c] = [Asked(t) EXCEPT !.pc = "cut"]
      BY <3>2, ClosedIs DEF Asked, Closed
    <3> QED
      BY <2>2, <3>1, <3>2
  <2>4. \A d \in Clients : ReaderIs(conn'[d], seen'[d])
    BY <2>2, <2>3 DEF ReadersInv
  <2>5. Reads(c)
    BY <1>4, <2>2, <2>3 DEF Reads, Asks, engine, ReadersInv
  <2> QED
    BY <2>5, ReadsKeeps
<1>5. (conn' = conn /\ seen' = seen) \/ \E t : Asks(c, t)
  <2>1. CASE AskForDeploy(c) \/ AskForLogs(c) \/ AskForWeb(c)
    BY <2>1 DEF AskForDeploy, AskForLogs, AskForWeb
  <2>2. CASE Upload(c) \/ Accepted(c) \/ MintForDeploy(c) \/ Poll(c) \/ Begin(c) \/ MintForWeb(c) \/ Follows(c)
    BY <2>2 DEF Upload, Accepted, MintForDeploy, Poll, Begin, MintForWeb, Follows, server
  <2> QED
    BY <2>1, <2>2 DEF Client
<1> QED
  BY <1>3, <1>4, <1>5

\* A death cuts what is under way.
LEMMA DieReads == ASSUME SlotsInv, EngineInv, ReadersInv, Die PROVE ReadersInv'
<1>1. \A d \in Deploys : Moves(d)
  BY DieKeeps
<1>2. seen' = seen /\ conn' = [c \in Clients |-> IF conn[c].pc \in {"none", "ended", "refused"} THEN conn[c]
                                                ELSE [conn[c] EXCEPT !.pc = "cut"]]
  BY DEF Die
<1>3. ASSUME NEW c \in Clients PROVE ReaderIs(conn'[c], seen[c])
  <2>1. CASE conn[c].pc \in {"none", "ended", "refused"}
    BY <1>2, <2>1 DEF ReadersInv
  <2>2. CASE conn[c].pc \notin {"none", "ended", "refused"}
    <3>1. conn[c] = [pc |-> conn[c].pc, target |-> conn[c].target, offset |-> conn[c].offset, taken |-> conn[c].taken]
      BY <2>2 DEF ReadersInv, ReaderIs
    <3>2. conn'[c] = [pc |-> "cut", target |-> conn[c].target, offset |-> conn[c].offset, taken |-> conn[c].taken]
      BY <1>2, <2>2, <3>1
    <3> QED
      BY <3>2, ClosedIs DEF Closed
  <2> QED
    BY <2>1, <2>2
<1>4. \A k, events : ReaderIs(k, events) => ReaderIs(k, events)'
  BY <1>1, ReaderStays
<1>5. \A c \in Clients : ReaderIs(conn[c], seen[c])'
  BY <1>2, <1>3, <1>4
<1> QED
  BY <1>2, <1>5 DEF ReadersInv

\* The invariant holds at the start.
LEMMA ReadersStart == ASSUME Init PROVE ReadersInv
<1>1. conn = [c \in Clients |-> [pc |-> "none"]] /\ seen = [c \in Clients |-> <<>>]
  BY DEF Init, FollowInit
<1>2. \A c \in Clients : ReaderIs(conn[c], seen[c])
  BY <1>1 DEF ReaderIs
<1> QED
  BY <1>1, <1>2 DEF ReadersInv

\* No step breaks it.
LEMMA ReadersSteps == ASSUME SlotsInv, EngineInv, ReadersInv, [Next]_vars PROVE ReadersInv'
<1>1. \A d \in Deploys : Moves(d)
  BY EngineSteps
<1>2. \A k, events : ReaderIs(k, events) => ReaderIs(k, events)'
  BY <1>1, ReaderStays
<1>3. CASE conn' = conn /\ seen' = seen
  <2>1. \A d \in Clients : ReaderIs(conn[d], seen[d])'
    BY <1>2, <1>3 DEF ReadersInv
  <2> QED
    BY <1>3, <2>1 DEF ReadersInv
<1>4. ASSUME NEW c \in Clients, Handler(c) \/ Stream(c) PROVE ReadersInv'
  BY <1>4, HandlerReads, StreamReads, ReadsKeeps
<1>5. ASSUME (\E c \in Clients : Expire(c)) \/ (\E d \in Deploys : Goroutine(d))
             \/ (\E u \in Users : Disable(u)) \/ DeleteApp \/ Boot \/ UNCHANGED followVars
      PROVE  conn' = conn /\ seen' = seen
  BY <1>5 DEF Expire, Goroutine, Disable, DeleteApp, Boot, followVars, server
<1> QED
  BY <1>3, <1>4, <1>5, ClientReads, DieReads DEF Next, FollowNext, vars

\* The invariants say what was promised.
LEMMA WholeEnough == ASSUME EngineInv, ReadersInv PROVE LogWhole
<1>1. ASSUME NEW d \in Deploys PROVE FileWhole(d)
  BY DEF EngineInv, FileInv, FileWhole, Untouched, Filled
<1>2. ASSUME NEW c \in Clients, conn[c].pc = "ended", conn[c].target.scope = "build_log" PROVE BuildWhole(c)
  BY <1>2 DEF ReadersInv, ReaderIs, BuildWhole, Number
<1>3. ASSUME NEW c \in Clients, conn[c].pc = "ended", conn[c].target.scope = "app_logs" PROVE ContainerWhole(c)
  BY <1>3 DEF ReadersInv, ReaderIs, ContainerWhole
<1> QED
  BY <1>1, <1>2, <1>3 DEF LogWhole

\* A log that the server brought to its end was delivered whole: a build's file
\* with what was written between the last look at it and the change of the
\* status (streamBuildLogSSE), a container's lines however podman framed them
\* (DemuxLogs), and the file itself is the output up to the cap, whatever pieces
\* the build wrote it in (limitedLogWriter).
THEOREM LogsArriveWhole == Spec => []LogWhole
<1>1. Init => SlotsInv /\ EngineInv /\ ReadersInv
  BY SlotsStart, EngineStart, ReadersStart
<1>2. SlotsInv /\ EngineInv /\ ReadersInv /\ [Next]_vars => (SlotsInv /\ EngineInv /\ ReadersInv)'
  BY SlotsSteps, EngineSteps, ReadersSteps
<1>3. EngineInv /\ ReadersInv => LogWhole
  BY WholeEnough
<1> QED
  BY <1>1, <1>2, <1>3, PTL DEF Spec
=============================================================================
