------------------------------- MODULE Follow -------------------------------
(***************************************************************************)
(* Following a deploy: the log a build writes while it runs, the streams   *)
(* that carry it and the containers' logs and stats to clients             *)
(* (internal/api/logs.go, stats.go, allstats.go), the tokens that open     *)
(* them (stream_token.go), and the clients: `basepod deploy`, which        *)
(* uploads, follows the log and polls for the outcome, `basepod logs`, and *)
(* the dashboard (internal/cli/commands.go).                               *)
(*                                                                         *)
(* Abstracted: one app, whose slug all tokens name; every client does one  *)
(* thing; where a build waits and what its rollout does (BuildQueue and    *)
(* Rollout have both), of which only the outcome is left here; heartbeats; *)
(* the samples of stats streams. A container's log ends wherever podman    *)
(* ends it, and a frame cut short is no frame.                             *)
(***************************************************************************)
EXTENDS LogText, FiniteSets

CONSTANTS Clients, Users,
          MaxDeploys,   \* deployments in a behaviour, numbered from 1
          Settings,     \* what a behaviour starts from, see setting
          Outputs,      \* what builds print: [warnings, writes]
          Frames        \* the frames of a container's log

ASSUME FollowAssumption ==
    /\ IsFiniteSet(Clients)
    /\ \A s \in Settings : s.owner \in [Clients -> Users] /\ s.limit \in [user : Nat, total : Nat]
    /\ Outputs \subseteq [warnings : Text, writes : Seq(Text)]
    /\ Frames \in Seq(Frame)

VARIABLES
    setting,   \* fixed in a behaviour:
               \*   role    what each client does: deploy, logs, web, none, or edit, login or release (in Cli)
               \*   owner   whose session it has
               \*   targets what streams are opened: [scope, number]
               \*   earlier how many deployments are over
               \*   limit   [user, total]: the caps of the streamLimiter
               \*   faults  of die, delete, finish (a write of a status or of a path fails,
               \*           or the boot's calls), leave, disable, expire, which can happen
    up,        \* the process: up, down, or restarted
    app,       \* whether the app exists
    active,    \* the users that are not disabled
    row,       \* each deployment's status, none before it exists, gone with its app
    path,      \* the deployments whose build_log_path is set
    log,       \* each deployment's log file: [text, there]
    build,     \* each deployment's goroutine: [pc, left, out]; stranded when it
               \* is over and its container may run without a row that says so
    token,     \* each client's row of stream_tokens, or NoToken
    slots,     \* the streamLimiter: [perUser, total]
    source,    \* the clients whose stream holds a file or a podman log open
    conn,      \* each client's stream: [pc, target, offset]
    seen,      \* what its client has received
    cli        \* each client: [pc, number, result]

server == <<slots, source, conn, seen>>
engine == <<row, path, log, build>>
users == <<active, token>>
followVars == <<setting, up, app, users, engine, server, cli>>

Deploys == 1..MaxDeploys
Earlier == {d \in Deploys : d <= setting.earlier}
NoToken == [target |-> "none"]
Up == up # "down"
Role(c) == setting.role[c]
Owner(c) == setting.owner[c]
May(fault) == fault \in setting.faults

FollowInit ==
    /\ setting \in Settings
    /\ up = "up" /\ app = TRUE /\ active = Users
    /\ row = [d \in Deploys |-> IF d \in Earlier THEN "healthy" ELSE "none"]
    /\ path = Earlier
    /\ \E o \in Outputs :
         /\ build = [d \in Deploys |-> IF d \in Earlier THEN [pc |-> "over", left |-> <<>>, out |-> Joined(o.writes)]
                                        ELSE [pc |-> "none", left |-> <<>>, out |-> <<>>]]
         /\ log = [d \in Deploys |-> IF d \in Earlier
                       THEN [text |-> o.warnings \o Capped(Joined(o.writes)), there |-> TRUE]
                       ELSE [text |-> <<>>, there |-> FALSE]]
    /\ token = [c \in Clients |-> NoToken]
    /\ slots = [perUser |-> [u \in Users |-> 0], total |-> 0]
    /\ source = {}
    /\ conn = [c \in Clients |-> [pc |-> "none"]]
    /\ seen = [c \in Clients |-> <<>>]
    /\ cli = [c \in Clients |-> [pc |-> IF setting.role[c] \in {"edit", "login", "release", "none"} THEN "done" ELSE "start", number |-> 0, result |-> "none"]]

----------------------------------------------------------------------------
(* The deploy goroutine: its build, the log it writes, its last word.      *)

Goes(d, pc) == build' = [build EXCEPT ![d].pc = pc]

\* createLog and the warnings, or anything that fails before them.
OpenLog(d) ==
    /\ build[d].pc = "queued"
    /\ \/ \E o \in Outputs :
            /\ build' = [build EXCEPT ![d] = [pc |-> "building", left |-> o.writes, out |-> <<>>]]
            /\ log' = [log EXCEPT ![d] = [text |-> o.warnings, there |-> TRUE]]
       \/ Goes(d, "failing") /\ UNCHANGED log
    /\ UNCHANGED <<row, path>>

\* A write of what the build prints.
Write(d) ==
    /\ build[d].pc = "building" /\ build[d].left # <<>>
    /\ LET p == Head(build[d].left)
           before == build[d].out
       IN  /\ log' = [log EXCEPT ![d].text =
                        Limited(@, IF Len(before) < Cap THEN Len(before) ELSE Cap, p)]
           /\ build' = [build EXCEPT ![d].left = Tail(@), ![d].out = @ \o p]
    /\ UNCHANGED <<row, path>>

\* BuildImage returns, at its end or with an error (the deadline's, too), and
\* the log is closed.
Built(d) ==
    /\ build[d].pc = "building"
    /\ \/ build[d].left = <<>> /\ Goes(d, "rolling")
       \/ Goes(d, "failing")
    /\ UNCHANGED <<row, path, log>>

\* FinishDeployment, by the rollout or by fail; no row is left to write when
\* the app is gone.
Decided(d, status) == row' = [row EXCEPT ![d] = IF @ = "deploying" THEN status ELSE @]

\* A write that fails leaves the row "deploying", and a rollout's container.
Finish(d) ==
    /\ build[d].pc \in {"rolling", "failing"}
    /\ \/ /\ \E status \in IF build[d].pc = "rolling" THEN {"healthy", "failed"} ELSE {"failed"} : Decided(d, status)
          /\ Goes(d, "over")
       \/ /\ May("finish") /\ UNCHANGED row
          /\ Goes(d, "over") \/ (build[d].pc = "rolling" /\ Goes(d, "stranded"))
    /\ UNCHANGED <<path, log>>

Goroutine(d) ==
    /\ Up
    /\ OpenLog(d) \/ Write(d) \/ Built(d) \/ Finish(d)
    /\ UNCHANGED <<setting, up, app, users, server, cli>>

----------------------------------------------------------------------------
(* The streams.                                                            *)

OpenPcs == {"tail", "tick", "last", "frames"}
Open == {c \in Clients : conn[c].pc \in OpenPcs}
To(c, pc) == conn' = [conn EXCEPT ![c].pc = pc]
Number(c) == conn[c].target.number

\* streamLimiter.acquire.
Free(u) == slots.total < setting.limit.total /\ slots.perUser[u] < setting.limit.user

Taken(u) == [perUser |-> [slots.perUser EXCEPT ![u] = @ + 1], total |-> slots.total + 1]

Released(u) == [perUser |-> [slots.perUser EXCEPT ![u] = @ - 1], total |-> slots.total - 1]

\* A stream's handler returns: its deferred calls give all of it back.
Return(c, how) ==
    /\ To(c, how)
    /\ slots' = Released(Owner(c))
    /\ source' = source \ {c}

Pruned == [c \in Clients |-> IF token[c] # NoToken /\ ~token[c].live THEN NoToken ELSE token[c]]

\* validateStreamToken: the token of this client is for the stream it asks for.
Valid(c) == Pruned[c] # NoToken /\ Pruned[c].target = conn[c].target

\* validateToken: a disabled user has no session; a token outlives the sessions.
HasSession(c) == Owner(c) \in active

\* requireAuthSSE: a session in the header or a token in the query, and
\* Authorize, which refuses a disabled user. Variant: it is not asked.
Admits_AnyUser(c) == IF Role(c) = "web" THEN Valid(c) ELSE HasSession(c)

Admits(c) == (IF Role(c) = "web" THEN Valid(c) ELSE HasSession(c)) /\ Owner(c) \in active

Authenticate(c) ==
    /\ conn[c].pc = "asked"
    /\ To(c, IF Admits(c) THEN "lookup" ELSE "refused")
    /\ token' = IF Role(c) = "web" THEN Pruned ELSE token
    /\ UNCHANGED <<slots, source, seen>>

Looks(c, scope) == conn[c].pc = "lookup" /\ conn[c].target.scope = scope

\* handleDeploymentLog: by the status the row has now, a stream or the file.
LookupBuild(c) ==
    LET d == Number(c)
    IN  /\ Looks(c, "build_log")
        /\ IF row[d] \notin {"none", "gone"} /\ d \in path
           THEN IF row[d] = "deploying" THEN To(c, "slot") /\ UNCHANGED seen
                ELSE IF log[d].there THEN To(c, "ended") /\ seen' = [seen EXCEPT ![c] = <<log[d].text>>]
                ELSE To(c, "refused") /\ UNCHANGED seen
           ELSE To(c, "refused") /\ UNCHANGED seen
        /\ UNCHANGED <<slots, source>>

\* The routes of a container open their source before they ask for a slot:
\* podman may refuse it, and an app need not have a container that runs.
Sourced(c) ==
    /\ \/ To(c, "slot") /\ source' = source \cup {c}
       \/ To(c, "refused") /\ UNCHANGED source
    /\ UNCHANGED <<slots, seen>>

NoApp(c) == ~app /\ To(c, "refused") /\ UNCHANGED <<slots, source, seen>>

LookupLogs(c) == Looks(c, "app_logs") /\ (NoApp(c) \/ (app /\ Sourced(c)))

LookupStats(c) == Looks(c, "stats") /\ (NoApp(c) \/ (app /\ Sourced(c)))

\* Needs no app.
LookupAllStats(c) == Looks(c, "all_stats") /\ Sourced(c)

\* acquireStreamSlot, and 503 when there is none: what was opened is closed.
\* Variant: it is not.
Slot_Leaks(c) ==
    /\ conn[c].pc = "slot"
    /\ IF Free(Owner(c))
       THEN To(c, IF conn[c].target.scope = "build_log" THEN "tail" ELSE "frames") /\ slots' = Taken(Owner(c))
       ELSE To(c, "refused") /\ UNCHANGED slots
    /\ UNCHANGED <<source, seen>>

Slot(c) ==
    /\ conn[c].pc = "slot"
    /\ IF Free(Owner(c))
       THEN /\ To(c, IF conn[c].target.scope = "build_log" THEN "tail" ELSE "frames")
            /\ slots' = Taken(Owner(c)) /\ UNCHANGED source
       ELSE To(c, "refused") /\ source' = source \ {c} /\ UNCHANGED slots
    /\ UNCHANGED seen

\* ensureOpen and drain: what the file holds beyond what was read. A file
\* opened before it was removed stays readable.
Readable(c) == c \in source \/ log[Number(c)].there
New(c) == IF Readable(c) THEN SubSeq(log[Number(c)].text, conn[c].offset + 1, Len(log[Number(c)].text)) ELSE <<>>

TailFile(c) ==
    /\ conn[c].pc = "tail"
    /\ seen' = [seen EXCEPT ![c] = @ \o Drain(New(c))]
    /\ conn' = [conn EXCEPT ![c].pc = "tick", ![c].offset = @ + Len(New(c))]
    /\ source' = IF Readable(c) THEN source \cup {c} ELSE source
    /\ UNCHANGED slots

\* The ticker: no row, or a status that is not "deploying", is the end.
\* Variant: a row that is gone is not.
Over_KnownStatus(d) == row[d] \in {"healthy", "failed"}

Over(d) == row[d] # "deploying"

Tick(c) ==
    /\ conn[c].pc = "tick"
    /\ To(c, IF Over(Number(c)) THEN "last" ELSE "tail")
    /\ UNCHANGED <<slots, source, seen>>

\* The final drain; variant: without it.
LastRead_None(c) ==
    /\ conn[c].pc = "last"
    /\ Return(c, "ended")
    /\ UNCHANGED seen

LastRead(c) ==
    /\ conn[c].pc = "last"
    /\ seen' = [seen EXCEPT ![c] = @ \o Drain(New(c))]
    /\ Return(c, "ended")

\* DemuxLogs reads a frame and the writer sends its lines. conn.taken are the
\* whole frames read; the unfinished lines are what is left of them.
ReadFrame(c) ==
    /\ conn[c].pc = "frames" /\ conn[c].target.scope = "app_logs"
    /\ Len(conn[c].taken) < Len(Frames)
    /\ LET f == Frames[Len(conn[c].taken) + 1]
       IN  /\ conn' = [conn EXCEPT ![c].taken = Append(@, f)]
           /\ seen' = [seen EXCEPT ![c] = @ \o Demux(Unfinished(conn[c].taken), f).emitted]
    /\ UNCHANGED <<slots, source>>

\* podman ends the source: unfinished lines are flushed, in either order.
LogsEnd(c) ==
    /\ conn[c].pc = "frames" /\ conn[c].target.scope = "app_logs"
    /\ \E first \in Streams, last \in Streams :
         /\ first # last
         /\ LET rest == Unfinished(conn[c].taken)
            IN  seen' = [seen EXCEPT ![c] = @ \o On(first, Flush(rest[first])) \o On(last, Flush(rest[last]))]
    /\ Return(c, "ended")

\* The same for the samples of a container, or of all.
StatsEnd(c) ==
    /\ conn[c].pc = "frames" /\ conn[c].target.scope \in {"stats", "all_stats"}
    /\ Return(c, "ended")
    /\ UNCHANGED seen

\* The client goes; a stream notices it where it waits.
Leave(c) ==
    /\ May("leave")
    /\ conn[c].pc \in {"tick", "frames"}
    /\ Return(c, "cut")
    /\ UNCHANGED seen

\* What the handler does by itself; the rest is podman's and the client's.
Handler(c) ==
    /\ Up
    /\ \/ Authenticate(c)
       \/ /\ \/ LookupBuild(c) \/ LookupLogs(c) \/ LookupStats(c) \/ LookupAllStats(c)
             \/ Slot(c) \/ TailFile(c) \/ Tick(c) \/ LastRead(c)
          /\ UNCHANGED token
    /\ UNCHANGED <<setting, up, app, active, engine, cli>>

Stream(c) ==
    /\ Up
    /\ ReadFrame(c) \/ LogsEnd(c) \/ StatsEnd(c) \/ Leave(c)
    /\ UNCHANGED <<setting, up, app, users, engine, cli>>

----------------------------------------------------------------------------
(* The clients. A request that gets no answer fails: the process is down.  *)

Says(c, pc) == cli' = [cli EXCEPT ![c].pc = pc]
Ends(c, result) == cli' = [cli EXCEPT ![c].pc = "done", ![c].result = result]
Session(c) == Up /\ Owner(c) \in active
Asked(target) == [pc |-> "asked", target |-> target, offset |-> 0, taken |-> <<>>]
LogOf(c) == [scope |-> "build_log", number |-> cli[c].number]

\* POST deploy/tarball: a row, or an error before there is one.
Upload(c) ==
    /\ Role(c) = "deploy" /\ cli[c].pc = "start"
    /\ \/ /\ Session(c) /\ app
          /\ \E d \in Deploys :
               /\ row[d] = "none" /\ \A e \in Deploys : e < d => row[e] # "none"
               /\ row' = [row EXCEPT ![d] = "deploying"]
               /\ cli' = [cli EXCEPT ![c].pc = "created", ![c].number = d]
       \/ Ends(c, "error") /\ UNCHANGED row
    /\ UNCHANGED <<users, server, path, log, build>>

\* createBuildDeployment goes on to record the path and to mark the app; then
\* DeployBuildAsync starts the goroutine and the request is answered.
Recorded(d) == path' = path \cup {d} \/ (May("finish") /\ UNCHANGED path)

Started(d) == Goes(d, "queued") /\ UNCHANGED row

\* The app is not marked: fail() ends the row, unless that write fails too.
Unmarked(d) == May("finish") /\ Goes(d, "over") /\ (Decided(d, "failed") \/ UNCHANGED row)

Accepted(c) ==
    /\ Up /\ cli[c].pc = "created"
    /\ Recorded(cli[c].number)
    /\ \/ Started(cli[c].number) /\ Says(c, "mint")
       \/ Unmarked(cli[c].number) /\ Ends(c, "error")
    /\ UNCHANGED <<users, server, log>>

\* `basepod logs` opens its stream with the session; the dashboard mints a token.
Begin(c) ==
    /\ cli[c].pc = "start"
    /\ \/ Role(c) = "logs" /\ Says(c, "open")
       \/ Role(c) = "web" /\ Says(c, "mint")
    /\ UNCHANGED <<users, server, engine>>

\* handleCreateStreamToken: the app exists, and the deployment it names.
Exists(t) == CASE t.scope = "all_stats" -> TRUE
               [] t.scope = "build_log" -> row[t.number] \notin {"none", "gone"}
               [] OTHER -> app

\* CreateStreamToken.
Minted(c, t) == token' = [token EXCEPT ![c] = [target |-> t, live |-> TRUE]]

\* The follow of a deploy goes on to poll when it gets no token or no stream.
MintForDeploy(c) ==
    /\ Role(c) = "deploy" /\ cli[c].pc = "mint"
    /\ IF Session(c) /\ Exists(LogOf(c)) THEN Minted(c, LogOf(c)) /\ Says(c, "open")
       ELSE Says(c, "poll") /\ UNCHANGED token
    /\ UNCHANGED <<active, server, engine>>

MintForWeb(c) ==
    /\ Role(c) = "web" /\ cli[c].pc = "mint"
    /\ \E t \in setting.targets :
         IF Session(c) /\ Exists(t) THEN Minted(c, t) /\ Says(c, "open")
         ELSE Says(c, "done") /\ UNCHANGED token
    /\ UNCHANGED <<active, server, engine>>

\* GET of a stream.
Asks(c, target) ==
    /\ cli[c].pc = "open"
    /\ Says(c, "follow")
    /\ conn' = [conn EXCEPT ![c] = IF Up THEN Asked(target) ELSE [Asked(target) EXCEPT !.pc = "cut"]]
    /\ UNCHANGED <<users, slots, source, seen, engine>>

AskForDeploy(c) == Role(c) = "deploy" /\ Asks(c, LogOf(c))

AskForLogs(c) == Role(c) = "logs" /\ Asks(c, [scope |-> "app_logs", number |-> 0])

\* A token is not always used for what it was minted for.
AskForWeb(c) == Role(c) = "web" /\ \E t \in setting.targets : Asks(c, t)

\* The body has ended, or there was none.
Follows(c) ==
    /\ cli[c].pc = "follow" /\ conn[c].pc \in {"ended", "refused", "cut"}
    /\ Says(c, IF Role(c) = "deploy" THEN "poll" ELSE "done")
    /\ UNCHANGED <<users, server, engine>>

\* GET of the deployment.
Snapshot(c) == IF ~Session(c) \/ row[cli[c].number] = "gone" THEN "error" ELSE row[cli[c].number]

\* pollDeploymentUntilTerminal: an error ends it, "deploying" does not.
Poll(c) ==
    /\ cli[c].pc = "poll"
    /\ Snapshot(c) # "deploying"
    /\ Ends(c, Snapshot(c))
    /\ UNCHANGED <<users, server, engine>>

Client(c) ==
    /\ \/ Upload(c) \/ Accepted(c) \/ MintForDeploy(c) \/ AskForDeploy(c) \/ Poll(c)
       \/ Begin(c) \/ AskForLogs(c) \/ MintForWeb(c) \/ AskForWeb(c) \/ Follows(c)
    /\ UNCHANGED <<setting, up, app>>

----------------------------------------------------------------------------
(* The rest of the system.                                                 *)

\* handleDeleteApp: the rows and the app's files are removed; goroutines and
\* open files remain.
DeleteApp ==
    /\ May("delete") /\ Up /\ app
    /\ app' = FALSE
    /\ row' = [d \in Deploys |-> IF row[d] = "none" THEN "none" ELSE "gone"]
    /\ path' = {}
    /\ log' = [d \in Deploys |-> [log[d] EXCEPT !.there = FALSE]]
    /\ UNCHANGED <<setting, up, users, build, server, cli>>

\* A disabled user's sessions are deleted; tokens and open streams are not.
Disable(u) ==
    /\ May("disable") /\ Up /\ u \in active
    /\ active' = active \ {u}
    /\ UNCHANGED <<setting, up, app, token, engine, server, cli>>

\* streamTokenDuration passes.
Expire(c) ==
    /\ May("expire")
    /\ token[c] # NoToken /\ token[c].live
    /\ token' = [token EXCEPT ![c].live = FALSE]
    /\ UNCHANGED <<setting, up, app, active, engine, server, cli>>

\* Streams and goroutines end with the process, and a request under way fails. A
\* rollout has its container, or not.
Die ==
    /\ May("die") /\ up = "up"
    /\ up' = "down"
    /\ \E left \in SUBSET {d \in Deploys : build[d].pc = "rolling"} :
          build' = [d \in Deploys |-> [build[d] EXCEPT !.pc = IF @ \in {"none", "stranded"} THEN @
                                                              ELSE IF d \in left THEN "stranded" ELSE "over"]]
    /\ conn' = [c \in Clients |-> IF conn[c].pc \in {"none", "ended", "refused"} THEN conn[c]
                                  ELSE [conn[c] EXCEPT !.pc = "cut"]]
    /\ slots' = [perUser |-> [u \in Users |-> 0], total |-> 0]
    /\ source' = {}
    /\ cli' = [c \in Clients |-> IF cli[c].pc = "created" THEN [cli[c] EXCEPT !.pc = "done", !.result = "error"]
                                 ELSE cli[c]]
    /\ UNCHANGED <<setting, app, users, row, path, log, seen>>

\* CleanupOrphans removes a container without a healthy row, unless the app has
\* no such row at all.
Stranded(d) == build[d].pc = "stranded" /\ \A e \in Deploys : row[e] # "healthy"

\* SweepStuckDeployments: a row whose container runs is left alone, and so is
\* one behind a call that fails.
Boot ==
    /\ up = "down"
    /\ up' = "restarted"
    /\ \E alone \in SUBSET {d \in Deploys : Stranded(d) \/ May("finish")} :
          row' = [d \in Deploys |-> IF row[d] = "deploying" /\ d \notin alone THEN "failed" ELSE row[d]]
    /\ UNCHANGED <<setting, app, users, path, log, build, server, cli>>

FollowNext ==
    \/ \E c \in Clients : Client(c) \/ Handler(c) \/ Stream(c) \/ Expire(c)
    \/ \E d \in Deploys : Goroutine(d)
    \/ \E u \in Users : Disable(u)
    \/ DeleteApp \/ Die \/ Boot

(* A handler, a goroutine (under its deadline) and a client go on by       *)
(* themselves, and the process is started again; a container's log need    *)
(* never end.                                                              *)
FollowFairness ==
    /\ \A c \in Clients : WF_followVars(Client(c)) /\ WF_followVars(Handler(c))
    /\ \A d \in Deploys : WF_followVars(Goroutine(d))
    /\ WF_followVars(Boot)

----------------------------------------------------------------------------
(* Properties.                                                             *)

\* The log of a build is its warnings and its output, up to the cap, with the
\* notice where it was cut (limitedLogWriter).
FileWhole(d) ==
    build[d].pc \in {"rolling", "failing", "over", "stranded"} /\ log[d].there =>
        \E o \in Outputs : log[d].text = o.warnings \o Capped(build[d].out)

\* Everything of a deployment's file, each piece once and in order, whether it
\* was streamed or read at the end (streamBuildLogSSE).
BuildWhole(c) == row[Number(c)] # "gone" => Said(seen[c]) = Said(<<log[Number(c)].text>>)

\* Each stream's lines, whole and in order, however podman framed them (DemuxLogs).
ContainerWhole(c) ==
    \A s \in Streams :
        OfStream(seen[c], s) = On(s, Lines(Payload(conn[c].taken, s)))

\* A log that the server brought to its end, rather than the client or a death,
\* was delivered whole: the output that a build writes between the last look
\* at the file and the change of its status included.
LogWhole ==
    /\ \A d \in Deploys : FileWhole(d)
    /\ \A c \in Clients : conn[c].pc = "ended" =>
         CASE conn[c].target.scope = "build_log" -> BuildWhole(c)
           [] conn[c].target.scope = "app_logs" -> ContainerWhole(c)
           [] OTHER -> TRUE

\* The limiter counts exactly the open streams, of each user and in all, and
\* neither exceeds its cap; a file or a podman log is open only for a stream,
\* or for one about to ask for its slot: refusals, ends, disconnects and deaths
\* give everything back (acquireStreamSlot).
SlotsReturned ==
    /\ slots.total = Cardinality(Open) /\ slots.total <= setting.limit.total
    /\ \A u \in Users : /\ slots.perUser[u] = Cardinality({c \in Open : Owner(c) = u})
                        /\ slots.perUser[u] <= setting.limit.user
    /\ source \subseteq Open \cup {c \in Clients : conn[c].pc = "slot"}

\* A stream is opened for a user who is not disabled now, and by a token only
\* when that has not expired and was minted for this very stream
\* (requireAuthSSE, validateStreamToken).
TokenForOne ==
    [][\A c \in Clients : conn[c].pc = "asked" /\ conn'[c].pc = "lookup" =>
            /\ Owner(c) \in active
            /\ Role(c) = "web" => token[c] = [target |-> conn[c].target, live |-> TRUE]]_followVars

\* `basepod deploy` returns, though the app is deleted, the user disabled or the
\* process dies on the way; but for a write of the outcome that fails, and for
\* the row of an app's first deploy that a boot has left alone because its
\* container runs. An outcome it reports is the row's (followDeployment).
FollowEnds ==
    \A c \in Clients :
        (Role(c) = "deploy" /\ ~May("finish") /\ cli[c].pc # "start") ~>
            \/ cli[c].pc = "done" /\ (cli[c].result \in {"healthy", "failed"} => row[cli[c].number] \in {cli[c].result, "gone"})
            \/ up = "restarted" /\ \E d \in Deploys : cli[c].number = d /\ row[d] = "deploying" /\ Stranded(d)
=============================================================================
