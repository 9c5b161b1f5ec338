----------------------------- MODULE Retention -----------------------------
(***************************************************************************)
(* What stays of the builds of an app (internal/deploy/deploy.go): each    *)
(* build leaves an image tagged with its deployment's number and a log; a  *)
(* rollout that ends well prunes both down to the newest, the image that   *)
(* runs apart, and a rollback needs the image of the deployment it names.  *)
(*                                                                         *)
(* Abstracted: one app, whose deploys come one after the other; how a      *)
(* rollout cuts over (Rollout); tags without a number, which are left      *)
(* alone. podman may refuse to remove a tag, and need not for one in use:  *)
(* an image may have another tag.                                          *)
(***************************************************************************)
EXTENDS Integers, FiniteSets, Sequences

CONSTANTS Keep,        \* retainBuiltImages, and retainBuildLogs
          MaxNumber    \* deployments in a behaviour

ASSUME RetentionAssumption == Keep \in Nat

VARIABLES
    history,   \* the rows of the app, by number: [image, status]
    tags,      \* the numbers of <slug>:<n> that podman has
    logs,      \* the build logs on disk
    running,   \* the tag that the app's container was made from, or NoTag
    job,       \* the deploy under way: [pc, number]
    left,      \* history: tags that have stayed where the code wanted or knew none
    logged     \* history: the builds that opened a log

retentionVars == <<history, tags, logs, running, job, left, logged>>

\* No tag yet, none at all, or the reference of a registry.
NoTag == 0
NoJob == [pc |-> "none", number |-> 0]
Current == job.number
At(pc) == job.pc = pc
Image == IF At("none") THEN NoTag ELSE history[Current].image
Onto(pc) == job' = [job EXCEPT !.pc = pc]

\* leftover: the tags of an app of the same name that was deleted, which
\* handleDeleteApp leaves where they are; it removes the logs.
RetentionInit(leftover) ==
    /\ history = <<>>
    /\ tags = leftover /\ left = leftover
    /\ logs = {} /\ logged = {}
    /\ running = NoTag
    /\ job = NoJob

\* The highest numbers of a set.
Newest(numbers) == {n \in numbers : Cardinality({m \in numbers : m > n}) < Keep}

----------------------------------------------------------------------------
(* Deploys.                                                                *)

\* CreateDeploymentFull.
Created(image, pc) ==
    /\ At("none") /\ Len(history) < MaxNumber
    /\ history' = Append(history, [image |-> image, status |-> "deploying"])
    /\ job' = [pc |-> pc, number |-> Len(history) + 1]
    /\ UNCHANGED <<tags, logs, running, left, logged>>

StartBuild == Created(NoTag, "build")
StartImage == Created(NoTag, "roll")

\* Rollback: a healthy deployment, whose image is there or can be pulled.
Rollback(n) ==
    /\ history[n].status = "healthy"
    /\ history[n].image \in tags \cup {NoTag}
    /\ Created(history[n].image, "roll")

Ended(status) ==
    /\ history' = [history EXCEPT ![Current].status = status]
    /\ job' = NoJob

\* BuildPrepared fails, before it has opened the log or after; podman may have
\* tagged the image all the same.
BuildFails(opened, tagged) ==
    /\ At("build")
    /\ logs' = logs \cup opened /\ logged' = logged \cup opened
    /\ tags' = tags \cup tagged /\ left' = left \cup tagged
    /\ Ended("failed")
    /\ UNCHANGED running

Build ==
    /\ At("build")
    /\ logs' = logs \cup {Current} /\ logged' = logged \cup {Current}
    /\ tags' = tags \cup {Current}
    /\ Onto("record")
    /\ UNCHANGED <<history, running, left>>

\* SetDeploymentImage.
Record ==
    /\ At("record")
    /\ history' = [history EXCEPT ![Current].image = Current]
    /\ Onto("roll")
    /\ UNCHANGED <<tags, logs, running, left, logged>>

\* The manifest's defaults or the tag cannot be stored: fail, without the removal
\* of the image.
Unrecorded ==
    /\ At("record")
    /\ Ended("failed")
    /\ left' = left \cup {Current}
    /\ UNCHANGED <<tags, logs, running, logged>>

\* removeOrphanBuildImage, of a build's image only; the variant removes none.
Orphan_None == {}

Orphan == {Current} \cap {Image}

\* The rollout fails and, with the replace strategy, leaves nothing running.
\* removed: what of the orphan podman removes.
RollFails(removed, runs) ==
    /\ At("roll")
    /\ tags' = tags \ removed
    /\ left' = left \cup (Orphan \ removed)
    /\ running' = runs
    /\ Ended("failed")
    /\ UNCHANGED <<logs, logged>>

\* What the last steps of a rollout start from: the new container is live.
Cutover ==
    /\ At("roll")
    /\ Image \in tags \cup {NoTag}
    /\ running' = Image
    /\ Onto(IF Image = NoTag THEN "finish" ELSE "images")
    /\ UNCHANGED <<history, tags, logs, left, logged>>

\* pruneBuiltImages: all but the newest tags and the one that runs.
Doomed == tags \ (Newest(tags) \cup {Image})

PruneImages(removed) ==
    /\ At("images")
    /\ tags' = tags \ removed
    /\ left' = left \cup (Doomed \ removed)
    /\ Onto(IF Image = Current THEN "logs" ELSE "finish")
    /\ UNCHANGED <<history, logs, running, logged>>

\* pruneBuildLogs, of a deployment that has built.
DoomedLogs == logs \ (Newest(logs) \cup {Current})

PruneLogs(removed) ==
    /\ At("logs")
    /\ logs' = logs \ removed
    /\ Onto("finish")
    /\ UNCHANGED <<history, tags, running, left, logged>>

\* FinishDeployment, whose error is logged: the row stays as it is.
FinishRow(status) ==
    /\ At("finish")
    /\ Ended(status)
    /\ left' = IF status = "healthy" THEN left ELSE left \cup ({Current} \cap tags)
    /\ UNCHANGED <<tags, logs, running, logged>>

\* The process dies: the next boot sweeps the row, or leaves it "deploying" while its
\* container runs, which is the same here: it is not healthy.
Dies(runs) ==
    /\ ~At("none")
    /\ Ended("failed")
    /\ left' = left \cup ({Current} \cap tags)
    /\ running' = runs
    /\ UNCHANGED <<tags, logs, logged>>

RetentionNext ==
    \/ StartBuild \/ StartImage
    \/ \E n \in DOMAIN history : Rollback(n)
    \/ \E opened, tagged \in SUBSET {Current} : BuildFails(opened, tagged)
    \/ Build \/ Record \/ Unrecorded
    \/ \E removed \in SUBSET Orphan, runs \in {running, NoTag} : RollFails(removed, runs)
    \/ Cutover
    \/ \E removed \in SUBSET Doomed : PruneImages(removed)
    \/ \E removed \in SUBSET DoomedLogs : PruneLogs(removed)
    \/ \E status \in {"healthy", "deploying"} : FinishRow(status)
    \/ \E runs \in {running, NoTag} : Dies(runs)

----------------------------------------------------------------------------
\* The images of the healthy builds, and what else has a place among the tags.
Healthy == {n \in DOMAIN history : history[n] = [image |-> n, status |-> "healthy"]}

\* Between deploys: the image that runs is still tagged; a build that became
\* healthy can be rolled back to unless as many newer tags as are kept were
\* healthy too or have stayed behind where they should have gone; besides
\* those that have, no more than are kept and the running one are there; and a
\* log is gone only when as many newer builds have logged (pruneBuiltImages, pruneBuildLogs and
\* removeOrphanBuildImage: failed builds take no place of an image).
RollbacksKept ==
    At("none") =>
        /\ running # NoTag => running \in tags
        /\ \A n \in Healthy \ tags : Keep <= Cardinality({m \in Healthy \cup left : m > n})
        /\ Cardinality(tags \ left) <= Keep + 1
        /\ \A n \in logged \ logs : Keep <= Cardinality({m \in logged : m > n})
=============================================================================
