----------------------------- MODULE SelfUpdate -----------------------------
(***************************************************************************)
(* The panel replaces its own two containers.                              *)
(*                                                                         *)
(* The page (web/src/maintenance/panel-update-card.tsx) asks the server    *)
(* (server/src/modules/updates) to apply the newest release; its job asks  *)
(* the broker (broker/src/operations.ts), which starts a third container,  *)
(* the updater (broker/src/self-update), and answers.  The updater pulls,  *)
(* writes down how to go back, swaps the server, then the broker, goes     *)
(* back if one does not become healthy, and leaves its verdict in a file   *)
(* for whichever server runs then.                                         *)
(*                                                                         *)
(* A call to Docker is one step, and may fail.  Containers die with what   *)
(* runs in them; the volume with the file and the job rows outlives them.  *)
(* apply refuses while a backup job is active; jobs run one at a time, so  *)
(* the updater starts between two backups with or without that, and        *)
(* backups are left to Backups.tla.                                        *)
(***************************************************************************)
EXTENDS Integers, Sequences, FiniteSets

CONSTANTS MaxVersion,  \* bound: releases 1 .. MaxVersion, newer is greater
          MaxLaunches  \* bound: updaters

ASSUME BoundAssumption == MaxVersion \in Nat \ {0} /\ MaxLaunches \in Nat

VARIABLES
  latest,  \* the newest release there is
  images,  \* images on the host
  box,     \* the two panel containers
  aged,    \* the broker has run for FIRST_SWEEP_DELAY_MS
  file,    \* self-update-result.json
  job,     \* the panel.selfUpdate job: row and what runs of it
  req,     \* panel.selfUpdateApply in the broker
  up,      \* the updater
  page,    \* the page that applied: what it does
  held,    \* the record a last-result request has read and will unlink
  launches,\* history, for MaxLaunches: updaters started
  plan,    \* history: the last rollback plan, while its update has no verdict
  erased   \* history: that plan was on disk, and a reader unlinked it

vars == <<latest, images, box, aged, file, job, req, up, page, held, launches, plan, erased>>
docker == <<latest, images, box, aged>>
ui == <<page, held>>
hist == <<launches, plan, erased>>

Parts == {"server", "broker"}
Versions == 1 .. MaxVersion
Boxes == [img : Versions, st : {"gone", "down", "up", "healthy"}]
Plans == [Parts -> Versions]

\* What is left of the updater's program, a call each.
Ops == [do : {"stop", "remove", "create", "start", "healthy"}, p : Parts, v : Versions]
  \cup [do : {"verdict"}, out : {"success", "rolled-back"}]

NoFile == [phase |-> "none"]
InProgress(to, pl) == [phase |-> "in-progress", to |-> to, plan |-> pl]
Verdict(out, to, pl) == [phase |-> "done", out |-> out, to |-> to, plan |-> pl]
Files ==
  {NoFile} \cup {InProgress(to, pl) : to \in Versions, pl \in Plans}
    \cup {Verdict(out, to, pl) : out \in {"success", "rolled-back", "failed"},
                                 to \in Versions, pl \in Plans}

NoUpdater == [at |-> "none", to |-> 1, own |-> 1, plan |-> [p \in Parts |-> 1], todo |-> <<>>]
NoRequest == [at |-> "none", to |-> 1]

Exists(p) == box[p].st # "gone"
Runs(p) == box[p].st \in {"up", "healthy"}
Found == [p \in Parts |-> box[p].img]

Init ==
  /\ latest = 1
  /\ images = Parts \X {1}
  /\ box = [p \in Parts |-> [img |-> 1, st |-> "healthy"]]
  /\ aged = TRUE
  /\ file = NoFile
  /\ job = "none" /\ req = NoRequest /\ up = NoUpdater
  /\ page = "idle" /\ held = {}
  /\ launches = 0 /\ plan = {} /\ erased = FALSE

-----------------------------------------------------------------------------
(***************************************************************************)
(* Page, server and broker: the way to the updater                         *)
(***************************************************************************)

\* A release is published.
Release ==
  /\ latest < MaxVersion /\ latest' = latest + 1
  /\ UNCHANGED <<images, box, aged, file, job, req, up, ui, hist>>

\* confirmApply, and apply: the newest release, whatever runs.
Apply ==
  /\ page = "idle" /\ Runs("server")
  /\ latest # box["server"].img       \* canApply
  /\ job \in {"none", "succeeded", "failed"} /\ launches < MaxLaunches  \* bounds
  /\ job' = "running" /\ page' = "job"
  /\ UNCHANGED <<docker, file, req, up, held, hist>>

\* performApply: the check refuses, or the broker cannot be reached.
JobRefused ==
  /\ job = "running" /\ job' = "failed"
  /\ UNCHANGED <<docker, file, req, up, ui, hist>>

\* panel.selfUpdateApply arrives.
Ask ==
  /\ job = "running" /\ Runs("broker")
  /\ req = NoRequest /\ launches < MaxLaunches  \* bounds
  /\ job' = "asked" /\ req' = [at |-> "clear", to |-> latest]
  /\ UNCHANGED <<docker, file, up, ui, hist>>

\* launchUpdater: a container of that name is removed, whatever it is doing.
ClearUpdater ==
  /\ req.at = "clear" /\ req' = [req EXCEPT !.at = "launch"]
  /\ up' = NoUpdater
  /\ UNCHANGED <<docker, file, job, ui, hist>>

\* The job, if its server still runs, learns that the updater is started.
Answer(result) == job' = IF job = "asked" THEN result ELSE job

LaunchUpdater ==
  /\ req.at = "launch" /\ req' = NoRequest
  /\ up' = [NoUpdater EXCEPT !.at = "pull", !.to = req.to, !.own = box["broker"].img]
  /\ Answer("succeeded")
  /\ launches' = launches + 1
  /\ UNCHANGED <<docker, file, ui, plan, erased>>

\* One of the broker's calls to Docker fails.
RequestFails ==
  /\ req # NoRequest /\ req' = NoRequest
  /\ Answer("failed")
  /\ UNCHANGED <<docker, file, up, ui, hist>>

-----------------------------------------------------------------------------
(***************************************************************************)
(* The updater: runSelfUpdate                                              *)
(***************************************************************************)

Op(do, p, v) == [do |-> do, p |-> p, v |-> v]
\* stopAndRemove, createAndStart
Recreate(p, v) == <<Op("stop", p, v), Op("remove", p, v), Op("create", p, v), Op("start", p, v)>>
\* recreateAndWaitHealthy
Swap(p, v) == Append(Recreate(p, v), Op("healthy", p, v))
End(out) == <<[do |-> "verdict", out |-> out]>>

\* Both pulled, or the verdict is that nothing was done.
Pull ==
  /\ up.at = "pull"
  /\ images' = images \cup (Parts \X {up.to})
  /\ up' = [up EXCEPT !.at = "capture"]
  /\ UNCHANGED <<latest, box, aged, file, job, req, ui, hist>>

Failed ==
  /\ file' = Verdict("failed", up.to, Found) /\ up' = NoUpdater
  /\ plan' = {} /\ erased' = FALSE
  /\ UNCHANGED <<docker, job, req, ui, launches>>

PullFails == up.at = "pull" /\ Failed
NotFound == up.at = "capture" /\ (\E p \in Parts : ~Exists(p)) /\ Failed

\* Both specs are captured before either container is touched.
Capture ==
  /\ up.at = "capture" /\ \A p \in Parts : Exists(p)
  /\ up' = [up EXCEPT !.at = "plan", !.plan = Found]
  /\ UNCHANGED <<docker, file, job, req, ui, hist>>

\* writeResultFile, phase in-progress
PlanWritten == file' = InProgress(up.to, up.plan)

WritePlan ==
  /\ up.at = "plan" /\ PlanWritten
  /\ up' = [up EXCEPT !.at = "work",
                      !.todo = Swap("server", up.to) \o Swap("broker", up.to) \o End("success")]
  /\ plan' = {up.plan} /\ erased' = FALSE
  /\ UNCHANGED <<docker, job, req, ui, launches>>

Doing(do) == up.at = "work" /\ Head(up.todo).do = do
On == Head(up.todo).p
Advance == up' = [up EXCEPT !.todo = Tail(@)]

\* What runs in a container that stops, is lost: the job, a half-done read; the request.
Killed(p) ==
  /\ req' = IF p = "broker" THEN NoRequest ELSE req
  /\ job' = CASE p = "server" /\ job \in {"running", "asked"} -> "orphan"
              [] p = "broker" /\ job = "asked" -> "failed"
              [] OTHER -> job
  /\ held' = IF p = "server" THEN {} ELSE held

\* An error of stop is swallowed; remove is forced.
StopFails ==
  /\ Doing("stop") /\ Advance
  /\ UNCHANGED <<docker, file, job, req, ui, hist>>

Stop ==
  /\ Doing("stop") /\ Advance
  /\ box' = [box EXCEPT ![On].st = "down"]
  /\ Killed(On)
  /\ UNCHANGED <<latest, images, aged, file, page, hist>>

Remove ==
  /\ Doing("remove") /\ Advance
  /\ box' = [box EXCEPT ![On].st = "gone"]
  /\ Killed(On)
  /\ UNCHANGED <<latest, images, aged, file, page, hist>>

Create ==
  /\ Doing("create") /\ <<On, Head(up.todo).v>> \in images
  /\ Advance
  /\ box' = [box EXCEPT ![On] = [img |-> Head(up.todo).v, st |-> "down"]]
  /\ UNCHANGED <<latest, images, aged, file, job, req, ui, hist>>

\* recoverInterruptedJobs, when a server starts
Recovered == IF job = "orphan" THEN "failed" ELSE job

Start ==
  /\ Doing("start") /\ Advance
  /\ box' = [box EXCEPT ![On].st = "up"]
  /\ job' = IF On = "server" THEN Recovered ELSE job
  /\ aged' = IF On = "broker" THEN FALSE ELSE aged
  /\ UNCHANGED <<latest, images, file, req, ui, hist>>

\* waitForHealthy: healthy within HEALTH_POLL_TIMEOUT_MS, or not.
Healthy ==
  /\ Doing("healthy") /\ Advance
  /\ box' = [box EXCEPT ![On].st = "healthy"]
  /\ UNCHANGED <<latest, images, aged, file, job, req, ui, hist>>

\* Slip: there is no deadline.
UnhealthyNever == FALSE

\* Slip: only the container that failed goes back.
BackFromOne(p) == Recreate(p, up.plan[p]) \o End("rolled-back")

\* The server failed: it goes back.  The broker failed: both do.
BackFrom(p) ==
  (IF p = "server" THEN Recreate("server", up.plan["server"])
                   ELSE Recreate("server", up.plan["server"]) \o Recreate("broker", up.plan["broker"]))
    \o End("rolled-back")

Unhealthy ==
  /\ Doing("healthy") /\ up' = [up EXCEPT !.todo = BackFrom(On)]
  /\ UNCHANGED <<docker, file, job, req, ui, hist>>

WriteVerdict ==
  /\ Doing("verdict")
  /\ file' = Verdict(Head(up.todo).out, up.to, up.plan) /\ up' = NoUpdater
  /\ plan' = {} /\ erased' = FALSE
  /\ UNCHANGED <<docker, job, req, ui, launches>>

\* A call throws, or the updater dies: main() reports it and nothing goes back.
Dies == up' = NoUpdater /\ UNCHANGED <<docker, file, job, req, ui, hist>>
Fatal == up # NoUpdater /\ Dies
ImageMissing == Doing("create") /\ <<On, Head(up.todo).v>> \notin images /\ Dies

-----------------------------------------------------------------------------
(***************************************************************************)
(* Old images                                                              *)
(***************************************************************************)

InUse ==
  {<<p, box[p].img>> : p \in {q \in Parts : Exists(q)}}
    \cup (IF up = NoUpdater THEN {} ELSE {<<"broker", up.own>>})

\* FIRST_SWEEP_DELAY_MS passes.  It is longer than HEALTH_POLL_TIMEOUT_MS and
\* the recreation of two containers, so by then an updater that waits for
\* this broker to become healthy has made up its mind and gone back.
BrokerAges ==
  /\ Runs("broker") /\ ~aged /\ aged' = TRUE
  /\ \A i \in DOMAIN up.todo : up.todo[i].do # "verdict" => up.todo[i].p # "broker"
  /\ UNCHANGED <<latest, images, box, file, job, req, up, ui, hist>>

SweepDue == Runs("broker") /\ aged

\* removeStalePanelImages, isStalePanelImage
Sweep ==
  /\ SweepDue
  /\ images' = {i \in images : i[2] >= box["broker"].img \/ i \in InUse}
  /\ images' # images
  /\ UNCHANGED <<latest, box, aged, file, job, req, up, ui, hist>>

-----------------------------------------------------------------------------
(***************************************************************************)
(* The verdict's way to the page                                           *)
(***************************************************************************)

\* The job's row is terminal: a failure is shown; else phase B.
JobSeen ==
  /\ page = "job" /\ Runs("server") /\ job \in {"succeeded", "failed"}
  /\ page' = IF job = "succeeded" THEN "probe" ELSE "idle"
  /\ UNCHANGED <<docker, file, job, req, up, held, hist>>

\* waitForPanelReconnect: whichever version answers.
Reconnected ==
  /\ page = "probe" /\ Runs("server") /\ page' = "poll"
  /\ UNCHANGED <<docker, file, job, req, up, held, hist>>

\* waitForPanelReconnect or waitForPanelVerdict: the deadline.
GiveUp ==
  /\ \/ page = "probe" /\ ~Runs("server")
     \/ page = "poll" /\ held = {}
  /\ page' = "idle"
  /\ UNCHANGED <<docker, file, job, req, up, held, hist>>

\* readAndClearSelfUpdateResult: only a verdict is taken up.
ReadResult ==
  /\ page = "poll" /\ Runs("server") /\ held = {} /\ file.phase = "done"
  /\ held' = {file}
  /\ UNCHANGED <<docker, file, job, req, up, page, hist>>

\* unlink: whatever is there by now.  The verdict is shown.
UnlinkResult ==
  /\ held # {} /\ held' = {} /\ page' = "idle"
  /\ file' = NoFile
  /\ erased' = (erased \/ file.phase = "in-progress")
  /\ UNCHANGED <<docker, job, req, up, launches, plan>>

-----------------------------------------------------------------------------

Updater ==
  \/ Pull \/ PullFails \/ NotFound \/ Capture \/ WritePlan
  \/ Stop \/ StopFails \/ Remove \/ Create \/ ImageMissing \/ Start \/ Unhealthy \/ WriteVerdict
Panel ==
  \/ JobRefused \/ Ask \/ ClearUpdater \/ LaunchUpdater \/ RequestFails
  \/ JobSeen \/ Reconnected \/ GiveUp \/ ReadResult \/ UnlinkResult
Around == Healthy \/ Fatal \/ Release \/ Apply \/ BrokerAges \/ Sweep
Next == Updater \/ Panel \/ Around

\* The updater runs on, the server and the broker get on with what they were
\* asked, and the page's timers fire.  No container need become healthy.
Spec == Init /\ [][Next]_vars /\ WF_vars(Updater) /\ WF_vars(Panel)

-----------------------------------------------------------------------------
(***************************************************************************)
(* The spec of the new container (image-swap-spec.ts)                      *)
(*                                                                         *)
(* An environment maps the keys it sets to their values.  Docker merges    *)
(* the image's into the container's, so what is captured holds both.       *)
(* Labels go by the same two rules.                                        *)
(***************************************************************************)

Merge(image, set) == [k \in DOMAIN image \cup DOMAIN set |-> IF k \in DOMAIN set THEN set[k] ELSE image[k]]

Only(env, keys) == [k \in DOMAIN env \cap keys |-> env[k]]

\* withoutImageInheritedEnv; old: the old image's environment, if it could be inspected
WithoutInherited(env, old, provenance) ==
  Only(env, {k \in DOMAIN env : /\ k \notin provenance
                                /\ \A o \in old : ~(k \in DOMAIN o /\ o[k] = env[k])})

-----------------------------------------------------------------------------
(***************************************************************************)
(* Properties                                                              *)
(***************************************************************************)

\* Every variable keeps its shape.
TypeOK ==
  /\ latest \in Versions /\ images \subseteq Parts \X Versions
  /\ box \in [Parts -> Boxes] /\ aged \in BOOLEAN
  /\ file \in Files
  /\ job \in {"none", "running", "asked", "orphan", "succeeded", "failed"}
  /\ req.at \in {"none", "clear", "launch"} /\ req.to \in Versions
  /\ up.at \in {"none", "pull", "capture", "plan", "work"}
  /\ up.to \in Versions /\ up.own \in Versions /\ up.plan \in Plans /\ up.todo \in Seq(Ops)
  /\ page \in {"idle", "job", "probe", "poll"} /\ held \subseteq Files
  /\ launches \in 0 .. MaxLaunches /\ plan \subseteq Plans /\ erased \in BOOLEAN

\* A verdict on disk is true, whatever was killed, failed or came in between:
\* success, and both containers are healthy on the new version; rolled back,
\* and both are on the images they were found with, the server running;
\* failed, and no image changed (runSelfUpdate, SelfUpdateResultFile).
VerdictHolds ==
  file.phase = "done" =>
    CASE file.out = "success" -> \A p \in Parts : box[p] = [img |-> file.to, st |-> "healthy"]
      [] file.out = "rolled-back" -> Runs("server") /\ Found = file.plan
      [] file.out = "failed" -> Found = file.plan

\* From the moment a container is touched until there is a verdict, also after
\* the updater is gone, the way back is on disk ("write the rollback plan to
\* the status file before any teardown"), unless a request that had read the
\* verdict of an earlier update unlinked it.
PlanKept ==
  \A pl \in plan :
    \/ \A p \in Parts : box[p].img = pl[p] /\ Runs(p)
    \/ file.phase = "in-progress" /\ file.plan = pl
    \/ erased /\ launches > 1

\* While an updater that found both containers on one version may still have
\* to go back, the images to go back to are on the host: no sweep of either
\* broker takes them (stale-image-cleanup.ts against updater.ts).
WayBackKept ==
  up.at = "work" /\ ~Doing("verdict") /\ up.plan["server"] = up.plan["broker"] =>
    \A p \in Parts : <<p, up.plan[p]>> \in images

\* Every updater ends, whether or not a container becomes healthy.
UpdaterEnds == up # NoUpdater ~> up = NoUpdater

\* The page that started an update gets to an end and can start another, also
\* when the server that ran its job was replaced, unless no server is left.
PageSettles == []<>(page = "idle") \/ <>[]~Runs("server")

\* An update can be trusted, when it is over and while it is not (runSelfUpdate,
\* removeStalePanelImages).
UpdateHolds == TypeOK /\ VerdictHolds /\ PlanKept /\ WayBackKept

\* An update gets to be over, for the updater and for the page that waits for
\* its verdict (waitForHealthy, waitForPanelVerdict).
UpdateSettles == UpdaterEnds /\ PageSettles
=============================================================================
