------------------------------ MODULE Restore ------------------------------
(***************************************************************************)
(* Backups and restores against the mail server's container                *)
(* (server/src/modules/backups/backups.service.ts and backup-archive.ts,   *)
(* modules/docker/containers.service.ts, the broker's container operations *)
(* and archive routes).                                                    *)
(*                                                                         *)
(* A cold backup stops the container, reads its volumes and starts it; a   *)
(* restore writes them while the container is stopped.  Jobs run one after *)
(* the other (JobRunner.tla); a request to restore is checked, then        *)
(* queued, and the container is not the panel's alone: administrators      *)
(* start and stop it, the operator replaces it, and mail comes in while it *)
(* runs.  A call to the broker takes effect and answers, fails, or takes   *)
(* effect and fails.                                                       *)
(*                                                                         *)
(* What a volume holds is a number that grows with every delivery, or      *)
(* (some of) what the first archive, an imported one, has of it.           *)
(* Verification and upload are Backups.tla's.                              *)
(***************************************************************************)
EXTENDS Integers, Sequences

CONSTANTS Volumes,    \* BACKUP_VOLUME_KEYS, in order
          MaxBackups, \* bound: the first archive, and backups made
          MaxQueue,   \* bound: jobs waiting
          MaxMail,    \* bound: deliveries
          MaxSwaps    \* bound: replacements of the container

VARIABLES
  box,     \* the managed container
  data,    \* what its volumes hold
  arch,    \* backups: rows with their archives
  ask,     \* POST /:id/restore, while the container is inspected
  queue,   \* jobs waiting
  cur,     \* the job that runs
  mail,    \* deliveries so far
  swaps,   \* history: times the container was replaced
  owed     \* history: the panel stopped it, and nothing has gone wrong or started it since

vars == <<box, data, arch, ask, queue, cur, mail, swaps, owed>>

Ids == 1 .. MaxBackups
Vols == {Volumes[i] : i \in DOMAIN Volumes}
First == -1
Contents == (0 .. MaxMail) \cup {First}
NoContent == [v \in Vols |-> 0]

\* img: the digest in the manifest, if known; bad: the volumes not laid out as
\* the panel's are.
NoArch == [st |-> "none", vol |-> NoContent, img |-> {}, bad |-> {}]
NoAsk == [at |-> "none", b |-> 1, swaps |-> 0]
\* History: cut, what the volumes held when the container was stopped for this
\* job; meddled, others have started it since the job stopped or checked it;
\* swaps, when the request for it was checked.
NoJob == [do |-> "none", at |-> "none", b |-> 1, todo |-> <<>>, got |-> NoContent, img |-> {},
          bad |-> {}, cut |-> NoContent, meddled |-> FALSE, swaps |-> 0]

Job(kind, b) == [NoJob EXCEPT !.do = kind, !.b = b]

Init ==
  /\ box = [run |-> TRUE, img |-> 1]
  /\ data = NoContent
  /\ \E first \in {[img |-> 1, bad |-> {}], [img |-> 2, bad |-> {}],
                   [img |-> 1, bad |-> {Volumes[Len(Volumes)]}]} :
       arch = [b \in Ids |-> IF b > 1 THEN NoArch
                             ELSE [st |-> "row", vol |-> [v \in Vols |-> First],
                                   img |-> {first.img}, bad |-> first.bad]]
  /\ ask = NoAsk /\ queue = <<>> /\ cur = NoJob
  /\ mail = 0 /\ swaps = 0 /\ owed = FALSE

-----------------------------------------------------------------------------
(***************************************************************************)
(* Requests                                                                *)
(***************************************************************************)
Pending == {queue[i].b : i \in {i \in DOMAIN queue : queue[i].do # "restore"}}

\* create: the new backup's id is made with the job.
Create(kind, b) ==
  /\ arch[b] = NoArch /\ b \notin Pending /\ cur.b # b
  /\ Len(queue) < MaxQueue /\ queue' = Append(queue, Job(kind, b))
  /\ UNCHANGED <<box, data, arch, ask, cur, mail, swaps, owed>>

\* preflight: the row is there; the container is being looked at.
AskRestore(b) ==
  /\ ask = NoAsk /\ arch[b].st = "row"
  /\ ask' = [NoAsk EXCEPT !.at = "inspect", !.b = b]
  /\ UNCHANGED <<box, data, arch, queue, cur, mail, swaps, owed>>

\* What preflight finds of the container and restore() insists on.  (The
\* manifest was read before.)
Inspected ==
  /\ ask.at = "inspect" /\ ~box.run /\ box.img \in arch[ask.b].img
  /\ ask' = [ask EXCEPT !.at = "fit", !.swaps = swaps]
  /\ UNCHANGED <<box, data, arch, queue, cur, mail, swaps, owed>>

\* The row is still there, and a verified backup is, or the administrator
\* does without.
Accept ==
  /\ ask.at = "fit" /\ arch[ask.b].st = "row"
  /\ Len(queue) < MaxQueue
  /\ queue' = Append(queue, [Job("restore", ask.b) EXCEPT !.swaps = ask.swaps])
  /\ ask' = NoAsk
  /\ UNCHANGED <<box, data, arch, cur, mail, swaps, owed>>

\* Any of this is not so, or the call to the broker fails.
Refuse ==
  /\ ask # NoAsk /\ ask' = NoAsk
  /\ UNCHANGED <<box, data, arch, queue, cur, mail, swaps, owed>>

\* delete: the row, and the archive.
Delete(b) ==
  /\ arch[b].st = "row"
  /\ arch' = [arch EXCEPT ![b] = [NoArch EXCEPT !.st = "deleted", !.img = arch[b].img, !.bad = arch[b].bad]]
  /\ UNCHANGED <<box, data, ask, queue, cur, mail, swaps, owed>>

-----------------------------------------------------------------------------
(***************************************************************************)
(* The job                                                                 *)
(***************************************************************************)
\* pump
Start ==
  /\ cur = NoJob /\ queue # <<>>
  /\ cur' = [Head(queue) EXCEPT !.at = IF Head(queue).do = "restore" THEN "check" ELSE "digest"]
  /\ queue' = Tail(queue)
  /\ UNCHANGED <<box, data, arch, ask, mail, swaps, owed>>

\* performCreate: the digest of the image, if it can be had.
Digest(known) ==
  /\ cur.at = "digest"
  /\ cur' = [cur EXCEPT !.at = IF cur.do = "cold" THEN "stop" ELSE "read", !.todo = Volumes,
                        !.img = IF known THEN {box.img} ELSE {}]
  /\ UNCHANGED <<box, data, arch, ask, queue, mail, swaps, owed>>

\* containerStop; a container that is stopped already is all right.
Stop ==
  /\ cur.at = "stop"
  /\ box' = [box EXCEPT !.run = FALSE]
  /\ cur' = [cur EXCEPT !.at = "read", !.cut = data, !.meddled = FALSE]
  /\ owed' = box.run
  /\ UNCHANGED <<data, arch, ask, queue, mail, swaps>>

\* It fails outside the try block: nothing starts what it may have stopped.
StopFails(did) ==
  /\ cur.at = "stop"
  /\ cur' = NoJob
  /\ box' = [box EXCEPT !.run = @ /\ ~did]
  /\ UNCHANGED <<data, arch, ask, queue, mail, swaps, owed>>

\* Where performCreate goes from the try block: a cold backup starts the
\* container again, also when it failed.
Finally == IF cur.do = "cold" THEN [Job("cold", cur.b) EXCEPT !.at = "start"] ELSE NoJob

\* createBackupArchive reads one volume after the other.
ReadVolume ==
  /\ cur.at = "read" /\ cur.todo # <<>>
  /\ cur' = [cur EXCEPT !.got[Head(cur.todo)] = data[Head(cur.todo)], !.todo = Tail(@)]
  /\ UNCHANGED <<box, data, arch, ask, queue, mail, swaps, owed>>

\* ... and the row is inserted.
Insert ==
  /\ cur.at = "read" /\ cur.todo = <<>>
  /\ arch' = [arch EXCEPT ![cur.b] =
                [NoArch EXCEPT !.st = "row", !.vol = cur.got, !.img = cur.img]]
  /\ cur' = Finally
  /\ UNCHANGED <<box, data, ask, queue, mail, swaps, owed>>

\* A volume cannot be read, or the archive or the row not written.
ReadFails ==
  /\ cur.at = "read"
  /\ cur' = Finally
  /\ UNCHANGED <<box, data, arch, ask, queue, mail, swaps, owed>>

\* containerStart, in the finally block.
StartAgain ==
  /\ cur.at = "start"
  /\ box' = [box EXCEPT !.run = TRUE]
  /\ cur' = NoJob /\ owed' = FALSE
  /\ UNCHANGED <<data, arch, ask, queue, mail, swaps>>

\* (With the container started all the same, what follows is as above:
\* verification and upload do not touch it.)
StartAgainFails ==
  /\ cur.at = "start"
  /\ cur' = NoJob /\ owed' = FALSE
  /\ UNCHANGED <<box, data, arch, ask, queue, mail, swaps>>

\* Slip of Check: what restore() saw is good enough.
CheckTrusted ==
  /\ cur.at = "check"
  /\ cur' = [cur EXCEPT !.at = "extract", !.meddled = FALSE]
  /\ UNCHANGED <<box, data, arch, ask, queue, mail, swaps, owed>>

\* performRestore looks at the container again.
Check ==
  /\ cur.at = "check" /\ ~box.run
  /\ cur' = [cur EXCEPT !.at = "extract", !.meddled = FALSE]
  /\ UNCHANGED <<box, data, arch, ask, queue, mail, swaps, owed>>

\* It runs; or a call, the extraction or the walk through it fails: no volume
\* is written.
RestoreFails ==
  /\ cur.at \in {"check", "extract", "layout"}
  /\ cur' = NoJob
  /\ UNCHANGED <<box, data, arch, ask, queue, mail, swaps, owed>>

\* extractBackupArchiveForRestore; a deleted archive is not there.
Extract ==
  /\ cur.at = "extract" /\ arch[cur.b].st = "row"
  /\ cur' = [cur EXCEPT !.at = "layout", !.got = arch[cur.b].vol, !.bad = arch[cur.b].bad,
                        !.img = arch[cur.b].img]
  /\ UNCHANGED <<box, data, arch, ask, queue, mail, swaps, owed>>

\* Every volume is looked through before the first is written.
Layout ==
  /\ cur.at = "layout" /\ cur.bad = {}
  /\ cur' = [cur EXCEPT !.at = "put", !.todo = Volumes]
  /\ UNCHANGED <<box, data, arch, ask, queue, mail, swaps, owed>>

\* archivePut, a volume after the other.  It may break off: the volumes after
\* this one stay as they were.
PutVolume(ok) ==
  /\ cur.at = "put"
  /\ data' = [data EXCEPT ![Head(cur.todo)] = cur.got[Head(cur.todo)]]
  /\ cur' = IF ok /\ Len(cur.todo) > 1 THEN [cur EXCEPT !.todo = Tail(@)] ELSE NoJob
  /\ UNCHANGED <<box, arch, ask, queue, mail, swaps, owed>>

\* The process dies, with the job, the queue and the request.
Die ==
  /\ cur' = NoJob /\ queue' = <<>> /\ ask' = NoAsk /\ owed' = FALSE
  /\ UNCHANGED <<box, data, arch, mail, swaps>>

-----------------------------------------------------------------------------
(***************************************************************************)
(* Others                                                                  *)
(***************************************************************************)
Meddle == cur' = [cur EXCEPT !.meddled = cur # NoJob]

\* containers.service.ts start and restart: nothing keeps them from it while
\* a job needs the container as it is.
StartByHand ==
  /\ box' = [box EXCEPT !.run = TRUE]
  /\ Meddle /\ owed' = FALSE
  /\ UNCHANGED <<data, arch, ask, queue, mail, swaps>>

\* stop
StopByHand ==
  /\ box' = [box EXCEPT !.run = FALSE]
  /\ UNCHANGED <<data, arch, ask, queue, cur, mail, swaps, owed>>

\* The operator puts a container of the other image in its place.
Replace ==
  /\ swaps < MaxSwaps /\ swaps' = swaps + 1
  /\ box' = [run |-> TRUE, img |-> 3 - box.img]
  /\ Meddle /\ owed' = FALSE
  /\ UNCHANGED <<data, arch, ask, queue, mail>>

Deliver(v) ==
  /\ box.run /\ mail < MaxMail
  /\ mail' = mail + 1 /\ data' = [data EXCEPT ![v] = mail + 1]
  /\ UNCHANGED <<box, arch, ask, queue, cur, swaps, owed>>

Next ==
  \/ \E b \in Ids :
       \/ \E kind \in {"cold", "warm"} : Create(kind, b)
       \/ AskRestore(b) \/ Delete(b)
  \/ Inspected \/ Refuse \/ Accept
  \/ Start \/ \E known \in BOOLEAN : Digest(known)
  \/ Stop \/ (\E did \in BOOLEAN : StopFails(did)) \/ ReadVolume \/ Insert \/ ReadFails
  \/ StartAgain \/ StartAgainFails
  \/ Check \/ RestoreFails \/ Extract \/ Layout \/ \E ok \in BOOLEAN : PutVolume(ok)
  \/ Die
  \/ StartByHand \/ StopByHand \/ Replace
  \/ \E v \in Vols : Deliver(v)

Spec == Init /\ [][Next]_vars

-----------------------------------------------------------------------------
TypeOK ==
  /\ box \in [run : BOOLEAN, img : {1, 2}]
  /\ data \in [Vols -> Contents]
  /\ \A b \in Ids : arch[b].vol \in [Vols -> Contents] /\ arch[b].st \in {"none", "row", "deleted"}
  /\ cur.at \in {"none", "digest", "stop", "read", "start", "check", "extract", "layout", "put"}

\* A restore writes to a stopped container of the image the backup was taken
\* from.  Not even a cold backup that had stopped the container when the
\* restore was accepted, and starts it before the restore begins, gets in its
\* way; only someone who starts or replaces the container does ("The managed
\* container must be stopped before a restore can proceed", restore;
\* performRestore).
WrittenAsChecked ==
  cur.at = "put" => /\ box.run => cur.meddled
                    /\ box.img \in cur.img \/ cur.swaps # swaps

\* A cold backup has all volumes as they were when the container was stopped
\* for it, unless others started it meanwhile (performCreate).
ColdIsConsistent ==
  cur.do = "cold" /\ cur.at = "read" /\ ~cur.meddled /\ cur.todo = <<>> => cur.got = cur.cut

\* The panel does not leave the mail server down: what a backup stopped it
\* starts again however the backup ends, but for a call that fails or the
\* death of the process (performCreate's finally).
ComesBack == owed => cur.do = "cold" /\ cur.at \in {"read", "start"}

\* An archive one volume of which is not laid out as it should be changes none
\* (restoreVolumesFromExtractedArchive: "Nothing was restored").
NothingOfMisshapen == arch[1].bad # {} => \A v \in Vols : data[v] # First

\* Backups and restores keep off each other and off the running mail server.
RestoreHolds ==
  TypeOK /\ WrittenAsChecked /\ ColdIsConsistent /\ ComesBack /\ NothingOfMisshapen
=============================================================================
