------------------------------- MODULE Backups -------------------------------
(***************************************************************************)
(* Backups of the web tier: the rows of the `backups` table, the archives  *)
(* on the server and the objects on the remote destination                 *)
(* (apps/server/src/modules/backups).                                      *)
(*                                                                         *)
(* Three kinds of worker overlap at their awaits: the job the runner runs  *)
(* (one at a time, see JobRunner), the periodic sweep, and the handlers of *)
(* DELETE.  All die with the process; rows, archives and objects stay.     *)
(*                                                                         *)
(* Backups are numbered in the order of their creation.  An archive or an  *)
(* object is `good` when it matches the manifest, `bad` otherwise.  A call *)
(* of the destination takes effect when it returns, or just before the     *)
(* process dies (`CutShort`).  One destination stays configured.           *)
(***************************************************************************)
EXTENDS Integers, FiniteSets

CONSTANTS MaxBackups,  \* bound: backups created
          Handlers,    \* bound: deletions under way at once
          Keep,        \* the largest retentionKeep an administrator sets
          AutoUpload   \* the schedule's uploadToRemote

ASSUME BoundAssumption == MaxBackups \in Nat /\ Keep \in Nat \ {0}
ASSUME WorkerAssumption == "job" \notin Handlers /\ "sweep" \notin Handlers
ASSUME AutoAssumption == AutoUpload \in BOOLEAN

VARIABLES
  last,    \* the number of backups created
  row,     \* the table
  file,    \* <backupDir>/<id>.tar
  remote,  \* the object of the backup on the destination
  newer,   \* <<b, c>>: b was last modified on the destination after c
  gone,    \* history: the object was deleted on purpose since it was last sent
  task

vars == <<last, row, file, remote, newer, gone, task>>

Backups == 1 .. MaxBackups
Workers == {"job", "sweep"} \cup Handlers
Uploaders == {"job", "sweep"}

Copy == {"none", "good", "bad"}

Row ==
  [in : BOOLEAN,
   ver : {"unverified", "verified", "failed"},
   up : {"pending", "uploading", "uploaded", "failed"},
   here : BOOLEAN,  \* local_present
   key : BOOLEAN]   \* remote_key is set

Steps == {"idle", "insert", "verify", "scan", "pick", "upload", "check",
          "mark", "clear", "list", "prune", "reclaim", "reclaimed", "expire",
          "purge", "purge_uploaded", "purge_stray", "unlink", "fetch", "accept"}

Task ==
  [op : {"idle", "create", "upload", "reconcile", "expire", "import", "delete"},
   at : Steps,
   b : Backups \cup {0},     \* the backup in hand
   own : Backups \cup {0},   \* the one uploadBackup was called for
   todo : SUBSET Backups,    \* what is left of the list being worked off
   read : Copy]              \* the archive being sent

NoRow == [in |-> FALSE, ver |-> "unverified", up |-> "pending", here |-> FALSE, key |-> FALSE]
Idle == [op |-> "idle", at |-> "idle", b |-> 0, own |-> 0, todo |-> {}, read |-> "none"]

Init ==
  /\ last = 0
  /\ row = [b \in Backups |-> NoRow]
  /\ file = [b \in Backups |-> "none"]
  /\ remote = [b \in Backups |-> "none"]
  /\ newer = {}
  /\ gone = {}
  /\ task = [w \in Workers |-> Idle]

-----------------------------------------------------------------------------
\* The statements of the repository.  An UPDATE of no row changes nothing.
Update(b, new) == row' = IF row[b].in THEN [row EXCEPT ![b] = new] ELSE row

\* insert
Inserted == [NoRow EXCEPT !.in = TRUE, !.here = TRUE]

Rows == {b \in Backups : row[b].in}

\* listUploadCandidates
Candidates ==
  {b \in Rows : row[b].up \in {"pending", "failed"} /\ row[b].here /\ row[b].ver # "failed"}

Oldest(S) == CHOOSE b \in S : \A c \in S : b <= c
Newest(S) == CHOOSE b \in S : \A c \in S : c <= b

\* Put and removal of an object.
Put(b, copy) ==
  /\ remote' = [remote EXCEPT ![b] = copy]
  /\ newer' = {p \in newer : p[1] # b /\ p[2] # b}
              \cup {<<b, c>> : c \in {c \in Backups \ {b} : remote[c] # "none"}}
  /\ gone' = gone \ {b}

Remove(b) ==
  /\ remote' = [remote EXCEPT ![b] = "none"]
  /\ newer' = {p \in newer : p[1] # b /\ p[2] # b}

Withdraw(b) == Remove(b) /\ gone' = gone \cup {b}

Go(w, t) == task' = [task EXCEPT ![w] = t]
At(w, step) == Go(w, [task[w] EXCEPT !.at = step])

\* selectBackupsForDeletion.  The age cap cuts the oldest off, as a smaller
\* `keep` would, and the newest is never selected.
selectBackupsForDeletion(S, after, keep, protected) ==
  {b \in S : /\ b # protected
             /\ Cardinality({c \in S : <<c, b>> \in after}) >= keep}

Created == {p \in Backups \X Backups : p[1] > p[2]}

-----------------------------------------------------------------------------
(***************************************************************************)
(* Jobs                                                                    *)
(***************************************************************************)
\* performCreate, up to the finished archive
Archive ==
  /\ task["job"] = Idle
  /\ last < MaxBackups
  /\ last' = last + 1
  /\ \E copy \in {"good", "bad"} : file' = [file EXCEPT ![last + 1] = copy]
  /\ Go("job", [Idle EXCEPT !.op = "create", !.at = "insert", !.b = last + 1])
  /\ UNCHANGED <<row, remote, newer, gone>>

Insert ==
  /\ task["job"].at = "insert"
  /\ row' = [row EXCEPT ![task["job"].b] = Inserted]
  /\ At("job", "verify")
  /\ UNCHANGED <<last, file, remote, newer, gone>>

\* verifyBackupArchive, as the rows record it
Verified(b) == IF file[b] = "good" THEN "verified" ELSE "failed"

\* uploadBackup(b) begins.
UploadOf(b) == [Idle EXCEPT !.op = "upload", !.at = "pick", !.own = b, !.todo = {b}]

\* The new archive is verified, and uploaded when the operator wants that.
CreateVerified ==
  LET b == task["job"].b IN
  /\ task["job"].at = "verify"
  /\ Update(b, [row[b] EXCEPT !.ver = Verified(b)])
  /\ Go("job", IF row[b].in /\ Verified(b) = "verified" /\ AutoUpload
               THEN UploadOf(b) ELSE Idle)
  /\ UNCHANGED <<last, file, remote, newer, gone>>

\* The verify job.  Its row is not looked at again before the result is written.
Verify(b) ==
  /\ task["job"] = Idle
  /\ Update(b, [row[b] EXCEPT !.ver = Verified(b)])
  /\ UNCHANGED <<last, file, remote, newer, gone, task>>

UploadJob(b) ==
  /\ task["job"] = Idle
  /\ row[b].in
  /\ Go("job", UploadOf(b))
  /\ UNCHANGED <<last, row, file, remote, newer, gone>>

Reconciling == [Idle EXCEPT !.op = "reconcile", !.at = "scan"]

ReconcileJob ==
  /\ task["job"] = Idle
  /\ Go("job", Reconciling)
  /\ UNCHANGED <<last, row, file, remote, newer, gone>>

(***************************************************************************)
(* importFromRemote.  Its listing and its download are one await; `todo`   *)
(* remembers whether the row was there before.                             *)
(***************************************************************************)

\* Slip: an archive that is here is downloaded over.
ImportJobOver(b) ==
  /\ task["job"] = Idle
  /\ b <= last
  /\ Go("job", [Idle EXCEPT !.op = "import", !.at = "fetch", !.b = b,
                            !.todo = {c \in Rows : c = b}])
  /\ UNCHANGED <<last, row, file, remote, newer, gone>>

ImportJob(b) ==
  /\ task["job"] = Idle
  /\ b <= last
  /\ ~(row[b].in /\ row[b].here)
  /\ Go("job", [Idle EXCEPT !.op = "import", !.at = "fetch", !.b = b,
                            !.todo = {c \in Rows : c = b}])
  /\ UNCHANGED <<last, row, file, remote, newer, gone>>

\* The archive is downloaded to its path.
Fetch ==
  LET b == task["job"].b IN
  /\ task["job"].at = "fetch"
  /\ remote[b] # "none"
  /\ file' = [file EXCEPT ![b] = remote[b]]
  /\ At("job", "accept")
  /\ UNCHANGED <<last, row, remote, newer, gone>>

\* No object, or the transfer fails, which can leave a part on disk.
FetchFails ==
  LET b == task["job"].b IN
  /\ task["job"].at = "fetch"
  /\ \/ file' = file
     \/ remote[b] # "none" /\ file' = [file EXCEPT ![b] = "bad"]
  /\ Go("job", Idle)
  /\ UNCHANGED <<last, row, remote, newer, gone>>

\* verifyBackupArchive of the download
Acceptable(b) == file[b] = "good"

Accept ==
  LET b == task["job"].b IN
  /\ task["job"].at = "accept"
  /\ Acceptable(b)
  /\ IF task["job"].todo # {}
       THEN Update(b, [row[b] EXCEPT !.here = TRUE])
       ELSE row' = [row EXCEPT ![b] = [Inserted EXCEPT !.up = "uploaded", !.key = TRUE]]
  /\ Go("job", Idle)
  /\ UNCHANGED <<last, file, remote, newer, gone>>

AcceptRefused ==
  LET b == task["job"].b IN
  /\ task["job"].at = "accept"
  /\ ~Acceptable(b)
  /\ file' = [file EXCEPT ![b] = "none"]
  /\ Go("job", Idle)
  /\ UNCHANGED <<last, row, remote, newer, gone>>

-----------------------------------------------------------------------------
(***************************************************************************)
(* The periodic sweep                                                      *)
(***************************************************************************)
Sweep ==
  /\ task["sweep"] = Idle
  /\ task["job"] = Idle
  /\ Go("sweep", IF AutoUpload THEN Reconciling
                 ELSE [Idle EXCEPT !.op = "expire", !.at = "expire"])
  /\ UNCHANGED <<last, row, file, remote, newer, gone>>

-----------------------------------------------------------------------------
(***************************************************************************)
(* reconcile and uploadBackup, by the job or the sweep                     *)
(***************************************************************************)
\* The loop over the candidates goes on, or ends.
Picking(t) == [t EXCEPT !.at = IF t.todo = {} THEN "list" ELSE "pick", !.b = 0]

Scan(w) ==
  /\ task[w].at = "scan"
  /\ Go(w, Picking([task[w] EXCEPT !.todo = Candidates]))
  /\ UNCHANGED <<last, row, file, remote, newer, gone>>

\* uploadOne up to the upload.  Without a row it throws, and the rest with it.
Pick(w) ==
  LET t == task[w]
      b == Oldest(t.todo)
  IN
  /\ t.at = "pick"
  /\ \/ /\ ~row[b].in
        /\ Go(w, Idle)
        /\ row' = row
     \/ /\ row[b].in /\ ~row[b].here
        /\ Go(w, IF t.op = "upload" THEN [t EXCEPT !.at = "expire", !.todo = {}]
                 ELSE Picking([t EXCEPT !.todo = @ \ {b}]))
        /\ row' = row
     \/ /\ row[b].in /\ row[b].here
        /\ Update(b, [row[b] EXCEPT !.up = "uploading"])
        /\ Go(w, [t EXCEPT !.at = "upload", !.b = b, !.todo = @ \ {b}, !.read = file[b]])
  /\ UNCHANGED <<last, file, remote, newer, gone>>

\* destination.upload: the object may have been damaged on the way.
Upload(w) ==
  /\ task[w].at = "upload"
  /\ task[w].read # "none"
  /\ \E copy \in {task[w].read, "bad"} : Put(task[w].b, copy)
  /\ Go(w, [task[w] EXCEPT !.at = "check", !.read = "none"])
  /\ UNCHANGED <<last, row, file>>

\* It fails, or its answer is lost.
UploadFails(w) ==
  /\ task[w].at = "upload"
  /\ \/ task[w].read # "none" /\ Put(task[w].b, "bad")
     \/ UNCHANGED <<remote, newer, gone>>
  /\ Go(w, [task[w] EXCEPT !.at = "clear", !.read = "none"])
  /\ UNCHANGED <<last, row, file>>

\* Slip: the object is only checked to be there.
CheckedPresence(b) == remote[b] # "none"

\* verifyRemoteCopy of the object that was just sent
Checked(b) == remote[b] = "good"

Check(w) ==
  /\ task[w].at = "check"
  /\ At(w, IF Checked(task[w].b) THEN "mark" ELSE "clear")
  /\ UNCHANGED <<last, row, file, remote, newer, gone>>

CheckFails(w) ==
  /\ task[w].at = "check"
  /\ At(w, "clear")
  /\ UNCHANGED <<last, row, file, remote, newer, gone>>

\* markUploaded
Mark(w) ==
  LET b == task[w].b IN
  /\ task[w].at = "mark"
  /\ Update(b, [row[b] EXCEPT !.up = "uploaded", !.key = TRUE])
  /\ Go(w, Picking(task[w]))
  /\ UNCHANGED <<last, file, remote, newer, gone>>

\* The object is deleted, if possible, and the upload recorded as failed.
Clear(w) ==
  LET b == task[w].b IN
  /\ task[w].at = "clear"
  /\ \/ Remove(b)
     \/ UNCHANGED <<remote, newer>>
  /\ Update(b, [row[b] EXCEPT !.up = "failed"])
  /\ Go(w, IF task[w].op = "upload" THEN [task[w] EXCEPT !.at = "expire", !.b = 0]
           ELSE Picking(task[w]))
  /\ UNCHANGED <<last, file, gone>>

-----------------------------------------------------------------------------
(***************************************************************************)
(* applyRemoteRetention and reclaimLocalStaging                            *)
(***************************************************************************)
Objects == {b \in Backups : remote[b] # "none"}

\* What remote retention selects, by the dates of the objects.
Prunable(keep) == selectBackupsForDeletion(Objects, newer, keep, 0)

List(w) ==
  /\ task[w].at = "list"
  /\ \E keep \in 1 .. Keep :
       Go(w, [task[w] EXCEPT !.at = "prune", !.todo = Prunable(keep)])
  /\ UNCHANGED <<last, row, file, remote, newer, gone>>

\* Listing or a deletion throws, perhaps after it took effect: what is left
\* of the operation is skipped.
RetentionFails(w) ==
  /\ \/ task[w].at = "list" /\ UNCHANGED <<remote, newer, gone>>
     \/ task[w].at = "prune" /\ \E b \in task[w].todo :
          Withdraw(b) \/ UNCHANGED <<remote, newer, gone>>
  /\ Go(w, Idle)
  /\ UNCHANGED <<last, row, file>>

\* The row of a pruned object: clearUpload while the archive is here.
Unlisted(b) ==
  IF row[b].here THEN [row[b] EXCEPT !.up = "pending", !.key = FALSE] ELSE NoRow

\* The order of the dates is not relied on: any order.
Prune(w) ==
  /\ task[w].at = "prune"
  /\ \E b \in task[w].todo :
       /\ Withdraw(b)
       /\ row' = IF row[b].in /\ row[b].key THEN [row EXCEPT ![b] = Unlisted(b)] ELSE row
       /\ Go(w, [task[w] EXCEPT !.todo = @ \ {b}])
  /\ UNCHANGED <<last, file>>

\* Slip: every local archive that was ever sent.
ReclaimableSent == {b \in Rows : row[b].up # "pending" /\ row[b].here}

\* listUploaded, those still here
Reclaimable == {b \in Rows : row[b].up = "uploaded" /\ row[b].here}

\* The loop of reclaimLocalStaging goes on, or ends.
Reclaiming(t) == [t EXCEPT !.at = IF t.todo = {} THEN "expire" ELSE "reclaim", !.b = 0]

Pruned(w) ==
  /\ task[w].at = "prune"
  /\ task[w].todo = {}
  /\ Go(w, Reclaiming([task[w] EXCEPT !.todo = Reclaimable]))
  /\ UNCHANGED <<last, row, file, remote, newer, gone>>

Reclaim(w) ==
  LET b == Newest(task[w].todo) IN
  /\ task[w].at = "reclaim"
  /\ file' = [file EXCEPT ![b] = "none"]
  /\ Go(w, [task[w] EXCEPT !.at = "reclaimed", !.b = b, !.todo = @ \ {b}])
  /\ UNCHANGED <<last, row, remote, newer, gone>>

\* markLocalReclaimed
Reclaimed(w) ==
  LET b == task[w].b IN
  /\ task[w].at = "reclaimed"
  /\ Update(b, [row[b] EXCEPT !.here = FALSE])
  /\ Go(w, Reclaiming(task[w]))
  /\ UNCHANGED <<last, file, remote, newer, gone>>

-----------------------------------------------------------------------------
(***************************************************************************)
(* applyLocalRetention, DELETE /:id and their purgeRemoteCopy              *)
(***************************************************************************)
\* What local retention deletes: backups that are only here.
Expirable(keep, own) ==
  {b \in selectBackupsForDeletion(Rows, Created, keep, own) :
     row[b].here /\ row[b].up \in {"pending", "failed"}}

\* The loop of applyLocalRetention goes on, or the worker is done.
Expiring(t) == IF t.todo = {} THEN Idle ELSE [t EXCEPT !.at = "purge", !.b = 0]

Expire(w) ==
  /\ task[w].at = "expire"
  /\ \E keep \in 1 .. Keep :
       Go(w, Expiring([task[w] EXCEPT !.todo = Expirable(keep, task[w].own)]))
  /\ UNCHANGED <<last, row, file, remote, newer, gone>>

\* purgeRemoteCopy up to its await
Purging(t, b) ==
  [t EXCEPT !.b = b, !.todo = @ \ {b},
            !.at = IF row[b].up = "uploaded" THEN "purge_uploaded" ELSE "purge_stray"]

Purge(w) ==
  LET b == Newest(task[w].todo) IN
  /\ task[w].at = "purge"
  /\ Go(w, IF row[b].in THEN Purging(task[w], b) ELSE Idle)
  /\ UNCHANGED <<last, row, file, remote, newer, gone>>

Delete(h, b) ==
  /\ task[h] = Idle
  /\ row[b].in
  /\ Go(h, Purging([Idle EXCEPT !.op = "delete"], b))
  /\ UNCHANGED <<last, row, file, remote, newer, gone>>

Purged(w) ==
  LET b == task[w].b IN
  /\ task[w].at \in {"purge_uploaded", "purge_stray"}
  /\ Withdraw(b)
  /\ row' = [row EXCEPT ![b] = NoRow]
  /\ At(w, "unlink")
  /\ UNCHANGED <<last, file>>

\* An object the panel knows of cannot be deleted, or the answer is lost:
\* nothing more is deleted.
PurgeRefused(w) ==
  /\ task[w].at = "purge_uploaded"
  /\ Withdraw(task[w].b) \/ UNCHANGED <<remote, newer, gone>>
  /\ Go(w, Idle)
  /\ UNCHANGED <<last, row, file>>

\* A stray object cannot be deleted: the backup goes all the same.
PurgeSkipped(w) ==
  LET b == task[w].b IN
  /\ task[w].at = "purge_stray"
  /\ row' = [row EXCEPT ![b] = NoRow]
  /\ At(w, "unlink")
  /\ UNCHANGED <<last, file, remote, newer, gone>>

Unlink(w) ==
  /\ task[w].at = "unlink"
  /\ file' = [file EXCEPT ![task[w].b] = "none"]
  /\ Go(w, Expiring(task[w]))
  /\ UNCHANGED <<last, row, remote, newer, gone>>

-----------------------------------------------------------------------------
(***************************************************************************)
(* The process dies, and is restarted                                      *)
(***************************************************************************)
Crash ==
  /\ \E w \in Workers : task[w] # Idle
  /\ task' = [w \in Workers |-> Idle]
  /\ UNCHANGED <<last, row, file, remote, newer, gone>>

\* The objects a worker asks the destination to delete next.
Doomed(t) ==
  CASE t.at \in {"clear", "purge_uploaded", "purge_stray"} -> {t.b}
    [] t.at = "prune" -> t.todo
    [] OTHER -> {}

\* It dies after the destination did what it was asked, before the row says so.
CutShort(w) ==
  /\ \/ task[w].at = "upload" /\ task[w].read # "none" /\ Put(task[w].b, "bad")
     \/ \E b \in Doomed(task[w]) : Withdraw(b)
  /\ task' = [v \in Workers |-> Idle]
  /\ UNCHANGED <<last, row, file>>

Local ==
  \/ Archive \/ Insert \/ CreateVerified \/ ReconcileJob
  \/ Fetch \/ FetchFails \/ Accept \/ AcceptRefused \/ Sweep
  \/ \E b \in Backups : Verify(b) \/ UploadJob(b) \/ ImportJob(b)

Uploading(w) ==
  \/ Scan(w) \/ Pick(w) \/ Upload(w) \/ UploadFails(w)
  \/ Check(w) \/ CheckFails(w) \/ Mark(w) \/ Clear(w)

Retaining(w) ==
  \/ List(w) \/ RetentionFails(w) \/ Prune(w) \/ Pruned(w)
  \/ Reclaim(w) \/ Reclaimed(w)

Deleting(w) ==
  \/ Expire(w) \/ Purge(w) \/ Purged(w) \/ PurgeRefused(w) \/ PurgeSkipped(w)
  \/ Unlink(w)

Steady ==
  \/ Local
  \/ \E w \in Uploaders : Uploading(w) \/ Retaining(w)
  \/ \E w \in Workers : Deleting(w)
  \/ \E h \in Handlers, b \in Backups : Delete(h, b)

Next ==
  \/ Steady
  \/ Crash
  \/ \E w \in Workers : CutShort(w)

Spec == Init /\ [][Next]_vars

\* The behaviours in which the process does not die.
SteadySpec == Init /\ [][Steady]_vars

-----------------------------------------------------------------------------
TypeOK ==
  /\ last \in 0 .. MaxBackups
  /\ row \in [Backups -> Row]
  /\ file \in [Backups -> Copy]
  /\ remote \in [Backups -> Copy]
  /\ newer \subseteq Backups \X Backups
  /\ gone \subseteq Backups
  /\ task \in [Workers -> Task]

(***************************************************************************)
(* A row that says `uploaded` can be relied on: its verified object is on  *)
(* the destination, whatever failed, was retried or imported back, unless  *)
(* an administrator or retention deleted the object and the deletion was   *)
(* cut short, was told it failed, or met an import.  This is what makes it *)
(* safe to delete the local archive ("delete-local only after the remote   *)
(* copy is checksum-verified").                                            *)
(***************************************************************************)
UploadedMeansRemote ==
  \A b \in Rows \ gone : row[b].up = "uploaded" => remote[b] = "good"

(***************************************************************************)
(* The staging area is emptied only of what the destination holds: when    *)
(* reclaimLocalStaging comes to an archive, from a list it read several    *)
(* awaits ago, the verified object is still there.                         *)
(***************************************************************************)
ReclaimKeepsCopy ==
  \A w \in Uploaders :
    task[w].at = "reclaim" => \A b \in (task[w].todo \cap Rows) \ gone : remote[b] = "good"

(***************************************************************************)
(* An archive that is registered as present and verified is intact: no     *)
(* import, interrupted or not, replaces it with an unverified download.    *)
(***************************************************************************)
VerifiedArchiveIsGood ==
  \A b \in Rows : row[b].here /\ row[b].ver = "verified" => file[b] # "bad"

(***************************************************************************)
(* Retention does not remove "in the same breath" the backup that was just *)
(* uploaded, from the destination or from the server.                      *)
(***************************************************************************)
OwnUploadIsKept ==
  \A w \in Uploaders :
    task[w].op = "upload" /\ task[w].at \in {"prune", "purge"} => task[w].own \notin task[w].todo

(***************************************************************************)
(* Retention takes nothing that must stay: no archive whose object is not  *)
(* there, and not the backup that was just uploaded.                       *)
(***************************************************************************)
RetentionHolds == ReclaimKeepsCopy /\ OwnUploadIsKept

(***************************************************************************)
(* While the process lives, a row says `uploading` only as long as a       *)
(* worker sends that backup and will record how it ended, although the     *)
(* sweep, a job and deletions change the row in between.  Such a row is    *)
(* neither retried by a sweep nor expired, so it must not be left behind.  *)
(***************************************************************************)
UploadingHasUploader ==
  \A b \in Rows : row[b].up = "uploading" =>
    \E w \in Uploaders : task[w].b = b /\ task[w].at \in {"upload", "check", "mark", "clear"}

(***************************************************************************)
(* A backup that has an intact copy keeps one until somebody chooses to    *)
(* delete it: a failed upload ends with "the local archive [...] kept for  *)
(* a later retry".                                                         *)
(***************************************************************************)
HasCopy(b) == file[b] = "good" \/ remote[b] = "good"

BeingDeleted(b) ==
  \E w \in Workers :
    \/ task[w].at \in {"purge_uploaded", "purge_stray", "unlink"} /\ task[w].b = b
    \/ task[w].at = "prune" /\ b \in task[w].todo

OnlyDeletionLosesBackups ==
  [][\A b \in Backups : HasCopy(b) /\ ~HasCopy(b)' => b \in gone \/ BeingDeleted(b)]_vars
==============================================================================
